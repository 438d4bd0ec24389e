------------------------------- MODULE MCAuth -------------------------------
(***************************************************************************)
(* How a user gets to a host.  A behaviour follows one of                  *)
(*   - auth: an instance of Auth with requests from two addresses;         *)
(*   - host: an instance of HostOnboarding with two endpoints;             *)
(*   - exchange: one HTTP exchange with the service of that host.          *)
(***************************************************************************)
EXTENDS Auth, PinnedExchange, TLC

CONSTANTS
    q1, q2, s1, e1, e2, k1, k2, x1, x2, c1, c2,
    Endpoint, HostKey, Container, Home, Call, MaxKeys, MaxAsks \* HostOnboarding

VARIABLES
    scene, \* the instance
    keyAt, changes, asks, panel, calls, stored, targets, confirmed, entrusted

hostVars == <<keyAt, changes, asks, panel, calls, stored, targets, confirmed, entrusted>>

Host == INSTANCE HostOnboarding

NoHost ==
    /\ keyAt = None /\ changes = None /\ asks = None /\ panel = None /\ calls = None
    /\ stored = None /\ targets = None /\ confirmed = None /\ entrusted = None

NoExchange ==
    /\ call = None /\ client = None /\ arrived = None
    /\ decoder = None /\ timer = None /\ outcome = None

SceneInit ==
    /\ Init
    /\ \/ scene = "auth" /\ NoHost /\ NoExchange
       \/ scene = "host" /\ Host!Init /\ NoExchange
       \/ scene = "exchange" /\ NoHost /\ ExchangeInit

SceneNext ==
    /\ \/ scene = "auth" /\ Next /\ UNCHANGED <<hostVars, exchangeVars>>
       \/ scene = "host" /\ Host!Next /\ UNCHANGED <<vars, exchangeVars>>
       \/ scene = "exchange" /\ ExchangeNext /\ UNCHANGED <<vars, hostVars>>
    /\ UNCHANGED scene

sceneVars == <<vars, hostVars, exchangeVars, scene>>

SceneSpec == SceneInit /\ [][SceneNext]_sceneVars

\* A private key is offered only to a host key the user acknowledged for that endpoint, the
\* fingerprint that is stored for it is the one, and a target binds a container of its host.
HostInvariant ==
    scene = "host" => Host!KeyIsEntrusted /\ Host!PinsAreConfirmed /\ Host!TargetsAreAtHome

\* What an exchange delivers and how it ends is what the response says, and not how its
\* bytes are divided: but for a pull whose line of the greatest length is divided from its
\* line feed, which is refused, and one that is cut off between two lines, which is done.
ExchangeInvariant ==
    scene = "exchange" => ExchangeTypeOK /\ LinesInOrder /\ DoneIsWhole /\ RefusedForReason

\* Up to two lines: empty ones, an object, one that is too long and one that is no JSON,
\* each with an end or without one.
Texts == {<<>>, <<"{", "}">>, <<"{", "1", "}">>, <<"{">>}
Ended == {t \o e : t \in Texts, e \in {<<LF>>, <<CR, LF>>}}
MCBodies == Texts \cup Ended \cup {l \o m : l \in Ended, m \in Ended \cup Texts}

\* The containers run at an endpoint each.
MCHome == x1 :> e1 @@ x2 :> e2

Symmetry == Permutations(Request) \cup Permutations(HostKey)

=============================================================================
