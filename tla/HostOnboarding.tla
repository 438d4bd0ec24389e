----------------------------- MODULE HostOnboarding -----------------------------
(***************************************************************************)
(* A host is brought in: the panel (apps/web/src/OnboardingPanel.tsx), the *)
(* services of the API (apps/api/src/hosts.ts, targets.ts) and the SSH     *)
(* connections they open (packages/ssh/src/index.ts).                      *)
(*                                                                         *)
(* The user types an endpoint, has its host key probed, acknowledges the   *)
(* fingerprint and only then hands over a private key; the API probes the  *)
(* endpoint again, proves the key under the acknowledged fingerprint and   *)
(* stores host and credential together.  A container of the host is then   *)
(* discovered and bound.  What answers at an endpoint may change at any    *)
(* moment, the answers arrive in any order, and the page may be loaded     *)
(* anew while requests of the former one go on.                            *)
(***************************************************************************)
EXTENDS Naturals, FiniteSets

CONSTANTS
    None,
    Endpoint,   \* hostname and port (and user name): what makes a host unique
    HostKey,    \* the fingerprints an endpoint may show
    Container,  \* the containers Docker may list
    Home,       \* the endpoint a container runs at
    Call,       \* the requests that may be outstanding
    MaxKeys,    \* bound on the changes of a host key
    MaxAsks     \* bound on the requests the user makes and the pages loaded

VARIABLES
    keyAt,     \* the host key that answers at an endpoint
    changes,   \* bound: host keys changed
    asks,      \* bound: requests made and pages loaded
    panel,     \* the panel's state
    calls,     \* the requests under way, their step and their answer
    stored,    \* hosts with their credential: the fingerprint pinned for an endpoint
    targets,   \* ollama_targets: endpoint and container
    confirmed, \* history variable: what the user acknowledged, with the endpoint shown beside it
    entrusted  \* history variable: the keys of the endpoints a private key was offered to

vars == <<keyAt, changes, asks, panel, calls, stored, targets, confirmed, entrusted>>

Phase == {"choose-host", "new-host", "discovering", "select-container", "saving-target"}

NoPanel == [phase |-> "new-host", typed |-> None, probe |-> None, ack |-> None, secret |-> FALSE,
            probing |-> FALSE, creating |-> FALSE, active |-> None, found |-> {}, chosen |-> None]

\* A request that the panel of an earlier page made has nobody to answer.
NewCall(kind, e) == [kind |-> kind, of |-> e, step |-> "start", key |-> None, chosen |-> None,
                     answer |-> None, list |-> {}, heard |-> TRUE]

Idle == {c \in Call : calls[c] = None}

Ask(request) ==
    /\ asks < MaxAsks /\ asks' = asks + 1
    /\ Idle # {} /\ calls' = [calls EXCEPT ![CHOOSE c \in Idle : TRUE] = request]

\* Hosts may have been brought in by earlier pages.
Init ==
    /\ keyAt \in [Endpoint -> HostKey]
    /\ changes = 0 /\ asks = 0
    /\ panel = NoPanel /\ calls = [c \in Call |-> None]
    /\ \E earlier \in SUBSET Endpoint :
          /\ stored = [e \in Endpoint |-> IF e \in earlier THEN keyAt[e] ELSE None]
          /\ confirmed = {[of |-> e, key |-> keyAt[e]] : e \in earlier}
    /\ entrusted = confirmed /\ targets = {}

remote == <<keyAt, changes>>
tables == <<stored, targets>>
ghosts == <<confirmed, entrusted>>

-----------------------------------------------------------------------------
(* The panel.                                                              *)

Invalidated(p) == [p EXCEPT !.probe = None, !.ack = None, !.secret = FALSE]

FingerprintReady ==
    /\ panel.probe # None /\ panel.ack # None
    /\ panel.probe.of = panel.typed /\ panel.probe.key = panel.ack

Type(e) ==
    /\ panel.phase = "new-host" /\ panel.typed # e
    /\ panel' = [Invalidated(panel) EXCEPT !.typed = e]
    /\ UNCHANGED <<remote, asks, calls, tables, ghosts>>

ProbeHost ==
    /\ panel.phase = "new-host" /\ panel.typed # None /\ ~panel.probing
    /\ panel' = [Invalidated(panel) EXCEPT !.probing = TRUE]
    /\ Ask(NewCall("probe", panel.typed))
    /\ UNCHANGED <<remote, tables, ghosts>>

\* The checkbox is shown with the probe, whatever is typed by now.
Acknowledge ==
    /\ panel.phase = "new-host" /\ panel.probe # None
    /\ panel' = [panel EXCEPT !.ack = IF @ = panel.probe.key THEN None ELSE panel.probe.key]
    /\ confirmed' = IF panel.ack = panel.probe.key THEN confirmed ELSE confirmed \cup {panel.probe}
    /\ UNCHANGED <<remote, asks, calls, tables, entrusted>>

EnterKey ==
    /\ panel.phase = "new-host" /\ FingerprintReady
    /\ panel' = [panel EXCEPT !.secret = TRUE]
    /\ UNCHANGED <<remote, asks, calls, tables, ghosts>>

CreateHost ==
    /\ panel.phase = "new-host" /\ FingerprintReady /\ panel.secret /\ ~panel.creating
    /\ panel' = [panel EXCEPT !.secret = FALSE, !.creating = TRUE]
    /\ Ask([NewCall("create", panel.typed) EXCEPT !.key = panel.probe.key])
    /\ UNCHANGED <<remote, tables, ghosts>>

Navigate(phase) ==
    /\ panel.phase \in {"choose-host", "new-host", "select-container"} \ {phase}
    /\ phase \in {"choose-host", "new-host"}
    /\ panel.phase = "select-container" => phase = "choose-host"
    /\ panel' = [panel EXCEPT !.phase = phase]
    /\ UNCHANGED <<remote, asks, calls, tables, ghosts>>

Discovering(p, e) ==
    [p EXCEPT !.phase = "discovering", !.active = e, !.found = {}, !.chosen = None]

\* Discover: a stored host is picked, or the discovery of the active one is refreshed.
Discover(e) ==
    /\ stored[e] # None
    /\ \/ panel.phase = "choose-host"
       \/ panel.phase = "select-container" /\ panel.active = e
    /\ panel' = Discovering(panel, e)
    /\ Ask(NewCall("discover", e))
    /\ UNCHANGED <<remote, tables, ghosts>>

Choose(x) ==
    /\ panel.phase = "select-container" /\ x \in panel.found /\ panel.chosen # x
    /\ panel' = [panel EXCEPT !.chosen = x]
    /\ UNCHANGED <<remote, asks, calls, tables, ghosts>>

SaveTarget ==
    /\ panel.phase = "select-container" /\ panel.chosen \in panel.found
    /\ panel' = [panel EXCEPT !.phase = "saving-target"]
    /\ Ask([NewCall("select", panel.active) EXCEPT !.chosen = panel.chosen])
    /\ UNCHANGED <<remote, tables, ghosts>>

\* The page is loaded anew; the panel starts at the hosts that are stored.
Reload ==
    /\ asks < MaxAsks /\ asks' = asks + 1
    /\ panel' = [NoPanel EXCEPT !.phase =
                    IF \E e \in Endpoint : stored[e] # None THEN "choose-host" ELSE "new-host"]
    /\ panel' # panel
    /\ calls' = [c \in Call |-> IF calls[c] = None THEN None ELSE [calls[c] EXCEPT !.heard = FALSE]]
    /\ UNCHANGED <<remote, tables, ghosts>>

-----------------------------------------------------------------------------
(* The API.                                                                *)

Answer(c, answer) == calls' = [calls EXCEPT ![c].step = "done", ![c].answer = answer]

\* probeHostKey: the key that answers is observed, and the connection is refused.
Probe(c) ==
    /\ calls[c] # None /\ calls[c].kind = "probe" /\ calls[c].step = "start"
    /\ \/ Answer(c, keyAt[calls[c].of])
       \/ Answer(c, "failed")
    /\ UNCHANGED <<remote, asks, panel, tables, ghosts>>

\* create() probes the endpoint before it uses the private key.
CreateProbes(c) ==
    /\ calls[c] # None /\ calls[c].kind = "create" /\ calls[c].step = "start"
    /\ \/ /\ keyAt[calls[c].of] = calls[c].key
          /\ calls' = [calls EXCEPT ![c].step = "verify"]
       \/ keyAt[calls[c].of] # calls[c].key /\ Answer(c, "mismatch")
       \/ Answer(c, "failed")
    /\ UNCHANGED <<remote, asks, panel, tables, ghosts>>

\* Mutant of Trusted: the probe has compared the fingerprint already.
TrustedByProbe(call) == TRUE

\* hostVerifier: the connection goes on to the private key only under the pinned fingerprint.
Trusted(call) == keyAt[call.of] = call.key

\* verifyPrivateKeyAccess: the private key may be refused.
CreateVerifies(c) ==
    /\ calls[c] # None /\ calls[c].kind = "create" /\ calls[c].step = "verify"
    /\ IF ~Trusted(calls[c])
         THEN Answer(c, "mismatch") /\ UNCHANGED entrusted
         ELSE /\ entrusted' = entrusted \cup {[of |-> calls[c].of, key |-> keyAt[calls[c].of]]}
              /\ \/ calls' = [calls EXCEPT ![c].step = "store"]
                 \/ Answer(c, "failed")
    /\ UNCHANGED <<remote, asks, panel, tables, confirmed>>

\* INSERT OR IGNORE into hosts, and the credential in the same transaction.
Insert(call) == [stored EXCEPT ![call.of] = IF @ = None THEN call.key ELSE @]

CreateStores(c) ==
    /\ calls[c] # None /\ calls[c].kind = "create" /\ calls[c].step = "store"
    /\ stored' = Insert(calls[c])
    /\ Answer(c, IF stored[calls[c].of] = None THEN "created" ELSE "failed")
    /\ UNCHANGED <<remote, asks, panel, targets, ghosts>>

Local(e) == {x \in Container : Home[x] = e}

\* discoverOllamaContainers under the pinned fingerprint: those of the host's containers that
\* are there and look like Ollama.
DiscoveryAnswers(c) ==
    /\ calls[c] # None /\ calls[c].kind = "discover" /\ calls[c].step = "start"
    /\ \/ /\ keyAt[calls[c].of] = stored[calls[c].of]
          /\ \E list \in SUBSET Local(calls[c].of) :
                calls' = [calls EXCEPT ![c].step = "done", ![c].answer = "found", ![c].list = list]
       \/ Answer(c, "failed")
    /\ UNCHANGED <<remote, asks, panel, tables, ghosts>>

Candidate(call) == call.chosen \in Local(call.of)

\* select() discovers again and binds only what is a candidate now.
SelectAnswers(c) ==
    /\ calls[c] # None /\ calls[c].kind = "select" /\ calls[c].step = "start"
    /\ \/ /\ keyAt[calls[c].of] = stored[calls[c].of] /\ Candidate(calls[c])
          /\ targets' = targets \cup {<<calls[c].of, calls[c].chosen>>}
          /\ Answer(c, "saved")
       \/ Answer(c, "failed") /\ UNCHANGED targets
    /\ UNCHANGED <<remote, asks, panel, stored, ghosts>>

-----------------------------------------------------------------------------
(* The answers reach the panel.                                            *)

Heard(c, kind) == calls[c] # None /\ calls[c].step = "done" /\ calls[c].heard /\ calls[c].kind = kind

Gone(c) == calls' = [calls EXCEPT ![c] = None]

\* The answer is kept with the endpoint that was probed.
ProbeShown(c) ==
    /\ Heard(c, "probe")
    /\ panel' = [panel EXCEPT !.probing = FALSE,
                              !.probe = IF calls[c].answer = "failed" THEN @
                                        ELSE [of |-> calls[c].of, key |-> calls[c].answer]]
    /\ Gone(c)
    /\ UNCHANGED <<remote, asks, tables, ghosts>>

\* A host that was created is discovered at once, wherever the panel is by now.
HostCreated(c) ==
    /\ Heard(c, "create") /\ calls[c].answer = "created"
    /\ panel' = [Discovering(panel, calls[c].of) EXCEPT !.creating = FALSE]
    /\ calls' = [calls EXCEPT ![c] = NewCall("discover", calls[c].of)]
    /\ UNCHANGED <<remote, asks, tables, ghosts>>

CreateRefused(c) ==
    /\ Heard(c, "create") /\ calls[c].answer # "created"
    /\ panel' = [panel EXCEPT !.creating = FALSE,
                    !.probe = IF calls[c].answer = "mismatch" THEN None ELSE @,
                    !.ack = IF calls[c].answer = "mismatch" THEN None ELSE @]
    /\ Gone(c)
    /\ UNCHANGED <<remote, asks, tables, ghosts>>

\* The discovery is shown for the host that is active now.
DiscoveryShown(c) ==
    /\ Heard(c, "discover")
    /\ panel' = IF calls[c].answer = "failed"
                  THEN [panel EXCEPT !.phase = "choose-host"]
                  ELSE [panel EXCEPT !.phase = "select-container", !.found = calls[c].list]
    /\ Gone(c)
    /\ UNCHANGED <<remote, asks, tables, ghosts>>

\* onCompleted takes the panel away.
TargetSaved(c) ==
    /\ Heard(c, "select") /\ calls[c].answer = "saved"
    /\ panel' = [NoPanel EXCEPT !.phase = "choose-host"]
    /\ calls' = [d \in Call |-> IF d = c \/ calls[d] = None THEN None
                                ELSE [calls[d] EXCEPT !.heard = FALSE]]
    /\ UNCHANGED <<remote, asks, tables, ghosts>>

\* A failed selection is followed by a new discovery of the same host.
SelectFailed(c) ==
    /\ Heard(c, "select") /\ calls[c].answer = "failed"
    /\ panel' = [panel EXCEPT !.phase = "discovering", !.chosen = None]
    /\ calls' = [calls EXCEPT ![c] = NewCall("discover", calls[c].of)]
    /\ UNCHANGED <<remote, asks, tables, ghosts>>

Unheard(c) ==
    /\ calls[c] # None /\ calls[c].step = "done" /\ ~calls[c].heard
    /\ Gone(c)
    /\ UNCHANGED <<remote, asks, panel, tables, ghosts>>

\* Another machine, or a new installation, answers at the endpoint.
KeyChanges(e, k) ==
    /\ changes < MaxKeys /\ changes' = changes + 1
    /\ keyAt[e] # k /\ keyAt' = [keyAt EXCEPT ![e] = k]
    /\ UNCHANGED <<asks, panel, calls, tables, ghosts>>

Serve ==
    \E c \in Call :
        \/ Probe(c) \/ CreateProbes(c) \/ CreateVerifies(c) \/ CreateStores(c)
        \/ DiscoveryAnswers(c) \/ SelectAnswers(c)
        \/ ProbeShown(c) \/ HostCreated(c) \/ CreateRefused(c) \/ DiscoveryShown(c)
        \/ TargetSaved(c) \/ SelectFailed(c) \/ Unheard(c)

Next ==
    \/ ProbeHost \/ Acknowledge \/ EnterKey \/ CreateHost \/ SaveTarget \/ Reload \/ Serve
    \/ \E e \in Endpoint : Type(e) \/ Discover(e)
    \/ \E phase \in Phase : Navigate(phase)
    \/ \E x \in Container : Choose(x)
    \/ \E e \in Endpoint, k \in HostKey : KeyChanges(e, k)

Spec == Init /\ [][Next]_vars

-----------------------------------------------------------------------------
(* Properties.                                                             *)

\* A private key is offered only to a host key the user acknowledged for that very endpoint:
\* not for one probed before, and not when the key changed after the probes.
KeyIsEntrusted == entrusted \subseteq confirmed

\* The fingerprint pinned for a host was acknowledged for its endpoint and has received
\* the private key it is stored with.
PinsAreConfirmed ==
    \A e \in Endpoint : stored[e] # None =>
        [of |-> e, key |-> stored[e]] \in confirmed \cap entrusted

\* A target binds a container of its own host, even when the panel shows a late discovery
\* of another host.
TargetsAreAtHome == \A t \in targets : Home[t[2]] = t[1]
=============================================================================
