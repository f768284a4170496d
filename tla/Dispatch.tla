------------------------------ MODULE Dispatch ------------------------------
(***************************************************************************)
(* One tool call through the edge (internal/dataplane/edge/dispatch.go),   *)
(* and the round trips it takes when a plugin or the backend needs input   *)
(* from the client first (requeststate.go). The gateway keeps nothing      *)
(* between the rounds: all it knows of an earlier one is in the signed     *)
(* envelope the client sends back. A step is everything a handler does     *)
(* between two calls into the pipeline or the pool.                        *)
(*                                                                         *)
(* Plugins are what they do to a call: "mask" replaces its arguments,      *)
(* "confirm" defers it until it sees an answer. "ask" is a backend that    *)
(* does not act before it was answered.                                    *)
(***************************************************************************)
EXTENDS Naturals, FiniteSets

CONSTANTS
    Clients,      \* each its own principal
    Tools, Plain, Masked, None,
    MaxUpsets     \* bound: skipped plugins, envelopes on another call, expiries, restarts

VARIABLES
    config,    \* what takes part: a subset of {"mask", "confirm", "ask"}
    key,       \* the signing key of the running gateway
    token,     \* [Clients -> the last envelope the client was given]
    call,      \* [Clients -> the request being handled]
    outcome,   \* [Clients -> how the last request ended]
    upsets

vars == <<config, key, token, call, outcome, upsets>>

Args == {Plain, Masked}

(* What an asker remembers of the call it asked about. *)
Memories == [principal : Clients, tool : Tools, args : Args, under : SUBSET {"mask", "confirm"}]
Envelopes == [key : 0..MaxUpsets, expired : BOOLEAN, source : {"plugin", "backend"},
              principal : Clients, tool : Tools, args : Args,
              plugin : Memories \cup {None}, backend : Memories \cup {None}]

ASSUME NoneAssumption == None \notin Envelopes \cup Memories \cup {"plugin", "backend"}
ASSUME MaxUpsetsAssumption == MaxUpsets \in Nat

NoRetry == [source |-> None, plugin |-> None, backend |-> None]

TypeOK ==
    /\ config \in SUBSET {"mask", "confirm", "ask"}
    /\ key \in 0..MaxUpsets
    /\ \A c \in Clients :
         /\ token[c] = None \/ token[c] \in Envelopes
         /\ call[c].pc \in {"idle", "admit", "hook", "dispatch", "result"}
         /\ call[c].retry.source \in {None, "plugin", "backend"}
         /\ call[c].retry.plugin # None => call[c].retry.source = "plugin"
         /\ call[c].retry.backend # None => call[c].retry.source = "backend"
         /\ outcome[c] \in {"none", "asked", "stale", "refused", "failed", "result"}
    /\ upsets \in 0..MaxUpsets

NoCall == [pc |-> "idle", tool |-> None, args |-> None, token |-> None, answers |-> None,
           retry |-> NoRetry, sent |-> None, under |-> {}]

Init ==
    /\ config \in SUBSET {"mask", "confirm", "ask"}
    /\ key = 0
    /\ token = [c \in Clients |-> None]
    /\ call = [c \in Clients |-> NoCall]
    /\ outcome = [c \in Clients |-> "none"]
    /\ upsets = 0

-----------------------------------------------------------------------------
(* Clients *)

Upset == upsets < MaxUpsets /\ upsets' = upsets + 1

At(c, pc) == call[c].pc = pc

Sends(c, tool, args, t, answers) ==
    call' = [call EXCEPT ![c] =
        [pc |-> "admit", tool |-> tool, args |-> args, token |-> t, answers |-> answers,
         retry |-> NoRetry, sent |-> None, under |-> {}]]

(* A new call; a client may send along answers it expects to be asked for. *)
Begin(c) ==
    /\ At(c, "idle") /\ outcome[c] # "asked"
    /\ \E tool \in Tools, args \in Args, answers \in {None, "backend"} : Sends(c, tool, args, None, answers)
    /\ outcome' = [outcome EXCEPT ![c] = "none"]
    /\ UNCHANGED <<config, key, token, upsets>>

(* The same call again, with the envelope and the answers it asked for. *)
Retry(c) ==
    /\ At(c, "idle") /\ outcome[c] = "asked"
    /\ Sends(c, call[c].tool, call[c].args, token[c], token[c].source)
    /\ UNCHANGED <<config, key, token, outcome, upsets>>

(* Somebody's envelope with a different call. *)
MixUp(c) ==
    /\ At(c, "idle")
    /\ \E d \in Clients, tool \in Tools, args \in Args :
         token[d] # None /\ Sends(c, tool, args, token[d], token[d].source)
    /\ Upset
    /\ UNCHANGED <<config, key, token, outcome>>

-----------------------------------------------------------------------------
(* The handler *)

Ends(c, how) ==
    /\ call' = [call EXCEPT ![c] = IF how = "asked" THEN [NoCall EXCEPT !.tool = call[c].tool, !.args = call[c].args]
                               ELSE NoCall]
    /\ outcome' = [outcome EXCEPT ![c] = how]

(* A caller who may list the tool but not call it, or whom the authentication *)
(* does not know any more, and a tool the prober has blocked.                 *)
Refuse(c) ==
    /\ At(c, "admit")
    /\ Ends(c, "refused")
    /\ UNCHANGED <<config, key, token, upsets>>

(* Unwrap: the signature and the age. *)
Verifies(t) == t.key = key /\ ~t.expired

Redeemable_AnyArguments(c, t) ==
    /\ Verifies(t)
    /\ t.principal = c /\ t.tool = call[c].tool

(* UnwrapForRetry: the envelope was issued for this call. *)
Redeemable(c, t) ==
    /\ Verifies(t)
    /\ t.principal = c /\ t.tool = call[c].tool /\ t.args = call[c].args

RejectState(c) ==
    /\ At(c, "admit")
    /\ call[c].token # None /\ ~Redeemable(c, call[c].token)
    /\ Ends(c, "stale")
    /\ UNCHANGED <<config, key, token, upsets>>

Admit(c) ==
    /\ At(c, "admit")
    /\ LET t == call[c].token
       IN  /\ t # None => Redeemable(c, t)
           /\ call' = [call EXCEPT ![c].pc = "hook",
                                   ![c].retry = IF t = None THEN NoRetry
                                                ELSE [source |-> t.source, plugin |-> t.plugin,
                                                      backend |-> t.backend]]
    /\ UNCHANGED <<config, key, token, outcome, upsets>>

ResponsesFor_Everybody(c, asker) == call[c].answers

(* pluginResponses, backendResponses: a retry's answers go to whoever asked. *)
ResponsesFor(c, asker) ==
    IF call[c].retry.source \in {None, asker} THEN call[c].answers ELSE None

(* The plugins of the call's hook that run; the others were skipped. *)
Running(c, plugins) ==
    /\ plugins \subseteq config \ {"ask"}
    /\ IF plugins = config \ {"ask"} THEN upsets' = upsets ELSE Upset

Issue_CarriesBoth(c, source, args, memory) ==
    token' = [token EXCEPT ![c] =
        [key |-> key, expired |-> FALSE, source |-> source, principal |-> c,
         tool |-> call[c].tool, args |-> args, plugin |-> memory, backend |-> memory]]

(* Whoever asks, its own state and no other's goes into a signed envelope. *)
Issue(c, source, args, memory) ==
    token' = [token EXCEPT ![c] =
        [key |-> key, expired |-> FALSE, source |-> source, principal |-> c,
         tool |-> call[c].tool, args |-> args,
         plugin |-> IF source = "plugin" THEN memory ELSE None,
         backend |-> IF source = "backend" THEN memory ELSE None]]

Memory(c, args, plugins) ==
    [principal |-> c, tool |-> call[c].tool, args |-> args, under |-> plugins]

HookDenies(c) ==
    /\ At(c, "hook") /\ Ends(c, "refused")
    /\ UNCHANGED <<config, key, token, upsets>>

(* Arguments that are no object, a patch or a question that cannot be read:   *)
(* the call ends in a protocol error, at either hook.                         *)
HookErrs(c) ==
    /\ call[c].pc \in {"hook", "result"} /\ Ends(c, "failed")
    /\ UNCHANGED <<config, key, token, upsets>>

HookDefers_BindsPatched(c) ==
    /\ At(c, "hook") /\ ResponsesFor(c, "plugin") = None
    /\ \E plugins \in SUBSET {"mask", "confirm"} :
         /\ "confirm" \in plugins /\ Running(c, plugins)
         /\ LET args == IF "mask" \in plugins THEN Masked ELSE call[c].args
            IN  Issue(c, "plugin", args, Memory(c, args, plugins))
    /\ Ends(c, "asked")
    /\ UNCHANGED <<config, key>>

(* The envelope binds the client's own arguments. *)
HookDefers(c) ==
    /\ At(c, "hook") /\ ResponsesFor(c, "plugin") = None
    /\ \E plugins \in SUBSET {"mask", "confirm"} :
         /\ "confirm" \in plugins /\ Running(c, plugins)
         /\ Issue(c, "plugin", call[c].args, Memory(c, call[c].args, plugins))
    /\ Ends(c, "asked")
    /\ UNCHANGED <<config, key>>

HookPasses(c) ==
    /\ At(c, "hook")
    /\ \E plugins \in SUBSET {"mask", "confirm"} :
         /\ "confirm" \in plugins => ResponsesFor(c, "plugin") # None
         /\ Running(c, plugins)
         /\ call' = [call EXCEPT ![c].pc = "dispatch", ![c].under = plugins,
                                 ![c].sent = IF "mask" \in plugins THEN Masked ELSE call[c].args]
    /\ UNCHANGED <<config, key, token, outcome>>

BackendFails(c) ==
    /\ At(c, "dispatch") /\ Ends(c, "failed")
    /\ UNCHANGED <<config, key, token, upsets>>

(* The envelope binds the arguments that were dispatched. *)
BackendAsks(c) ==
    /\ At(c, "dispatch") /\ "ask" \in config /\ ResponsesFor(c, "backend") = None
    /\ Issue(c, "backend", call[c].sent, Memory(c, call[c].sent, call[c].under))
    /\ Ends(c, "asked")
    /\ UNCHANGED <<config, key, upsets>>

BackendActs(c) ==
    /\ At(c, "dispatch") /\ ("ask" \in config => ResponsesFor(c, "backend") # None)
    /\ call' = [call EXCEPT ![c].pc = "result"]
    /\ UNCHANGED <<config, key, token, outcome, upsets>>

(* The result's hook withholds the result, or passes or changes it; a deferral *)
(* at this hook is none of these and lets it pass.                             *)
ResultDecisions == {"refused", "result"}

ResultHook(c) ==
    /\ At(c, "result")
    /\ \E how \in ResultDecisions : Ends(c, how)
    /\ UNCHANGED <<config, key, token, upsets>>

Handle(c) ==
    \/ Refuse(c) \/ RejectState(c) \/ Admit(c)
    \/ HookDenies(c) \/ HookErrs(c) \/ HookDefers(c) \/ HookPasses(c)
    \/ BackendFails(c) \/ BackendAsks(c) \/ BackendActs(c) \/ ResultHook(c)

-----------------------------------------------------------------------------
(* What happens around them *)

Expire(c) ==
    /\ token[c] # None /\ ~token[c].expired
    /\ token' = [token EXCEPT ![c].expired = TRUE]
    /\ Upset
    /\ UNCHANGED <<config, key, call, outcome>>

(* Without MCPDOLL_REQUEST_STATE_KEY every process generates its own. *)
Restart ==
    /\ Upset /\ key' = key + 1
    /\ call' = [c \in Clients |-> IF At(c, "idle") THEN call[c] ELSE NoCall]
    /\ outcome' = [c \in Clients |-> IF At(c, "idle") THEN outcome[c] ELSE "failed"]
    /\ UNCHANGED <<config, token>>

Next ==
    \/ \E c \in Clients : Begin(c) \/ Retry(c) \/ MixUp(c) \/ Handle(c) \/ Expire(c)
    \/ Restart

Spec == Init /\ [][Next]_vars

(* A client that was asked answers, one whose state was refused starts again, *)
(* and a handler runs to its end.                                             *)
Fairness ==
    \A c \in Clients :
        /\ WF_vars(Retry(c)) /\ WF_vars(outcome[c] = "stale" /\ Begin(c))
        /\ WF_vars(Handle(c))

FairSpec == Spec /\ Fairness

-----------------------------------------------------------------------------
(* Properties *)

(* A plugin resumes, and a backend is given its state back, only on a call by   *)
(* the same principal, for the same tool, with the arguments it asked about -   *)
(* as long as the same plugins had their say in both rounds: "an approval for   *)
(* promote build v1 must not authorize promoting v2" (requeststate.go:252-254). *)
ApprovalsBindTheCall ==
    \A c \in Clients :
        /\ At(c, "hook") /\ call[c].retry.plugin # None =>
             LET asked == call[c].retry.plugin
             IN  asked.principal = c /\ asked.tool = call[c].tool /\ asked.args = call[c].args
        /\ At(c, "dispatch") /\ call[c].retry.backend # None =>
             LET asked == call[c].retry.backend
             IN  /\ asked.principal = c /\ asked.tool = call[c].tool
                 /\ asked.under = call[c].under => asked.args = call[c].sent

(* Answers reach only the party that asked: on a retry a plugin is not answered *)
(* with what the backend asked for, nor the backend with what a plugin did, so  *)
(* a backend that asks acts only with its own state in hand (dispatch.go:517).  *)
AnswersReachWhoAsked ==
    \A c \in Clients :
        call[c].retry.source # None =>
            /\ At(c, "hook") /\ ResponsesFor(c, "plugin") # None =>
                 call[c].answers = "plugin" /\ call[c].retry.plugin # None
            /\ At(c, "dispatch") /\ ResponsesFor(c, "backend") # None =>
                 call[c].answers = "backend" /\ call[c].retry.backend # None

Ended(c) == outcome[c] \in {"refused", "failed", "result"}

(* With one party that asks and nobody who changes the arguments it asks about, *)
(* a client that keeps answering gets an end, whatever envelopes expired, were  *)
(* mixed up or were signed before a restart.                                    *)
OneAskerIsAnswered ==
    \/ "ask" \in config /\ config # {"ask"}
    \/ \A c \in Clients : outcome[c] = "asked" ~> Ended(c)
=============================================================================
