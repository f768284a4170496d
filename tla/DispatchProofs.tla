--------------------------- MODULE DispatchProofs ---------------------------
(***************************************************************************)
(* What an envelope lets a gateway do, for any clients, tools, arguments   *)
(* and number of mishaps. One inductive invariant follows the request      *)
(* state around: Sound says what is true of every envelope ever signed,    *)
(* and Handled what a request may therefore have read out of one.          *)
(***************************************************************************)
EXTENDS Dispatch, TLAPS

Pcs == {"idle", "admit", "hook", "dispatch", "result"}

Unders == SUBSET {"mask", "confirm"}

Retries ==
    [source : {None, "plugin", "backend"}, plugin : Memories \cup {None},
     backend : Memories \cup {None}]

Requests ==
    [pc : Pcs, tool : Tools \cup {None}, args : Args \cup {None},
     token : Envelopes \cup {None}, answers : {None, "plugin", "backend"},
     retry : Retries, sent : Args \cup {None}, under : Unders]

Binds(t, asked) ==
    asked \in Memories /\ asked.principal = t.principal /\ asked.tool = t.tool /\ asked.args = t.args

(* An envelope carries the memory of the one who asked, about the call it is   *)
(* bound to; what a backend remembers was masked if a plugin masked it.        *)
Sound(t) ==
    /\ t \in Envelopes
    /\ t.source = "plugin" => Binds(t, t.plugin) /\ t.backend = None
    /\ t.source = "backend" => /\ Binds(t, t.backend) /\ t.plugin = None
                               /\ "mask" \in t.backend.under => t.backend.args = Masked

Carried(t) == [source |-> t.source, plugin |-> t.plugin, backend |-> t.backend]

(* The request r of client c, wherever the handler stands. *)
Handled(c, r) ==
    /\ r \in Requests
    /\ r.pc # "idle" => r.tool \in Tools /\ r.args \in Args
    /\ r.pc # "idle" /\ r.token # None => Sound(r.token) /\ r.answers = r.token.source
    /\ IF r.pc \in {"idle", "admit"} \/ r.token = None
         THEN r.retry = NoRetry
         ELSE /\ r.retry = Carried(r.token)
              /\ r.token.principal = c /\ r.token.tool = r.tool /\ r.token.args = r.args
    /\ r.pc = "dispatch" => /\ r.sent \in Args
                            /\ r.sent = IF "mask" \in r.under THEN Masked ELSE r.args

(* A client that was asked has an envelope, and the call it is about. *)
Remembers(c) ==
    call[c].pc = "idle" /\ outcome[c] = "asked" =>
        token[c] # None /\ call[c].tool \in Tools /\ call[c].args \in Args

Outcomes == {"none", "asked", "stale", "refused", "failed", "result"}

Gateway ==
    /\ config \in SUBSET {"mask", "confirm", "ask"}
    /\ upsets \in 0..MaxUpsets /\ key \in 0..upsets

Inv ==
    /\ Gateway
    /\ token \in [Clients -> Envelopes \cup {None}]
    /\ call \in [Clients -> Requests]
    /\ outcome \in [Clients -> Outcomes]
    /\ \A c \in Clients : token[c] # None => Sound(token[c])
    /\ \A c \in Clients : Handled(c, call[c])
    /\ \A c \in Clients : Remembers(c)

-----------------------------------------------------------------------------
(* What the invariant says *)

LEMMA InvIsTypeOK == Inv => TypeOK
<1> SUFFICES ASSUME Inv PROVE TypeOK
  OBVIOUS
<1>1. key \in 0..MaxUpsets /\ upsets \in 0..MaxUpsets
  BY MaxUpsetsAssumption DEF Inv, Gateway
<1>2. ASSUME NEW c \in Clients
      PROVE  /\ call[c].pc \in Pcs
             /\ call[c].retry.source \in {None, "plugin", "backend"}
  BY DEF Inv, Requests, Retries
<1>3. ASSUME NEW c \in Clients
      PROVE  /\ call[c].retry.plugin # None => call[c].retry.source = "plugin"
             /\ call[c].retry.backend # None => call[c].retry.source = "backend"
  <2>1. CASE call[c].retry = NoRetry
    BY <2>1 DEF NoRetry
  <2>2. CASE call[c].retry # NoRetry
    <3>1. Sound(call[c].token) /\ call[c].retry = Carried(call[c].token)
      BY <2>2 DEF Inv, Handled
    <3> QED
      BY <3>1 DEF Sound, Carried, Envelopes
  <2> QED
    BY <2>1, <2>2
<1> QED
  BY <1>1, <1>2, <1>3 DEF Inv, Gateway, TypeOK, Outcomes, Pcs

LEMMA InvBindsApprovals == Inv => ApprovalsBindTheCall
<1> SUFFICES ASSUME Inv, NEW c \in Clients
             PROVE  ApprovalsBindTheCall!(c)
  BY DEF ApprovalsBindTheCall
<1> DEFINE r == call[c]
<1>1. Handled(c, r)
  BY DEF Inv
<1>2. ASSUME r.pc \in {"hook", "dispatch"}, r.retry # NoRetry
      PROVE  /\ Sound(r.token) /\ r.retry = Carried(r.token)
             /\ r.token.principal = c /\ r.token.tool = r.tool /\ r.token.args = r.args
  BY <1>1, <1>2 DEF Handled
<1>3. ASSUME At(c, "hook"), r.retry.plugin # None
      PROVE  r.retry.plugin.principal = c /\ r.retry.plugin.tool = r.tool /\ r.retry.plugin.args = r.args
  <2>1. r.retry # NoRetry
    BY <1>3 DEF NoRetry
  <2> QED
    BY <1>2, <1>3, <2>1 DEF At, Sound, Carried, Binds, Envelopes
<1>4. ASSUME At(c, "dispatch"), r.retry.backend # None
      PROVE  /\ r.retry.backend.principal = c /\ r.retry.backend.tool = r.tool
             /\ r.retry.backend.under = r.under => r.retry.backend.args = r.sent
  <2>1. r.retry # NoRetry
    BY <1>4 DEF NoRetry
  <2>2. /\ r.retry.backend = r.token.backend /\ Binds(r.token, r.token.backend)
        /\ "mask" \in r.token.backend.under => r.token.backend.args = Masked
        /\ r.token.principal = c /\ r.token.tool = r.tool /\ r.token.args = r.args
    BY <1>2, <1>4, <2>1 DEF At, Sound, Carried, Envelopes
  <2>3. r.sent = IF "mask" \in r.under THEN Masked ELSE r.args
    BY <1>1, <1>4 DEF Handled, At
  <2> QED
    BY <2>2, <2>3 DEF Binds
<1> QED
  BY <1>3, <1>4

LEMMA InvReachesWhoAsked == Inv => AnswersReachWhoAsked
<1> SUFFICES ASSUME Inv, NEW c \in Clients, call[c].retry.source # None
             PROVE  /\ At(c, "hook") /\ ResponsesFor(c, "plugin") # None =>
                         call[c].answers = "plugin" /\ call[c].retry.plugin # None
                    /\ At(c, "dispatch") /\ ResponsesFor(c, "backend") # None =>
                         call[c].answers = "backend" /\ call[c].retry.backend # None
  BY DEF AnswersReachWhoAsked
<1> DEFINE t == call[c].token
<1>1. call[c].retry = Carried(t) /\ Sound(t) /\ call[c].answers = t.source
  BY DEF Inv, Handled, NoRetry
<1>2. t.source = "plugin" => t.plugin # None
  BY <1>1, NoneAssumption DEF Sound, Binds
<1>3. t.source = "backend" => t.backend # None
  BY <1>1, NoneAssumption DEF Sound, Binds
<1> QED
  BY <1>1, <1>2, <1>3, NoneAssumption DEF ResponsesFor, Carried

-----------------------------------------------------------------------------
(* Initially, and clients *)

LEMMA NoCallHandled == NoCall \in Requests /\ NoCall.pc = "idle" /\ \A c \in Clients : Handled(c, NoCall)
<1>1. NoRetry \in Retries
  BY DEF NoRetry, Retries
<1> QED
  BY <1>1 DEF NoCall, Requests, Pcs, Unders, Handled

LEMMA InitInv == Init => Inv
<1> SUFFICES ASSUME Init PROVE Inv
  OBVIOUS
<1>1. Gateway
  BY MaxUpsetsAssumption DEF Init, Gateway
<1>2. call \in [Clients -> Requests] /\ \A c \in Clients : Handled(c, call[c]) /\ outcome[c] = "none"
  BY NoCallHandled DEF Init
<1> QED
  BY <1>1, <1>2 DEF Init, Inv, Outcomes, Remembers

(* A step of one client's request. *)
LEMMA OneRequest ==
    ASSUME Inv, NEW c \in Clients, NEW r, NEW how \in Outcomes, NEW t,
           call' = [call EXCEPT ![c] = r], outcome' = [outcome EXCEPT ![c] = how],
           token' = [token EXCEPT ![c] = t],
           Handled(c, r), t = None \/ Sound(t), Gateway',
           r.pc = "idle" /\ how = "asked" => t # None /\ r.tool \in Tools /\ r.args \in Args
    PROVE  Inv'
<1>1. r \in Requests /\ t \in Envelopes \cup {None}
  BY DEF Handled, Sound
<1>2. /\ call' \in [Clients -> Requests] /\ outcome' \in [Clients -> Outcomes]
      /\ token' \in [Clients -> Envelopes \cup {None}]
  BY <1>1 DEF Inv
<1>3. \A d \in Clients : /\ token'[d] # None => Sound(token'[d])
                         /\ Handled(d, call'[d])
                         /\ Remembers(d)'
  BY DEF Inv, Remembers
<1> QED
  BY <1>2, <1>3 DEF Inv

LEMMA Untouched ==
    ASSUME Inv, NEW c \in Clients
    PROVE  /\ outcome = [outcome EXCEPT ![c] = outcome[c]] /\ outcome[c] \in Outcomes
           /\ token = [token EXCEPT ![c] = token[c]] /\ (token[c] = None \/ Sound(token[c]))
BY DEF Inv

LEMMA SendsInv ==
    ASSUME Inv, NEW c \in Clients, NEW tool \in Tools, NEW args \in Args, NEW t,
           NEW answers \in {None, "plugin", "backend"}, Sends(c, tool, args, t, answers),
           t = None \/ (Sound(t) /\ answers = t.source),
           NEW how \in Outcomes, outcome' = [outcome EXCEPT ![c] = how], UNCHANGED token, Gateway'
    PROVE  Inv'
<1> DEFINE r == [pc |-> "admit", tool |-> tool, args |-> args, token |-> t, answers |-> answers,
                 retry |-> NoRetry, sent |-> None, under |-> {}]
<1>2. t \in Envelopes \cup {None} /\ NoRetry \in Retries
  BY DEF Sound, NoRetry, Retries
<1>3. call' = [call EXCEPT ![c] = r]
  BY DEF Sends
<1>4. r \in Requests
  BY <1>2 DEF Requests, Pcs, Unders
<1>5. Handled(c, r) /\ r.pc = "admit"
  BY <1>4 DEF Handled
<1>6. token' = [token EXCEPT ![c] = token[c]] /\ (token[c] = None \/ Sound(token[c]))
  BY Untouched
<1> HIDE DEF r
<1> QED
  BY <1>3, <1>5, <1>6, OneRequest

LEMMA ClientInv ==
    ASSUME Inv, NEW c \in Clients, Begin(c) \/ Retry(c) \/ MixUp(c)
    PROVE  Inv'
<1>1. CASE Begin(c)
  <2>1. PICK tool \in Tools, args \in Args, answers \in {None, "backend"} :
           Sends(c, tool, args, None, answers)
    BY <1>1 DEF Begin
  <2>2. Gateway' /\ UNCHANGED token /\ outcome' = [outcome EXCEPT ![c] = "none"]
    BY <1>1 DEF Begin, Inv, Gateway
  <2> QED
    BY <2>1, <2>2, SendsInv DEF Outcomes
<1>2. CASE Retry(c)
  <2>1. token[c] # None /\ call[c].tool \in Tools /\ call[c].args \in Args
    BY <1>2 DEF Retry, At, Inv, Remembers
  <2>2. Sound(token[c]) /\ token[c].source \in {"plugin", "backend"}
    BY <2>1 DEF Inv, Sound, Envelopes
  <2>3. /\ Gateway' /\ UNCHANGED token
        /\ outcome' = [outcome EXCEPT ![c] = outcome[c]] /\ outcome[c] \in Outcomes
    BY <1>2, Untouched DEF Retry, Inv, Gateway
  <2>4. Sends(c, call[c].tool, call[c].args, token[c], token[c].source)
    BY <1>2 DEF Retry
  <2> QED
    BY <2>1, <2>2, <2>3, <2>4, SendsInv
<1>3. CASE MixUp(c)
  <2>1. PICK d \in Clients, tool \in Tools, args \in Args :
           token[d] # None /\ Sends(c, tool, args, token[d], token[d].source)
    BY <1>3 DEF MixUp
  <2>2. PICK t : Sound(t) /\ Sends(c, tool, args, t, t.source)
    <3>1. Sound(token[d])
      BY <2>1 DEF Inv
    <3> DEFINE t == token[d]
    <3>2. Sends(c, tool, args, t, t.source)
      BY <2>1
    <3> HIDE DEF t
    <3> QED
      BY <3>1, <3>2 DEF t
  <2>3. /\ Gateway' /\ UNCHANGED token /\ t.source \in {"plugin", "backend"}
        /\ outcome' = [outcome EXCEPT ![c] = outcome[c]] /\ outcome[c] \in Outcomes
    <3>1. Gateway' /\ UNCHANGED <<token, outcome>>
      BY <1>3, MaxUpsetsAssumption DEF MixUp, Upset, Inv, Gateway
    <3>2. t.source \in {"plugin", "backend"}
      BY <2>2 DEF Sound, Envelopes
    <3> QED
      BY <3>1, <3>2, Untouched
  <2> DEFINE source == t.source
             how == outcome[c]
  <2>4. /\ source \in {None, "plugin", "backend"} /\ Sends(c, tool, args, t, source)
        /\ t = None \/ (Sound(t) /\ source = t.source)
    BY <2>2, <2>3
  <2>5. how \in Outcomes /\ outcome' = [outcome EXCEPT ![c] = how] /\ UNCHANGED token /\ Gateway'
    BY <2>3
  <2> HIDE DEF source, how
  <2> QED
    BY <2>4, <2>5, SendsInv
<1> QED
  BY <1>1, <1>2, <1>3

-----------------------------------------------------------------------------
(* The handler *)

LEMMA EndsInv ==
    ASSUME Inv, NEW c \in Clients, NEW how \in Outcomes, Ends(c, how), call[c].pc # "idle",
           NEW t, token' = [token EXCEPT ![c] = t], t = None \/ Sound(t),
           how = "asked" => t # None, Gateway'
    PROVE  Inv'
<1>1. outcome' = [outcome EXCEPT ![c] = how]
  BY DEF Ends
<1>2. call[c].tool \in Tools /\ call[c].args \in Args
  BY DEF Inv, Handled
<1>3. CASE how = "asked"
  <2> DEFINE r == [NoCall EXCEPT !.tool = call[c].tool, !.args = call[c].args]
  <2>1. call' = [call EXCEPT ![c] = r]
    BY <1>3 DEF Ends
  <2>2. NoRetry \in Retries
    BY DEF NoRetry, Retries
  <2>3. r \in Requests
    BY <1>2, <2>2 DEF NoCall, Requests, Pcs, Unders
  <2>4. r.pc = "idle" /\ r.tool \in Tools /\ r.args \in Args /\ r.retry = NoRetry
    BY <1>2 DEF NoCall
  <2> HIDE DEF r
  <2>5. Handled(c, r) /\ r.tool \in Tools /\ r.args \in Args
    BY <2>3, <2>4 DEF Handled
  <2> QED
    BY <1>1, <1>3, <2>1, <2>5, OneRequest
<1>4. CASE how # "asked"
  <2>1. call' = [call EXCEPT ![c] = NoCall]
    BY <1>4 DEF Ends
  <2> QED
    BY <1>1, <1>4, <2>1, NoCallHandled, OneRequest
<1> QED
  BY <1>3, <1>4

(* The ways a call ends without anybody being asked. *)
LEMMA EndingInv ==
    ASSUME Inv, NEW c \in Clients,
           \/ Refuse(c) \/ RejectState(c) \/ HookDenies(c) \/ HookErrs(c)
           \/ BackendFails(c) \/ ResultHook(c)
    PROVE  Inv'
<1>1. PICK how \in {"stale", "refused", "failed", "result"} : Ends(c, how)
  BY DEF Refuse, RejectState, HookDenies, HookErrs, BackendFails, ResultHook, ResultDecisions
<1>2. call[c].pc # "idle" /\ UNCHANGED <<config, key, token, upsets>>
  BY DEF Refuse, RejectState, HookDenies, HookErrs, BackendFails, ResultHook, At
<1>3. Gateway' /\ token' = [token EXCEPT ![c] = token[c]] /\ (token[c] = None \/ Sound(token[c]))
  BY <1>2, Untouched DEF Inv, Gateway
<1> QED
  BY <1>1, <1>2, <1>3, EndsInv DEF Outcomes

(* Whoever asks about the arguments the envelope is bound to signs a sound one. *)
LEMMA IssueSound ==
    ASSUME Inv, NEW c \in Clients, NEW source \in {"plugin", "backend"}, NEW args \in Args,
           NEW plugins \in Unders, call[c].pc # "idle",
           Issue(c, source, args, Memory(c, args, plugins)),
           source = "backend" /\ "mask" \in plugins => args = Masked
    PROVE  \E t : t # None /\ Sound(t) /\ token' = [token EXCEPT ![c] = t]
<1> DEFINE memory == Memory(c, args, plugins)
           t == [key |-> key, expired |-> FALSE, source |-> source, principal |-> c,
                 tool |-> call[c].tool, args |-> args,
                 plugin |-> IF source = "plugin" THEN memory ELSE None,
                 backend |-> IF source = "backend" THEN memory ELSE None]
<1>1. token' = [token EXCEPT ![c] = t]
  BY DEF Issue
<1>2. call[c].tool \in Tools /\ key \in 0..MaxUpsets
  BY MaxUpsetsAssumption DEF Inv, Handled, Gateway
<1>3. /\ memory \in Memories /\ memory.principal = c /\ memory.tool = call[c].tool
      /\ memory.args = args /\ memory.under = plugins
  BY <1>2 DEF Memory, Memories, Unders
<1> HIDE DEF memory
<1>4. Sound(t)
  BY <1>2, <1>3 DEF Sound, Envelopes, Binds
<1>5. t # None
  BY <1>4, NoneAssumption DEF Sound
<1> QED
  BY <1>1, <1>4, <1>5

LEMMA DefersInv ==
    ASSUME Inv, NEW c \in Clients, HookDefers(c)
    PROVE  Inv'
<1>1. PICK plugins \in Unders :
         Running(c, plugins) /\ Issue(c, "plugin", call[c].args, Memory(c, call[c].args, plugins))
  BY DEF HookDefers, Unders
<1>2. call[c].pc # "idle" /\ call[c].args \in Args /\ Ends(c, "asked")
  BY DEF HookDefers, At, Inv, Handled
<1>3. PICK t : t # None /\ Sound(t) /\ token' = [token EXCEPT ![c] = t]
  BY <1>1, <1>2, IssueSound
<1>4. Gateway'
  <2>1. UNCHANGED <<config, key>>
    BY DEF HookDefers
  <2> QED
    BY <1>1, <2>1, MaxUpsetsAssumption DEF Running, Upset, Inv, Gateway
<1> QED
  BY <1>2, <1>3, <1>4, EndsInv DEF Outcomes

LEMMA AsksInv ==
    ASSUME Inv, NEW c \in Clients, BackendAsks(c)
    PROVE  Inv'
<1>1. /\ call[c].pc = "dispatch" /\ call[c].sent \in Args /\ call[c].under \in Unders
      /\ "mask" \in call[c].under => call[c].sent = Masked
  BY DEF BackendAsks, At, Inv, Handled, Requests
<1>2. /\ Issue(c, "backend", call[c].sent, Memory(c, call[c].sent, call[c].under))
      /\ Ends(c, "asked")
  BY DEF BackendAsks
<1>3. PICK t : t # None /\ Sound(t) /\ token' = [token EXCEPT ![c] = t]
  BY <1>1, <1>2, IssueSound
<1>4. Gateway'
  BY DEF BackendAsks, Inv, Gateway
<1> QED
  BY <1>1, <1>2, <1>3, <1>4, EndsInv DEF Outcomes

LEMMA AdmitInv ==
    ASSUME Inv, NEW c \in Clients, Admit(c)
    PROVE  Inv'
<1> DEFINE t == call[c].token
           read == IF t = None THEN NoRetry ELSE Carried(t)
           r == [call[c] EXCEPT !.pc = "hook", !.retry = read]
<1>1. call[c] \in Requests /\ Handled(c, call[c]) /\ call[c].pc = "admit"
  BY DEF Inv, Admit, At
<1>2. call' = [call EXCEPT ![c] = r]
  BY DEF Admit, Carried, Inv
<1>3. t # None => /\ Sound(t) /\ call[c].answers = t.source
                  /\ t.principal = c /\ t.tool = call[c].tool /\ t.args = call[c].args
  BY <1>1 DEF Admit, Handled, Redeemable
<1>4. read \in Retries
  <2>1. CASE t = None
    BY <2>1 DEF NoRetry, Retries
  <2>2. CASE t # None
    BY <1>3, <2>2 DEF Carried, Sound, Envelopes, Retries
  <2> QED
    BY <2>1, <2>2
<1>5. /\ r \in Requests /\ r.pc = "hook" /\ r.retry = read /\ r.token = t /\ r.answers = call[c].answers
      /\ r.tool = call[c].tool /\ r.args = call[c].args
  BY <1>1, <1>4 DEF Requests, Pcs
<1>6. Handled(c, r)
  BY <1>1, <1>3, <1>5 DEF Handled
<1>7. /\ Gateway' /\ outcome' = [outcome EXCEPT ![c] = outcome[c]] /\ outcome[c] \in Outcomes
      /\ token' = [token EXCEPT ![c] = token[c]] /\ (token[c] = None \/ Sound(token[c]))
  BY Untouched DEF Admit, Inv, Gateway
<1> HIDE DEF r
<1> QED
  BY <1>2, <1>5, <1>6, <1>7, OneRequest

LEMMA PassesInv ==
    ASSUME Inv, NEW c \in Clients, HookPasses(c) \/ BackendActs(c)
    PROVE  Inv'
<1>1. call[c] \in Requests /\ Handled(c, call[c]) /\ call[c].pc \in {"hook", "dispatch"}
  BY DEF Inv, HookPasses, BackendActs, At
<1>2. /\ outcome' = [outcome EXCEPT ![c] = outcome[c]] /\ outcome[c] \in Outcomes
      /\ token' = [token EXCEPT ![c] = token[c]] /\ (token[c] = None \/ Sound(token[c]))
  <2>1. UNCHANGED <<token, outcome>>
    BY DEF HookPasses, BackendActs
  <2> QED
    BY <2>1, Untouched
<1>3. CASE HookPasses(c)
  <2>1. PICK plugins \in Unders :
           /\ Running(c, plugins)
           /\ call' = [call EXCEPT ![c].pc = "dispatch", ![c].under = plugins,
                                   ![c].sent = IF "mask" \in plugins THEN Masked ELSE call[c].args]
    BY <1>3 DEF HookPasses, Unders
  <2> DEFINE sent == IF "mask" \in plugins THEN Masked ELSE call[c].args
             r == [call[c] EXCEPT !.pc = "dispatch", !.under = plugins, !.sent = sent]
  <2>2. call' = [call EXCEPT ![c] = r]
    BY <2>1 DEF Inv
  <2>3. sent \in Args /\ call[c].args \in Args
    BY <1>1 DEF Handled, Args
  <2>4. /\ r \in Requests /\ r.pc = "dispatch" /\ r.retry = call[c].retry /\ r.token = call[c].token
        /\ r.answers = call[c].answers /\ r.tool = call[c].tool /\ r.args = call[c].args
        /\ r.under = plugins /\ r.sent = sent
    BY <1>1, <2>3 DEF Requests, Pcs
  <2>5. Handled(c, r)
    BY <1>1, <1>3, <2>3, <2>4 DEF Handled, HookPasses, At
  <2>6. Gateway'
    <3>1. UNCHANGED <<config, key>>
      BY <1>3 DEF HookPasses
    <3> QED
      BY <2>1, <3>1, MaxUpsetsAssumption DEF Running, Upset, Inv, Gateway
  <2> HIDE DEF r
  <2> QED
    BY <1>2, <2>2, <2>4, <2>5, <2>6, OneRequest
<1>4. CASE BackendActs(c)
  <2> DEFINE r == [call[c] EXCEPT !.pc = "result"]
  <2>1. call' = [call EXCEPT ![c] = r] /\ Gateway'
    BY <1>4 DEF BackendActs, Inv, Gateway
  <2>2. /\ r \in Requests /\ r.pc = "result" /\ r.retry = call[c].retry /\ r.token = call[c].token
        /\ r.answers = call[c].answers /\ r.tool = call[c].tool /\ r.args = call[c].args
    BY <1>1 DEF Requests, Pcs
  <2>3. Handled(c, r)
    BY <1>1, <1>4, <2>2 DEF Handled, BackendActs, At
  <2> HIDE DEF r
  <2> QED
    BY <1>2, <2>1, <2>2, <2>3, OneRequest
<1> QED
  BY <1>3, <1>4

-----------------------------------------------------------------------------
(* Around them *)

LEMMA ExpireInv ==
    ASSUME Inv, NEW c \in Clients, Expire(c)
    PROVE  Inv'
<1> DEFINE t == [token[c] EXCEPT !.expired = TRUE]
<1>1. Sound(token[c]) /\ token' = [token EXCEPT ![c] = t]
  BY DEF Expire, Inv
<1>2. Sound(t) /\ t # None
  <2>1. Sound(t)
    BY <1>1 DEF Sound, Binds, Envelopes
  <2> QED
    BY <2>1, NoneAssumption DEF Sound
<1>3. Gateway' /\ UNCHANGED <<call, outcome>>
  BY MaxUpsetsAssumption DEF Expire, Upset, Inv, Gateway
<1>4. token' \in [Clients -> Envelopes \cup {None}]
  BY <1>1, <1>2 DEF Sound, Inv
<1>5. \A d \in Clients : /\ token'[d] # None => Sound(token'[d])
                         /\ token[d] # None => token'[d] # None
  BY <1>1, <1>2 DEF Inv
<1> QED
  BY <1>3, <1>4, <1>5 DEF Inv, Remembers

LEMMA RestartInv == Inv /\ Restart => Inv'
<1> SUFFICES ASSUME Inv, Restart PROVE Inv'
  OBVIOUS
<1>1. Gateway' /\ UNCHANGED token
  BY MaxUpsetsAssumption DEF Restart, Upset, Inv, Gateway
<1>2. \A c \in Clients : /\ Handled(c, call'[c]) /\ call'[c] \in Requests
                         /\ outcome'[c] \in Outcomes
                         /\ \/ call'[c] = call[c] /\ outcome'[c] = outcome[c]
                            \/ outcome'[c] = "failed"
  BY NoCallHandled DEF Restart, At, Inv, Outcomes
<1>3. call' \in [Clients -> Requests] /\ outcome' \in [Clients -> Outcomes]
  BY <1>2 DEF Restart
<1> QED
  BY <1>1, <1>2, <1>3 DEF Inv, Remembers

LEMMA NextInv == Inv /\ [Next]_vars => Inv'
<1> SUFFICES ASSUME Inv, [Next]_vars PROVE Inv'
  OBVIOUS
<1>1. CASE UNCHANGED vars
  BY <1>1 DEF vars, Inv, Gateway, Remembers
<1>2. ASSUME NEW c \in Clients, Handle(c) PROVE Inv'
  BY <1>2, EndingInv, DefersInv, AsksInv, AdmitInv, PassesInv DEF Handle
<1> QED
  BY <1>1, <1>2, ClientInv, ExpireInv, RestartInv DEF Next

LEMMA AlwaysInv == Spec => []Inv
BY InitInv, NextInv, PTL DEF Spec

-----------------------------------------------------------------------------
(* Theorems *)

(* Requests, envelopes and outcomes keep their types, and what a plugin or a    *)
(* backend is handed comes from its own question (requeststate.go).             *)
THEOREM TypeCorrect == Spec => []TypeOK
BY AlwaysInv, InvIsTypeOK, PTL

(* However envelopes are kept, mixed up, expired or outlived by their key, and  *)
(* whichever plugins were skipped, an approval is only redeemed for the call it *)
(* was asked about (requeststate.go:252-254).                                   *)
THEOREM ApprovalsStayBound == Spec => []ApprovalsBindTheCall
BY AlwaysInv, InvBindsApprovals, PTL

(* A retry's answers go to the party whose state it carries, and to no other    *)
(* (dispatch.go:517).                                                           *)
THEOREM AnswersStayWithTheAsker == Spec => []AnswersReachWhoAsked
BY AlwaysInv, InvReachesWhoAsked, PTL

-----------------------------------------------------------------------------
(* Honest retries *)

(* A plugin changed the arguments the backend asked about. *)
Altered(t) == t.source = "backend" /\ "mask" \in t.backend.under

(* A client that was asked holds an envelope for the very call it made, but for *)
(* what was altered on the way to the backend.                                  *)
Fresh(c) ==
    At(c, "idle") /\ outcome[c] = "asked" =>
        /\ token[c] # None /\ token[c].principal = c /\ token[c].tool = call[c].tool
        /\ token[c].args = IF Altered(token[c]) THEN Masked ELSE call[c].args

LEMMA AskedFresh ==
    ASSUME Inv, NEW c \in Clients, NEW source \in {"plugin", "backend"}, NEW args \in Args,
           NEW plugins \in Unders, call[c].pc # "idle",
           Issue(c, source, args, Memory(c, args, plugins)), Ends(c, "asked"), token'[c] # None,
           args = IF source = "backend" /\ "mask" \in plugins THEN Masked ELSE call[c].args
    PROVE  Fresh(c)'
<1>1. /\ token'[c].principal = c /\ token'[c].tool = call[c].tool /\ token'[c].args = args
      /\ token'[c].source = source
      /\ source = "backend" => token'[c].backend = Memory(c, args, plugins)
  BY DEF Issue, Inv
<1>2. Altered(token'[c]) <=> source = "backend" /\ "mask" \in plugins
  BY <1>1 DEF Altered, Memory
<1>3. call'[c].tool = call[c].tool /\ call'[c].args = call[c].args
  BY DEF Ends, Inv, NoCall
<1> QED
  BY <1>1, <1>2, <1>3 DEF Fresh, Altered

(* The handler moves the request of its client and nobody else's. *)
LEMMA HandlesItsOwn ==
    ASSUME Inv, NEW c \in Clients, Handle(c)
    PROVE  /\ call[c].pc # "idle"
           /\ \A d \in Clients \ {c} :
                call'[d] = call[d] /\ outcome'[d] = outcome[d] /\ token'[d] = token[d]
<1> USE DEF At
<1>1. ASSUME NEW how, Ends(c, how)
      PROVE  \A d \in Clients \ {c} : call'[d] = call[d] /\ outcome'[d] = outcome[d]
  BY <1>1 DEF Ends, Inv
<1>2. ASSUME NEW source, NEW args, NEW memory, Issue(c, source, args, memory)
      PROVE  \A d \in Clients \ {c} : token'[d] = token[d]
  BY <1>2 DEF Issue, Inv
<1>3. CASE Refuse(c) \/ RejectState(c) \/ HookDenies(c) \/ HookErrs(c) \/ BackendFails(c)
  BY <1>1, <1>3 DEF Refuse, RejectState, HookDenies, HookErrs, BackendFails
<1>4. CASE ResultHook(c)
  BY <1>1, <1>4 DEF ResultHook
<1>5. CASE HookDefers(c)
  BY <1>1, <1>2, <1>5 DEF HookDefers
<1>6. CASE BackendAsks(c)
  BY <1>1, <1>2, <1>6 DEF BackendAsks
<1>7. CASE Admit(c)
  BY <1>7 DEF Admit, Inv
<1>8. CASE HookPasses(c)
  BY <1>8 DEF HookPasses, Inv
<1>9. CASE BackendActs(c)
  BY <1>9 DEF BackendActs, Inv
<1> QED
  BY <1>3, <1>4, <1>5, <1>6, <1>7, <1>8, <1>9 DEF Handle

LEMMA HandleFresh ==
    ASSUME Inv, Inv', NEW c \in Clients, Handle(c)
    PROVE  Fresh(c)'
<1>1. call[c].pc # "idle" /\ call[c] \in Requests /\ Handled(c, call[c])
  BY HandlesItsOwn DEF Inv
<1>2. CASE \/ Refuse(c) \/ RejectState(c) \/ HookDenies(c) \/ HookErrs(c)
           \/ BackendFails(c) \/ ResultHook(c)
  <2>1. PICK how \in {"stale", "refused", "failed", "result"} : Ends(c, how)
    BY <1>2 DEF Refuse, RejectState, HookDenies, HookErrs, BackendFails, ResultHook, ResultDecisions
  <2>2. outcome'[c] # "asked"
    BY <2>1 DEF Ends, Inv
  <2> QED
    BY <2>2 DEF Fresh
<1>3. CASE Admit(c) \/ HookPasses(c) \/ BackendActs(c)
  <2>1. call'[c].pc # "idle"
    <3>1. CASE Admit(c)
      BY <1>1, <3>1 DEF Admit, Inv, Requests
    <3>2. CASE HookPasses(c)
      BY <1>1, <3>2 DEF HookPasses, Inv, Requests
    <3>3. CASE BackendActs(c)
      BY <1>1, <3>3 DEF BackendActs, Inv, Requests
    <3> QED
      BY <1>3, <3>1, <3>2, <3>3
  <2> QED
    BY <2>1 DEF Fresh, At
<1>4. CASE HookDefers(c)
  <2>1. PICK plugins \in Unders : Issue(c, "plugin", call[c].args, Memory(c, call[c].args, plugins))
    BY <1>4 DEF HookDefers, Unders
  <2>2. Ends(c, "asked") /\ call[c].args \in Args
    BY <1>1, <1>4 DEF HookDefers, Handled
  <2>3. token'[c] # None
    BY <1>1, <2>1, <2>2, IssueSound DEF Inv
  <2> QED
    BY <1>1, <2>1, <2>2, <2>3, AskedFresh
<1>5. CASE BackendAsks(c)
  <2>1. /\ Issue(c, "backend", call[c].sent, Memory(c, call[c].sent, call[c].under))
        /\ Ends(c, "asked")
    BY <1>5 DEF BackendAsks
  <2>2. /\ call[c].sent \in Args /\ call[c].under \in Unders
        /\ call[c].sent = IF "mask" \in call[c].under THEN Masked ELSE call[c].args
    BY <1>1, <1>5 DEF BackendAsks, At, Handled, Requests
  <2>3. token'[c] # None
    BY <1>1, <2>1, <2>2, IssueSound DEF Inv
  <2> QED
    BY <1>1, <2>1, <2>2, <2>3, AskedFresh
<1> QED
  BY <1>2, <1>3, <1>4, <1>5 DEF Handle

LEMMA NextFresh ==
    ASSUME Inv, Inv', [Next]_vars, NEW c \in Clients, Fresh(c)
    PROVE  Fresh(c)'
<1>1. CASE UNCHANGED <<call[c], outcome[c], token[c]>>
  BY <1>1 DEF Fresh, At
<1>2. CASE UNCHANGED vars
  BY <1>1, <1>2 DEF vars
<1>3. ASSUME NEW d \in Clients, Begin(d) \/ Retry(d) \/ MixUp(d) PROVE Fresh(c)'
  <2>1. CASE d # c
    BY <1>1, <1>3, <2>1 DEF Begin, Retry, MixUp, Sends, Inv
  <2>2. CASE d = c
    <3>1. call'[c].pc = "admit"
      BY <1>3, <2>2 DEF Begin, Retry, MixUp, Sends, Inv
    <3> QED
      BY <3>1 DEF Fresh, At
  <2> QED
    BY <2>1, <2>2
<1>4. ASSUME NEW d \in Clients, Handle(d) PROVE Fresh(c)'
  <2>1. CASE d # c
    BY <1>1, <1>4, <2>1, HandlesItsOwn
  <2> QED
    BY <1>4, <2>1, HandleFresh
<1>5. ASSUME NEW d \in Clients, Expire(d) PROVE Fresh(c)'
  <2>1. /\ UNCHANGED <<call, outcome>> /\ Sound(token[d])
        /\ token' = [token EXCEPT ![d] = [token[d] EXCEPT !.expired = TRUE]]
    BY <1>5 DEF Expire, Inv
  <2>2. CASE d # c
    BY <1>1, <2>1, <2>2 DEF Inv
  <2>3. CASE d = c
    <3>1. token'[c] = [token[c] EXCEPT !.expired = TRUE] /\ token[c] \in Envelopes
      BY <2>1, <2>3 DEF Inv, Sound
    <3>2. token'[c] \in Envelopes /\ token'[c] # None
      BY <3>1, NoneAssumption DEF Envelopes
    <3>3. /\ token'[c].principal = token[c].principal /\ token'[c].tool = token[c].tool
          /\ token'[c].args = token[c].args
          /\ token'[c].source = token[c].source /\ token'[c].backend = token[c].backend
      BY <3>1 DEF Envelopes
    <3> QED
      BY <2>1, <3>2, <3>3 DEF Fresh, At, Altered
  <2> QED
    BY <2>2, <2>3
<1>6. CASE Restart
  <2>1. token' = token /\ \/ call'[c] = call[c] /\ outcome'[c] = outcome[c]
                          \/ outcome'[c] = "failed"
    BY <1>6 DEF Restart
  <2> QED
    BY <1>1, <2>1 DEF Fresh
<1> QED
  BY <1>2, <1>3, <1>4, <1>5, <1>6 DEF Next

LEMMA AlwaysFresh == Spec => [](Inv /\ \A c \in Clients : Fresh(c))
<1>1. Init => \A c \in Clients : Fresh(c)
  BY DEF Init, Fresh
<1>2. Inv /\ Inv' /\ (\A c \in Clients : Fresh(c)) /\ [Next]_vars => (\A c \in Clients : Fresh(c))'
  BY NextFresh
<1> QED
  BY <1>1, <1>2, AlwaysInv, PTL DEF Spec

(* A client that repeats the call it was asked about is taken for a stranger to *)
(* it in one case only: the backend asked about arguments a plugin had altered. *)
(* Otherwise its envelope is refused for its age or its key and nothing else    *)
(* (requeststate.go:291-332).                                                   *)
THEOREM RetriesAreForTheCall ==
    Spec => [][\A c \in Clients :
                 Retry(c) => ((Redeemable(c, token[c]))' <=>
                                /\ Verifies(token[c])
                                /\ Altered(token[c]) => call[c].args = Masked)]_vars
<1>1. ASSUME NEW c \in Clients, Inv, Fresh(c), Retry(c)
      PROVE  (Redeemable(c, token[c]))' <=>
                /\ Verifies(token[c])
                /\ Altered(token[c]) => call[c].args = Masked
  <2>1. UNCHANGED <<key, token>> /\ call'[c].tool = call[c].tool /\ call'[c].args = call[c].args
    BY <1>1 DEF Retry, Sends, Inv
  <2>2. /\ token[c].principal = c /\ token[c].tool = call[c].tool
        /\ token[c].args = IF Altered(token[c]) THEN Masked ELSE call[c].args
    BY <1>1 DEF Retry, Fresh
  <2> QED
    BY <2>1, <2>2 DEF Redeemable, Verifies
<1>2. Inv /\ (\A c \in Clients : Fresh(c)) /\ [Next]_vars =>
        [\A c \in Clients :
            Retry(c) => ((Redeemable(c, token[c]))' <=>
                           /\ Verifies(token[c])
                           /\ Altered(token[c]) => call[c].args = Masked)]_vars
  BY <1>1
<1> QED
  BY <1>2, AlwaysFresh, PTL DEF Spec
=============================================================================
