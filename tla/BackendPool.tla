----------------------------- MODULE BackendPool -----------------------------
(***************************************************************************)
(* Outbound connections of one gateway (internal/dataplane/backends): the  *)
(* pool's entry for one target, its circuit breaker and the session every  *)
(* call shares. Tool calls and health probes run concurrently with the     *)
(* Sync that each snapshot swap makes. A step is one lock section, one     *)
(* exchange with the backend or one change of the backend itself. The pool *)
(* is used without a TokenSource, as cmd/mcpdoll-dp builds it.             *)
(*                                                                         *)
(* A Sync that keeps the endpoint changes nothing here; one that moves it  *)
(* or drops the target retires the entry, and calls may still be using it. *)
(***************************************************************************)
EXTENDS Naturals

CONSTANTS
    Workers,       \* goroutines, each in one CallTool or ListTools at a time
    None,
    Threshold,     \* consecutive failures before a breaker opens
    MaxEntries,    \* bound: entries ever made for the target
    MaxCancels     \* bound: calls whose client gave up

ASSUME ThresholdAssumption == Threshold \in Nat \ {0}
ASSUME MaxEntriesAssumption == MaxEntries \in Nat \ {0}
ASSUME MaxCancelsAssumption == MaxCancels \in Nat

VARIABLES
    entry,      \* Pool.entries[target], 0 = no entry
    made,       \* entries made so far
    breaker,    \* [1..MaxEntries -> breaker], cooled standing for openedAt + cooldown passed
    session,    \* entry.session
    open,       \* sessions connected and not closed
    lost,       \* sessions that will never carry a call again
    worker,     \* [Workers -> [pc, lists, entry, session, outcome, probing]]
    up,         \* the backend answers
    cancels     \* counter for MaxCancels

poolVars == <<entry, made, breaker, session, open, lost, worker, up, cancels>>

Entries == 1..MaxEntries
Sessions == [entry : Entries, by : Workers]
ASSUME NoneAssumption == None \notin Sessions

Breakers ==
    {b \in [state : {"closed", "open", "half_open"}, consecutive : 0..Threshold,
            probeInFlight : BOOLEAN, cooled : BOOLEAN] :
        /\ b.state = "closed" <=> b.consecutive < Threshold
        /\ b.probeInFlight <=> b.state = "half_open"}

TypeOK ==
    /\ entry \in 0..made /\ made \in 0..MaxEntries
    /\ breaker \in [Entries -> Breakers]
    /\ session \in [Entries -> Sessions \cup {None}]
    /\ open \in SUBSET Sessions /\ lost \in SUBSET open
    /\ worker \in [Workers -> [pc : {"idle", "allow", "session", "dial", "store", "call", "report"},
                               lists : BOOLEAN,
                               entry : 0..made, session : Sessions \cup {None},
                               outcome : {"none", "ok", "failed"},
                               probing : BOOLEAN]]
    /\ up \in BOOLEAN
    /\ cancels \in 0..MaxCancels

NewBreaker == [state |-> "closed", consecutive |-> 0, probeInFlight |-> FALSE, cooled |-> FALSE]

Waiting == [pc |-> "idle", lists |-> FALSE, entry |-> 0, session |-> None, outcome |-> "none", probing |-> FALSE]

Init ==
    /\ entry = 1 /\ made = 1
    /\ breaker = [e \in Entries |-> NewBreaker]
    /\ session = [e \in Entries |-> None]
    /\ open = {} /\ lost = {}
    /\ worker = [w \in Workers |-> Waiting]
    /\ up \in BOOLEAN
    /\ cancels = 0

-----------------------------------------------------------------------------
(* breaker *)

Admits_AfterAHealthCheck(b) == b.state = "closed"

Admits(b) ==
    \/ b.state = "closed"
    \/ b.state = "open" /\ b.cooled
    \/ b.state = "half_open" /\ ~b.probeInFlight

Admitting(b) ==
    IF b.state = "closed" THEN b ELSE [b EXCEPT !.state = "half_open", !.probeInFlight = TRUE]

Succeeded(b) == NewBreaker

Opened(b) == [b EXCEPT !.state = "open", !.probeInFlight = FALSE, !.cooled = FALSE]

Failed_AfterThreshold(b) ==
    IF b.state = "half_open" THEN Opened(b)
    ELSE IF b.consecutive + 1 > Threshold THEN [Opened(b) EXCEPT !.consecutive = Threshold]
    ELSE [b EXCEPT !.consecutive = @ + 1]

(* A failed probe reopens at once; late failures of an open one restart its cooldown. *)
(* Threshold caps the count: past it no decision depends on its value.                *)
Failed(b) ==
    IF b.state = "half_open" THEN Opened(b)
    ELSE IF b.consecutive + 1 >= Threshold THEN [Opened(b) EXCEPT !.consecutive = Threshold]
    ELSE [b EXCEPT !.consecutive = @ + 1]

Cooldown ==
    /\ \E e \in Entries :
         /\ breaker[e].state = "open" /\ ~breaker[e].cooled
         /\ breaker' = [breaker EXCEPT ![e].cooled = TRUE]
    /\ UNCHANGED <<entry, made, session, open, lost, worker, up, cancels>>

-----------------------------------------------------------------------------
(* Pool.CallTool and Pool.ListTools *)

At(w, pc) == worker[w].pc = pc

(* Without an entry the call is answered "not connected" on the spot. Only *)
(* CallTool asks the breaker.                                              *)
EntryFor(w, lists) ==
    /\ At(w, "idle") /\ entry # 0
    /\ worker' = [worker EXCEPT ![w].pc = IF lists THEN "session" ELSE "allow",
                                ![w].lists = lists, ![w].entry = entry]
    /\ UNCHANGED <<entry, made, breaker, session, open, lost, up, cancels>>

Allow(w) ==
    /\ At(w, "allow")
    /\ LET e == worker[w].entry
       IN  IF Admits(breaker[e])
             THEN /\ breaker' = [breaker EXCEPT ![e] = Admitting(@)]
                  /\ worker' = [worker EXCEPT ![w].pc = "session",
                                              ![w].probing = breaker[e].state # "closed"]
             ELSE UNCHANGED breaker /\ worker' = [worker EXCEPT ![w] = Waiting]
    /\ UNCHANGED <<entry, made, session, open, lost, up, cancels>>

(* Pool.session: the stored one, or dial without holding the lock. *)
UseSession(w) ==
    /\ At(w, "session")
    /\ worker' = [worker EXCEPT ![w].pc = IF session[worker[w].entry] = None THEN "dial" ELSE "call",
                                ![w].session = session[worker[w].entry]]
    /\ UNCHANGED <<entry, made, breaker, session, open, lost, up, cancels>>

Dialled(w) == [entry |-> worker[w].entry, by |-> w]

Dial(w) ==
    /\ At(w, "dial") /\ up
    /\ open' = open \cup {Dialled(w)}
    /\ worker' = [worker EXCEPT ![w].pc = "store", ![w].session = Dialled(w)]
    /\ UNCHANGED <<entry, made, breaker, session, lost, up, cancels>>

(* CallTool reports its outcome to the breaker, ListTools only returns it. *)
Finish(w, outcome) ==
    worker' = [worker EXCEPT ![w] = IF @.lists THEN Waiting
                                    ELSE [@ EXCEPT !.pc = "report", !.session = None,
                                                   !.outcome = outcome]]

DialFails_Silently(w) ==
    /\ At(w, "dial") /\ ~up
    /\ worker' = [worker EXCEPT ![w] = Waiting]
    /\ UNCHANGED <<entry, made, breaker, session, open, lost, up, cancels>>

DialFails(w) ==
    /\ At(w, "dial") /\ ~up
    /\ Finish(w, "failed")
    /\ UNCHANGED <<entry, made, breaker, session, open, lost, up, cancels>>

Store_WithoutClosing(w) ==
    /\ At(w, "store")
    /\ LET e == worker[w].entry
       IN  /\ session' = [session EXCEPT ![e] = IF @ = None THEN Dialled(w) ELSE @]
           /\ worker' = [worker EXCEPT ![w].pc = "call", ![w].session = session'[e]]
    /\ UNCHANGED <<entry, made, breaker, open, lost, up, cancels>>

(* Whoever connected first wins; the other session is closed. The entry may *)
(* have been retired meanwhile: it is not looked up again.                  *)
Store(w) ==
    /\ At(w, "store")
    /\ LET e == worker[w].entry
       IN  /\ session' = [session EXCEPT ![e] = IF @ = None THEN Dialled(w) ELSE @]
           /\ worker' = [worker EXCEPT ![w].pc = "call", ![w].session = session'[e]]
           /\ open' = IF session[e] = None THEN open ELSE open \ {Dialled(w)}
           /\ lost' = lost \cap open'
    /\ UNCHANGED <<entry, made, breaker, up, cancels>>

Carries(s) == up /\ s \in open /\ s \notin lost

Exchange(w) ==
    /\ At(w, "call")
    /\ Finish(w, IF Carries(worker[w].session) THEN "ok" ELSE "failed")
    /\ UNCHANGED <<entry, made, breaker, session, open, lost, up, cancels>>

(* The client disconnects: detachContext keeps its cancellation linked. *)
Cancel(w) ==
    /\ At(w, "call") /\ cancels < MaxCancels
    /\ Finish(w, "failed")
    /\ cancels' = cancels + 1
    /\ UNCHANGED <<entry, made, breaker, session, open, lost, up>>

(* Any error is a failure; a tool's own error result is a success. *)
Report(w) ==
    /\ At(w, "report")
    /\ breaker' = [breaker EXCEPT ![worker[w].entry] =
                     IF worker[w].outcome = "ok" THEN Succeeded(@) ELSE Failed(@)]
    /\ worker' = [worker EXCEPT ![w] = Waiting]
    /\ UNCHANGED <<entry, made, session, open, lost, up, cancels>>

Proceed(w) ==
    \/ Allow(w) \/ UseSession(w) \/ Dial(w) \/ DialFails(w) \/ Store(w)
    \/ Exchange(w) \/ Report(w)

-----------------------------------------------------------------------------
(* Pool.Sync: one section of the pool's lock. *)

Close(e) ==
    /\ open' = open \ {session[e]}
    /\ lost' = lost \cap open'
    /\ session' = [session EXCEPT ![e] = None]

Drop ==
    /\ entry # 0
    /\ Close(entry)
    /\ entry' = 0
    /\ UNCHANGED <<made, breaker, worker, up, cancels>>

(* The endpoint moved: a new entry, with its own session and breaker. *)
Move ==
    /\ entry # 0 /\ made < MaxEntries
    /\ Close(entry)
    /\ made' = made + 1 /\ entry' = made'
    /\ UNCHANGED <<breaker, worker, up, cancels>>

Add ==
    /\ entry = 0 /\ made < MaxEntries
    /\ made' = made + 1 /\ entry' = made'
    /\ UNCHANGED <<breaker, session, open, lost, worker, up, cancels>>

Sync == Drop \/ Move \/ Add

-----------------------------------------------------------------------------
(* The backend. *)

GoesDownOrUp ==
    /\ up' = ~up
    /\ UNCHANGED <<entry, made, breaker, session, open, lost, worker, cancels>>

(* A restarted backend no longer knows its sessions, or the dial's watchdog *)
(* fired as the handshake ended and cancelled the session's context. On a   *)
(* retired entry an outage does as much.                                    *)
Lose ==
    /\ \E s \in open \ lost : s.entry = entry /\ lost' = lost \cup {s}
    /\ UNCHANGED <<entry, made, breaker, session, open, worker, up, cancels>>

Next ==
    \/ \E w \in Workers, lists \in BOOLEAN : EntryFor(w, lists)
    \/ \E w \in Workers : Proceed(w) \/ Cancel(w)
    \/ Cooldown \/ Sync \/ GoesDownOrUp \/ Lose

Spec == Init /\ [][Next]_poolVars

(* Every goroutine gets another call in the end, a call runs to its end (the *)
(* HTTP client has a timeout) and a cooldown passes. Nothing else has to     *)
(* happen.                                                                   *)
Fairness ==
    /\ \A w \in Workers : SF_poolVars(EntryFor(w, FALSE)) /\ WF_poolVars(Proceed(w))
    /\ WF_poolVars(Cooldown)

FairSpec == Spec /\ Fairness

-----------------------------------------------------------------------------
(* Properties *)

(* A breaker that waits for its probe has one: the probe slot Allow reserved  *)
(* belongs to a call still in flight, so no return path of CallTool can leave *)
(* the backend shut out for ever (breaker.go:85-98).                          *)
HalfOpenAwaitsItsProbe ==
    \A e \in Entries :
        breaker[e].state = "half_open" =>
            \E w \in Workers : worker[w].entry = e /\ worker[w].probing

(* Dials that race leave the entry in use with one connection: every other   *)
(* open session of it is about to be closed by whoever dialled it, and every *)
(* call under way uses the stored one (pool.go:517-526).                     *)
OneSessionPerEntry ==
    /\ \A s \in open :
         s.entry = entry => \/ s = session[entry]
                            \/ At(s.by, "store") /\ worker[s.by].session = s
    /\ \A w \in Workers :
         At(w, "call") /\ worker[w].entry = entry => worker[w].session = session[entry]

(* Recovery needs no probe of the prober's: while calls keep coming, the     *)
(* breaker of a backend that stays up and keeps its session ends up closed,  *)
(* whatever late failures were still to be reported (breaker.go:42-46).      *)
BackendsRecover ==
    \A e \in Entries :
        <>[](up /\ entry = e /\ session[e] \notin lost) => <>[](breaker[e].state = "closed")
=============================================================================
