------------------------- MODULE BackendPoolProofs -------------------------
(***************************************************************************)
(* The safety of BackendPool for any goroutines, threshold and number of   *)
(* entries. Probing and Shared strengthen the two properties of the runs   *)
(* to inductive invariants, Connected is what a recovery rests on besides; *)
(* each has a section.                                                     *)
(***************************************************************************)
EXTENDS BackendPool, TLAPS

Pcs == {"idle", "allow", "session", "dial", "store", "call", "report"}

Registers(top) ==
    [pc : Pcs, lists : BOOLEAN, entry : 0..top, session : Sessions \cup {None},
     outcome : {"none", "ok", "failed"}, probing : BOOLEAN]

(* A goroutine in a call has an entry. *)
Working(r, top) == r \in Registers(top) /\ (r.pc # "idle" => r.entry # 0)

Surroundings ==
    /\ entry \in 0..made /\ made \in 0..MaxEntries
    /\ breaker \in [Entries -> Breakers]
    /\ session \in [Entries -> Sessions \cup {None}]
    /\ open \in SUBSET Sessions /\ lost \in SUBSET open
    /\ up \in BOOLEAN
    /\ cancels \in 0..MaxCancels

Typed ==
    /\ Surroundings
    /\ worker \in [Workers -> Registers(made)]
    /\ \A w \in Workers : Working(worker[w], made)

(* Only CallTool asks the breaker, and it gives the slot back when it reports. *)
Probing ==
    /\ \A w \in Workers :
         /\ worker[w].probing => ~worker[w].lists /\ worker[w].pc \notin {"idle", "allow"}
         /\ worker[w].pc = "allow" => ~worker[w].lists
    /\ HalfOpenAwaitsItsProbe

(* A session belongs to the entry it was dialled for, nobody has dialled for   *)
(* an entry that is not made yet, and who stores holds what it dialled.        *)
Shared ==
    /\ \A s \in open : s.entry <= made
    /\ \A e \in Entries : session[e] # None => session[e].entry = e /\ e <= made
    /\ \A w \in Workers :
         /\ At(w, "store") => worker[w].session = Dialled(w)
         /\ At(w, "call") => worker[w].session # None
    /\ OneSessionPerEntry

-----------------------------------------------------------------------------
(* Typed *)

LEMMA TypedIsTypeOK == Typed => TypeOK
BY DEF Typed, Surroundings, TypeOK, Registers, Pcs

LEMMA BreakersTyped ==
    /\ NewBreaker \in Breakers
    /\ \A b \in Breakers :
         /\ Admits(b) => Admitting(b) \in Breakers
         /\ Failed(b) \in Breakers /\ Failed(b).state # "half_open"
         /\ b.state = "open" => [b EXCEPT !.cooled = TRUE] \in Breakers
<1> USE ThresholdAssumption DEF Breakers
<1>1. NewBreaker \in Breakers
  BY DEF NewBreaker
<1>2. ASSUME NEW b \in Breakers PROVE Admits(b) => Admitting(b) \in Breakers
  BY DEF Admits, Admitting
<1>3. ASSUME NEW b \in Breakers PROVE Failed(b) \in Breakers /\ Failed(b).state # "half_open"
  <2>1. CASE b.state = "half_open"
    BY <2>1 DEF Failed, Opened
  <2>2. CASE b.state # "half_open" /\ b.consecutive + 1 >= Threshold
    <3>1. Opened(b).state = "open" /\ Failed(b) = [Opened(b) EXCEPT !.consecutive = Threshold]
      BY <2>2 DEF Failed, Opened
    <3>2. Opened(b) \in [state : {"closed", "open", "half_open"}, consecutive : 0..Threshold,
                         probeInFlight : BOOLEAN, cooled : BOOLEAN] /\ ~Opened(b).probeInFlight
      BY DEF Opened
    <3> QED
      BY <3>1, <3>2
  <2>3. CASE b.state # "half_open" /\ ~(b.consecutive + 1 >= Threshold)
    BY <2>3 DEF Failed, Opened
  <2> QED
    BY <2>1, <2>2, <2>3
<1>4. ASSUME NEW b \in Breakers, b.state = "open" PROVE [b EXCEPT !.cooled = TRUE] \in Breakers
  BY <1>4
<1> QED
  BY <1>1, <1>2, <1>3, <1>4

LEMMA WaitingTyped == \A top \in Nat : Working(Waiting, top)
BY DEF Waiting, Working, Registers, Pcs

LEMMA InitTyped == Init => Typed
<1> SUFFICES ASSUME Init PROVE Typed
  OBVIOUS
<1>1. made \in 0..MaxEntries /\ entry \in 0..made /\ made \in Nat
  BY MaxEntriesAssumption DEF Init
<1>2. breaker \in [Entries -> Breakers]
  BY BreakersTyped DEF Init
<1>3. Surroundings
  BY <1>1, <1>2, MaxCancelsAssumption DEF Init, Surroundings
<1>4. worker \in [Workers -> Registers(made)] /\ \A w \in Workers : Working(worker[w], made)
  BY <1>1, WaitingTyped DEF Init, Working
<1> QED
  BY <1>3, <1>4 DEF Typed

(* A step of one goroutine that makes no entry. *)
LEMMA OneWorkerTyped ==
    ASSUME Typed, NEW w \in Workers, NEW r, Working(r, made),
           worker' = [worker EXCEPT ![w] = r], Surroundings', made' = made
    PROVE  Typed'
BY DEF Typed, Working

LEMMA MadeIsNat == Typed => made \in Nat /\ entry \in Nat /\ made \in 0..MaxEntries
BY MaxEntriesAssumption DEF Typed, Surroundings

(* What Finish leaves a goroutine with. *)
LEMMA FinishTyped ==
    ASSUME Typed, NEW w \in Workers, NEW outcome \in {"ok", "failed"}, Finish(w, outcome),
           worker[w].pc # "idle", Surroundings', made' = made
    PROVE  Typed'
<1> DEFINE r == IF worker[w].lists THEN Waiting
                ELSE [worker[w] EXCEPT !.pc = "report", !.session = None, !.outcome = outcome]
<1>1. worker' = [worker EXCEPT ![w] = r]
  BY DEF Finish
<1>2. Working(worker[w], made) /\ made \in Nat
  BY MadeIsNat DEF Typed
<1>3. Working(r, made)
  BY <1>2, WaitingTyped DEF Working, Registers, Pcs
<1> HIDE DEF r
<1> QED
  BY <1>1, <1>3, OneWorkerTyped

(* A call that ended reports, a listing is over. *)
LEMMA FinishEnds ==
    ASSUME Typed, NEW w \in Workers, NEW outcome \in {"ok", "failed"}, Finish(w, outcome)
    PROVE  \/ worker'[w] = Waiting /\ worker'[w].pc = "idle"
           \/ /\ worker'[w].pc = "report" /\ worker'[w].outcome = outcome
              /\ worker'[w].entry = worker[w].entry
<1>1. worker \in [Workers -> Registers(made)] /\ worker[w] \in Registers(made)
  BY DEF Typed
<1>2. CASE worker[w].lists
  BY <1>1, <1>2 DEF Finish, Waiting
<1>3. CASE ~worker[w].lists
  <2>1. worker'[w] = [worker[w] EXCEPT !.pc = "report", !.session = None, !.outcome = outcome]
    BY <1>1, <1>3 DEF Finish
  <2> QED
    BY <1>1, <2>1 DEF Registers
<1> QED
  BY <1>2, <1>3

LEMMA CallTyped ==
    ASSUME Typed, NEW w \in Workers, (\E lists \in BOOLEAN : EntryFor(w, lists)) \/ Proceed(w) \/ Cancel(w)
    PROVE  Typed'
<1>1. /\ Working(worker[w], made) /\ made \in Nat /\ entry \in 0..made
      /\ worker[w].pc # "idle" => worker[w].entry \in Entries
  <2>1. Working(worker[w], made) /\ made \in Nat /\ entry \in 0..made /\ made <= MaxEntries
    BY MadeIsNat, MaxEntriesAssumption DEF Typed, Surroundings
  <2>2. worker[w].entry \in 0..made /\ (worker[w].pc # "idle" => worker[w].entry # 0)
    BY <2>1 DEF Working, Registers
  <2> QED
    BY <2>1, <2>2, MaxEntriesAssumption DEF Entries
<1>2. ASSUME NEW lists \in BOOLEAN, EntryFor(w, lists) PROVE Typed'
  <2> DEFINE r == [worker[w] EXCEPT !.pc = IF lists THEN "session" ELSE "allow",
                                    !.lists = lists, !.entry = entry]
  <2>1. worker' = [worker EXCEPT ![w] = r]
    BY <1>2 DEF EntryFor, Typed
  <2>2. Working(r, made)
    BY <1>1, <1>2 DEF EntryFor, Working, Registers, Pcs
  <2>3. Surroundings' /\ made' = made
    BY <1>2 DEF EntryFor, Typed, Surroundings
  <2> HIDE DEF r
  <2> QED
    BY <2>1, <2>2, <2>3, OneWorkerTyped
<1>3. CASE Allow(w)
  <2> DEFINE e == worker[w].entry
             r == [worker[w] EXCEPT !.pc = "session", !.probing = breaker[e].state # "closed"]
  <2>1. e \in Entries /\ breaker[e] \in Breakers
    BY <1>1, <1>3 DEF Allow, At, Typed, Surroundings
  <2>2. Working(r, made)
    BY <1>1, <1>3 DEF Allow, At, Working, Registers, Pcs
  <2>3. breaker' \in [Entries -> Breakers]
    BY <1>3, <2>1, BreakersTyped DEF Allow, Typed, Surroundings
  <2>4. Surroundings' /\ made' = made
    BY <1>3, <2>3 DEF Allow, Typed, Surroundings
  <2>5. worker' = [worker EXCEPT ![w] = r] \/ worker' = [worker EXCEPT ![w] = Waiting]
    BY <1>3 DEF Allow, Typed
  <2> HIDE DEF r
  <2> QED
    BY <1>1, <2>2, <2>4, <2>5, WaitingTyped, OneWorkerTyped
<1>4. CASE UseSession(w)
  <2> DEFINE r == [worker[w] EXCEPT
                     !.pc = IF session[worker[w].entry] = None THEN "dial" ELSE "call",
                     !.session = session[worker[w].entry]]
  <2>1. worker' = [worker EXCEPT ![w] = r]
    BY <1>4 DEF UseSession, Typed
  <2>2. session[worker[w].entry] \in Sessions \cup {None}
    BY <1>1, <1>4 DEF UseSession, At, Typed, Surroundings
  <2>3. Working(r, made)
    BY <1>1, <1>4, <2>2 DEF UseSession, At, Working, Registers, Pcs
  <2>4. Surroundings' /\ made' = made
    BY <1>4 DEF UseSession, Typed, Surroundings
  <2> HIDE DEF r
  <2> QED
    BY <2>1, <2>3, <2>4, OneWorkerTyped
<1>5. CASE Dial(w)
  <2> DEFINE r == [worker[w] EXCEPT !.pc = "store", !.session = Dialled(w)]
  <2>1. worker' = [worker EXCEPT ![w] = r]
    BY <1>5 DEF Dial, Typed
  <2>2. Dialled(w) \in Sessions
    BY <1>1, <1>5 DEF Dial, At, Dialled, Sessions
  <2>3. Working(r, made)
    BY <1>1, <1>5, <2>2 DEF Dial, At, Working, Registers, Pcs
  <2>4. Surroundings' /\ made' = made
    BY <1>5, <2>2 DEF Dial, Typed, Surroundings
  <2> HIDE DEF r
  <2> QED
    BY <2>1, <2>3, <2>4, OneWorkerTyped
<1>6. CASE DialFails(w) \/ Exchange(w) \/ Cancel(w)
  <2>1. Finish(w, "ok") \/ Finish(w, "failed")
    BY <1>6 DEF DialFails, Exchange, Cancel
  <2>2. Surroundings' /\ made' = made /\ worker[w].pc # "idle"
    BY <1>6, MaxCancelsAssumption DEF DialFails, Exchange, Cancel, At, Typed, Surroundings
  <2> QED
    BY <2>1, <2>2, FinishTyped
<1>7. CASE Store(w)
  <2> DEFINE e == worker[w].entry
             r == [worker[w] EXCEPT !.pc = "call", !.session = session'[e]]
  <2>1. worker' = [worker EXCEPT ![w] = r]
    <3>1. worker' = [worker EXCEPT ![w].pc = "call", ![w].session = session'[e]]
      BY <1>7 DEF Store
    <3> DEFINE s == session'[e]
    <3> HIDE DEF s
    <3>2. worker' = [worker EXCEPT ![w].pc = "call", ![w].session = s]
      BY <3>1 DEF s
    <3>3. worker' = [worker EXCEPT ![w] = [worker[w] EXCEPT !.pc = "call", !.session = s]]
      BY <3>2 DEF Typed
    <3> QED
      BY <3>3 DEF s
  <2>2. e \in Entries /\ Dialled(w) \in Sessions
    BY <1>1, <1>7 DEF Store, At, Dialled, Sessions
  <2>3. session' \in [Entries -> Sessions \cup {None}]
    BY <1>7, <2>2 DEF Store, Typed, Surroundings
  <2>4. open' \in SUBSET Sessions /\ lost' \in SUBSET open'
    BY <1>7 DEF Store, Typed, Surroundings
  <2>5. Working(r, made)
    BY <1>1, <1>7, <2>2, <2>3 DEF Store, At, Working, Registers, Pcs
  <2>6. Surroundings' /\ made' = made
    BY <1>7, <2>3, <2>4 DEF Store, Typed, Surroundings
  <2> HIDE DEF r
  <2> QED
    BY <2>1, <2>5, <2>6, OneWorkerTyped
<1>8. CASE Report(w)
  <2>1. breaker' \in [Entries -> Breakers]
    BY <1>1, <1>8, BreakersTyped DEF Report, At, Succeeded, Typed, Surroundings
  <2>2. Surroundings' /\ made' = made /\ worker' = [worker EXCEPT ![w] = Waiting]
    BY <1>8, <2>1 DEF Report, Typed, Surroundings
  <2> QED
    BY <1>1, <2>2, WaitingTyped, OneWorkerTyped
<1> QED
  BY <1>2, <1>3, <1>4, <1>5, <1>6, <1>7, <1>8 DEF Proceed

LEMMA AroundTyped ==
    ASSUME Typed, Cooldown \/ Sync \/ GoesDownOrUp \/ Lose
    PROVE  Typed'
<1>1. UNCHANGED worker /\ made' \in {made, made + 1} /\ made \in Nat
  BY MadeIsNat DEF Cooldown, Sync, Drop, Move, Add, GoesDownOrUp, Lose
<1>2. worker' \in [Workers -> Registers(made')] /\ \A w \in Workers : Working(worker'[w], made')
  BY <1>1 DEF Typed, Working, Registers
<1>3. CASE Cooldown
  <2>1. breaker' \in [Entries -> Breakers]
    BY <1>3, BreakersTyped DEF Cooldown, Typed, Surroundings
  <2> QED
    BY <1>2, <1>3, <2>1 DEF Cooldown, Typed, Surroundings
<1>4. CASE Sync
  <2>1. made' \in 0..MaxEntries /\ entry' \in 0..made'
    BY <1>4, MadeIsNat, MaxEntriesAssumption DEF Sync, Drop, Move, Add
  <2>2. /\ session' \in [Entries -> Sessions \cup {None}]
        /\ open' \in SUBSET Sessions /\ lost' \in SUBSET open'
    BY <1>4 DEF Sync, Drop, Move, Add, Close, Typed, Surroundings
  <2>3. UNCHANGED <<breaker, up, cancels>>
    BY <1>4 DEF Sync, Drop, Move, Add
  <2> QED
    BY <1>2, <2>1, <2>2, <2>3 DEF Typed, Surroundings
<1>5. CASE GoesDownOrUp
  BY <1>2, <1>5 DEF GoesDownOrUp, Typed, Surroundings
<1>6. CASE Lose
  BY <1>2, <1>6 DEF Lose, Typed, Surroundings
<1> QED
  BY <1>3, <1>4, <1>5, <1>6

LEMMA NextTyped == Typed /\ [Next]_poolVars => Typed'
<1> SUFFICES ASSUME Typed, [Next]_poolVars PROVE Typed'
  OBVIOUS
<1>1. CASE UNCHANGED poolVars
  BY <1>1 DEF poolVars, Typed, Surroundings
<1> QED
  BY <1>1, CallTyped, AroundTyped DEF Next

LEMMA AlwaysTyped == Spec => []Typed
BY InitTyped, NextTyped, PTL DEF Spec

(* Entries, breakers, sessions and the registers of every call keep their       *)
(* types: a breaker is closed exactly below the threshold and has a probe slot  *)
(* taken exactly while half-open (pool.go, breaker.go).                         *)
THEOREM TypeCorrect == Spec => []TypeOK
BY AlwaysTyped, TypedIsTypeOK, PTL

-----------------------------------------------------------------------------
(* Probing *)

LEMMA InitProbing == Init => Probing
BY DEF Init, Probing, HalfOpenAwaitsItsProbe, Waiting, NewBreaker

LEMMA OthersStand ==
    ASSUME Typed, NEW w \in Workers, (\E lists \in BOOLEAN : EntryFor(w, lists)) \/ Proceed(w) \/ Cancel(w)
    PROVE  \A x \in Workers \ {w} : worker'[x] = worker[x]
BY DEF Typed, EntryFor, Proceed, Cancel, Allow, UseSession, Dial, DialFails, Store, Exchange,
       Report, Finish

(* A step that leaves the breakers alone, and of its goroutine the slot. *)
LEMMA KeepsSlots ==
    ASSUME Typed, Probing, NEW w \in Workers, UNCHANGED breaker,
           \A x \in Workers \ {w} : worker'[x] = worker[x],
           worker[w].probing => /\ worker'[w].probing /\ worker'[w].entry = worker[w].entry
                                /\ ~worker'[w].lists /\ worker'[w].pc \notin {"idle", "allow"},
           ~worker[w].probing => ~worker'[w].probing,
           worker'[w].pc = "allow" => ~worker'[w].lists
    PROVE  Probing'
BY DEF Probing, HalfOpenAwaitsItsProbe

LEMMA CallProbing ==
    ASSUME Typed, Probing, NEW w \in Workers,
           (\E lists \in BOOLEAN : EntryFor(w, lists)) \/ Proceed(w) \/ Cancel(w)
    PROVE  Probing'
<1>1. \A x \in Workers \ {w} : worker'[x] = worker[x]
  BY OthersStand
<1>2. /\ worker \in [Workers -> Registers(made)] /\ worker[w] \in Registers(made)
      /\ worker[w].probing => ~worker[w].lists /\ worker[w].pc \notin {"idle", "allow"}
  BY DEF Typed, Probing
<1>3. ASSUME NEW lists \in BOOLEAN, EntryFor(w, lists) PROVE Probing'
  BY <1>1, <1>2, <1>3, KeepsSlots DEF EntryFor, At, Registers
<1>4. CASE UseSession(w)
  BY <1>1, <1>2, <1>4, KeepsSlots DEF UseSession, At, Registers
<1>5. CASE Dial(w)
  BY <1>1, <1>2, <1>5, KeepsSlots DEF Dial, At, Registers
<1>6. CASE Store(w)
  BY <1>1, <1>2, <1>6, KeepsSlots DEF Store, At, Registers
<1>7. CASE DialFails(w) \/ Exchange(w) \/ Cancel(w)
  <2>1. UNCHANGED breaker /\ (Finish(w, "ok") \/ Finish(w, "failed"))
    BY <1>7 DEF DialFails, Exchange, Cancel
  <2>2. CASE worker[w].lists
    BY <1>1, <1>2, <2>1, <2>2, KeepsSlots DEF Finish, Waiting
  <2>3. CASE ~worker[w].lists
    <3>1. /\ worker'[w].pc = "report" /\ worker'[w].lists = worker[w].lists
          /\ worker'[w].entry = worker[w].entry /\ worker'[w].probing = worker[w].probing
      <4>1. ASSUME NEW how \in {"ok", "failed"}, Finish(w, how)
            PROVE  worker'[w] = [worker[w] EXCEPT !.pc = "report", !.session = None, !.outcome = how]
        BY <1>2, <2>3, <4>1 DEF Finish
      <4> QED
        BY <1>2, <2>1, <4>1 DEF Registers
    <3> QED
      BY <1>1, <1>2, <2>1, <3>1, KeepsSlots
  <2> QED
    BY <2>2, <2>3
<1>8. CASE Allow(w)
  <2> DEFINE e == worker[w].entry
  <2>1. ~worker[w].probing
    BY <1>2, <1>8 DEF Allow, At
  <2>2. CASE Admits(breaker[e])
    <3>1. /\ breaker' = [breaker EXCEPT ![e] = Admitting(@)]
          /\ worker' = [worker EXCEPT ![w].pc = "session", ![w].probing = breaker[e].state # "closed"]
      BY <1>8, <2>2 DEF Allow
    <3>2. /\ worker'[w].pc = "session" /\ worker'[w].lists = worker[w].lists
          /\ worker'[w].entry = e /\ worker'[w].probing = (breaker[e].state # "closed")
      BY <1>2, <3>1 DEF Registers
    <3>3. \A f \in Entries : breaker'[f].state = "half_open" =>
             \/ f # e /\ breaker[f].state = "half_open"
             \/ f = e /\ breaker[f].state # "closed"
      BY <3>1 DEF Admitting, Typed, Surroundings
    <3>4. ~worker[w].lists
      BY <1>8 DEF Allow, At, Probing
    <3>5. \A x \in Workers :
            /\ worker'[x].probing => ~worker'[x].lists /\ worker'[x].pc \notin {"idle", "allow"}
            /\ worker'[x].pc = "allow" => ~worker'[x].lists
      BY <1>1, <3>2, <3>4 DEF Probing
    <3>6. ASSUME NEW f \in Entries, breaker'[f].state = "half_open"
          PROVE  \E x \in Workers : worker'[x].entry = f /\ worker'[x].probing
      <4>1. CASE f = e /\ breaker[f].state # "closed"
        BY <3>2, <4>1
      <4>2. CASE f # e /\ breaker[f].state = "half_open"
        <5>1. PICK x \in Workers : worker[x].entry = f /\ worker[x].probing
          BY <4>2 DEF Probing, HalfOpenAwaitsItsProbe
        <5> QED
          BY <1>1, <2>1, <5>1
      <4> QED
        BY <3>3, <3>6, <4>1, <4>2
    <3> QED
      BY <3>5, <3>6 DEF Probing, HalfOpenAwaitsItsProbe
  <2>3. CASE ~Admits(breaker[e])
    BY <1>1, <1>2, <1>8, <2>1, <2>3, KeepsSlots DEF Allow, Waiting
  <2> QED
    BY <2>2, <2>3
<1>9. CASE Report(w)
  <2>1. worker[w].entry \in Entries
    BY <1>9, MadeIsNat, MaxEntriesAssumption DEF Typed, Report, At, Working, Registers, Entries
  <2>2. breaker'[worker[w].entry].state # "half_open"
    BY <1>9, <2>1, BreakersTyped DEF Report, Succeeded, NewBreaker, Typed, Surroundings
  <2>3. /\ \A f \in Entries \ {worker[w].entry} : breaker'[f] = breaker[f]
        /\ worker'[w] = Waiting
    BY <1>2, <1>9 DEF Report, Typed, Surroundings
  <2> QED
    BY <1>1, <2>2, <2>3 DEF Probing, HalfOpenAwaitsItsProbe, Waiting
<1> QED
  BY <1>3, <1>4, <1>5, <1>6, <1>7, <1>8, <1>9 DEF Proceed

LEMMA AroundProbing ==
    ASSUME Typed, Probing, Cooldown \/ Sync \/ GoesDownOrUp \/ Lose
    PROVE  Probing'
<1>1. UNCHANGED worker
  BY DEF Cooldown, Sync, Drop, Move, Add, GoesDownOrUp, Lose
<1>2. \A e \in Entries : breaker'[e].state = "half_open" => breaker[e].state = "half_open"
  BY DEF Cooldown, Sync, Drop, Move, Add, GoesDownOrUp, Lose, Typed, Surroundings, Breakers
<1> QED
  BY <1>1, <1>2 DEF Probing, HalfOpenAwaitsItsProbe

LEMMA NextProbing == Typed /\ Probing /\ [Next]_poolVars => Probing'
<1> SUFFICES ASSUME Typed, Probing, [Next]_poolVars PROVE Probing'
  OBVIOUS
<1>1. CASE UNCHANGED poolVars
  BY <1>1 DEF poolVars, Probing, HalfOpenAwaitsItsProbe
<1> QED
  BY <1>1, CallProbing, AroundProbing DEF Next

(* A half-open breaker's slot belongs to a call in flight on its entry, however *)
(* many calls, probes, late outcomes and retired entries there are: no return   *)
(* path of CallTool leaves it reserved for nobody (breaker.go:85-98).           *)
THEOREM ProbesAreUnderWay == Spec => []HalfOpenAwaitsItsProbe
<1>1. Spec => []Probing
  BY InitProbing, NextProbing, AlwaysTyped, PTL DEF Spec
<1>2. Probing => HalfOpenAwaitsItsProbe
  BY DEF Probing
<1> QED
  BY <1>1, <1>2, PTL

-----------------------------------------------------------------------------
(* Shared *)

LEMMA InitShared == Init => Shared
BY DEF Init, Shared, OneSessionPerEntry, Waiting, At

(* A goroutine that neither stores nor dials moves; it may take up the stored *)
(* session of its entry.                                                      *)
LEMMA KeepsShared ==
    ASSUME Typed, Shared, NEW w \in Workers, UNCHANGED <<entry, made, session, open>>,
           \A x \in Workers \ {w} : worker'[x] = worker[x],
           worker[w].pc # "store", worker'[w].pc # "store",
           worker'[w].pc = "call" => /\ worker'[w].session = session[worker'[w].entry]
                                     /\ worker'[w].session # None
    PROVE  Shared'
<1>1. \A s \in open : s.by \in Workers
  BY DEF Typed, Surroundings, Sessions
<1>2. \A x \in Workers : /\ At(x, "store")' => worker'[x].session = Dialled(x)' /\ x # w
                         /\ At(x, "call")' => worker'[x].session # None
  BY DEF Shared, At, Dialled
<1>3. \A s \in open : s.entry = entry => \/ s = session[entry]
                                         \/ At(s.by, "store")' /\ worker'[s.by].session = s
  BY <1>1 DEF Shared, OneSessionPerEntry, At
<1>4. \A x \in Workers :
         At(x, "call")' /\ worker'[x].entry = entry => worker'[x].session = session[entry]
  BY DEF Shared, OneSessionPerEntry, At
<1> QED
  BY <1>2, <1>3, <1>4 DEF Shared, OneSessionPerEntry

LEMMA DialShared ==
    ASSUME Typed, Shared, NEW w \in Workers, Dial(w)
    PROVE  Shared'
<1>1. \A x \in Workers \ {w} : worker'[x] = worker[x]
  BY OthersStand DEF Proceed
<1>2. /\ worker[w].pc = "dial" /\ worker'[w].pc = "store"
      /\ worker'[w].entry = worker[w].entry /\ worker'[w].session = Dialled(w)
  BY DEF Typed, Dial, At, Registers
<1>3. UNCHANGED <<entry, made, session>> /\ open' = open \cup {Dialled(w)}
  BY DEF Dial
<1>4. worker[w].entry <= made /\ \A s \in open : s.by \in Workers
  BY MadeIsNat DEF Typed, Surroundings, Sessions, Working, Registers
<1>5. \A x \in Workers : /\ At(x, "store")' => worker'[x].session = Dialled(x)'
                         /\ At(x, "call")' => worker'[x].session # None
  BY <1>1, <1>2 DEF Shared, At, Dialled
<1>6. \A s \in open' : s.entry <= made'
  BY <1>3, <1>4 DEF Shared, Dialled
<1>7. \A s \in open' : s.entry = entry' => \/ s = session'[entry']
                                           \/ At(s.by, "store")' /\ worker'[s.by].session = s
  <2>1. ASSUME NEW s \in open, s.entry = entry
        PROVE  s = session[entry] \/ (At(s.by, "store")' /\ worker'[s.by].session = s)
    <3>1. CASE worker[s.by].pc = "store" /\ worker[s.by].session = s
      <4>1. s.by \in Workers /\ s.by # w
        BY <1>2, <1>4, <3>1
      <4> QED
        BY <1>1, <3>1, <4>1 DEF At
    <3> QED
      BY <2>1, <3>1 DEF Shared, OneSessionPerEntry, At
  <2>2. Dialled(w).by = w
    BY DEF Dialled
  <2> QED
    BY <1>2, <1>3, <2>1, <2>2 DEF At
<1>8. \A x \in Workers :
         At(x, "call")' /\ worker'[x].entry = entry' => worker'[x].session = session'[entry']
  BY <1>1, <1>2, <1>3 DEF Shared, OneSessionPerEntry, At
<1> QED
  BY <1>3, <1>5, <1>6, <1>7, <1>8 DEF Shared, OneSessionPerEntry

(* Where nothing is stored yet, nobody is calling on the entry and every other  *)
(* open session of it still waits to be stored; where something is, the session *)
(* that lost the race is closed.                                                *)
LEMMA StoreShared ==
    ASSUME Typed, Shared, NEW w \in Workers, Store(w)
    PROVE  Shared'
<1> DEFINE e == worker[w].entry
<1>1. \A x \in Workers \ {w} : worker'[x] = worker[x]
  BY OthersStand DEF Proceed
<1>2. e \in Entries /\ e <= made /\ Dialled(w) \in Sessions /\ Dialled(w).entry = e /\ Dialled(w).by = w
  <2>1. e \in 0..made /\ e # 0
    BY DEF Typed, Working, Registers, Store, At
  <2> QED
    BY <2>1, MadeIsNat, MaxEntriesAssumption DEF Entries, Dialled, Sessions
<1>3. /\ worker[w].pc = "store" /\ worker[w].session = Dialled(w)
      /\ session'[e] = IF session[e] = None THEN Dialled(w) ELSE session[e]
      /\ \A f \in Entries \ {e} : session'[f] = session[f]
  BY <1>2 DEF Store, At, Shared, Typed, Surroundings
<1>4. worker'[w].pc = "call" /\ worker'[w].entry = e /\ worker'[w].session = session'[e]
  <2>1. worker' = [worker EXCEPT ![w].pc = "call", ![w].session = session'[e]]
    BY DEF Store
  <2> DEFINE s == session'[e]
  <2> HIDE DEF s
  <2>2. worker' = [worker EXCEPT ![w].pc = "call", ![w].session = s]
    BY <2>1 DEF s
  <2>3. worker'[w].pc = "call" /\ worker'[w].entry = e /\ worker'[w].session = s
    BY <2>2 DEF Typed, Registers
  <2> QED
    BY <2>3 DEF s
<1>5. UNCHANGED <<entry, made>> /\ open' \subseteq open
      /\ (session[e] # None => Dialled(w) \notin open')
  BY DEF Store
<1>6. \A s \in open : s.by \in Workers
  BY DEF Typed, Surroundings, Sessions
<1>7. Dialled(w) # None
  BY <1>2, NoneAssumption
<1>8. \A x \in Workers : /\ At(x, "store")' => worker'[x].session = Dialled(x)'
                         /\ At(x, "call")' => worker'[x].session # None
  BY <1>1, <1>3, <1>4, <1>7 DEF Shared, At, Dialled
<1>9. \A f \in Entries : session'[f] # None => session'[f].entry = f /\ f <= made'
  BY <1>2, <1>3, <1>5 DEF Shared
<1>10. ASSUME NEW s \in open', s.entry = entry'
       PROVE  s = session'[entry'] \/ (At(s.by, "store")' /\ worker'[s.by].session = s)
  <2>1. s \in open /\ s.entry = entry /\ s.entry \in Entries
    BY <1>5, <1>10 DEF Typed, Surroundings, Sessions
  <2>2. CASE s.by = w /\ At(w, "store") /\ worker[w].session = s
    <3>1. s = Dialled(w) /\ session[e] = None
      BY <1>3, <1>5, <2>2
    <3>2. e = entry /\ session'[e] = s
      BY <1>2, <1>3, <2>1, <3>1
    <3> QED
      BY <1>5, <3>2
  <2>3. CASE s.by # w /\ At(s.by, "store") /\ worker[s.by].session = s
    BY <1>1, <1>6, <2>1, <2>3 DEF At
  <2>4. CASE s = session[entry]
    <3>1. s # None
      BY <2>1, NoneAssumption DEF Typed, Surroundings
    <3>2. session'[entry] = s
      BY <1>3, <2>1, <2>4, <3>1
    <3> QED
      BY <1>5, <3>2
  <2> QED
    BY <2>1, <2>2, <2>3, <2>4 DEF Shared, OneSessionPerEntry
<1>11. ASSUME NEW x \in Workers, At(x, "call")', worker'[x].entry = entry'
       PROVE  worker'[x].session = session'[entry']
  <2>1. CASE x = w
    BY <1>4, <1>11, <2>1
  <2>2. CASE x # w
    <3>1. At(x, "call") /\ worker[x].entry = entry /\ worker'[x].session = worker[x].session
      BY <1>1, <1>5, <1>11, <2>2 DEF At
    <3>2. worker[x].session = session[entry] /\ session[entry] # None
      BY <3>1 DEF Shared, OneSessionPerEntry
    <3>3. entry \in Entries
      <4>1. worker[x].entry \in 0..made /\ worker[x].entry # 0
        BY <3>1 DEF Typed, Working, Registers, At
      <4> QED
        BY <3>1, <4>1, MadeIsNat, MaxEntriesAssumption DEF Entries
    <3> QED
      BY <1>3, <1>5, <3>1, <3>2, <3>3
  <2> QED
    BY <2>1, <2>2
<1> QED
  BY <1>5, <1>8, <1>9, <1>10, <1>11 DEF Shared, OneSessionPerEntry

LEMMA CallShared ==
    ASSUME Typed, Shared, NEW w \in Workers,
           (\E lists \in BOOLEAN : EntryFor(w, lists)) \/ Proceed(w) \/ Cancel(w)
    PROVE  Shared'
<1>1. \A x \in Workers \ {w} : worker'[x] = worker[x]
  BY OthersStand
<1>2. worker \in [Workers -> Registers(made)] /\ worker[w] \in Registers(made)
  BY DEF Typed
<1>3. ASSUME NEW lists \in BOOLEAN, EntryFor(w, lists) PROVE Shared'
  BY <1>1, <1>2, <1>3, KeepsShared DEF EntryFor, At, Registers
<1>4. CASE Allow(w)
  <2>1. worker'[w].pc \in {"session", "idle"}
    BY <1>2, <1>4 DEF Allow, Registers, Waiting
  <2> QED
    BY <1>1, <1>4, <2>1, KeepsShared DEF Allow, At
<1>5. CASE UseSession(w)
  BY <1>1, <1>2, <1>5, KeepsShared DEF UseSession, At, Registers
<1>6. CASE DialFails(w) \/ Exchange(w) \/ Cancel(w)
  <2>1. /\ UNCHANGED <<entry, made, session, open>> /\ worker[w].pc # "store"
        /\ Finish(w, "ok") \/ Finish(w, "failed")
    BY <1>6 DEF DialFails, Exchange, Cancel, At
  <2>2. worker'[w].pc \in {"idle", "report"}
    BY <2>1, FinishEnds
  <2> QED
    BY <1>1, <2>1, <2>2, KeepsShared
<1>7. CASE Report(w)
  BY <1>1, <1>2, <1>7, KeepsShared DEF Report, At, Waiting
<1> QED
  BY <1>3, <1>4, <1>5, <1>6, <1>7, DialShared, StoreShared DEF Proceed

(* A Sync that retires the entry leaves its sessions and calls to it; the entry *)
(* it makes, if it does, has none.                                              *)
LEMMA SyncShared ==
    ASSUME Typed, Shared, Sync
    PROVE  Shared'
<1>1. /\ UNCHANGED worker /\ open' \subseteq open /\ made <= made'
      /\ entry' = 0 \/ entry' = made + 1
  BY MadeIsNat DEF Sync, Drop, Move, Add, Close
<1>2. \A e \in Entries : session'[e] \in {session[e], None}
  BY DEF Sync, Drop, Move, Add, Close, Typed, Surroundings
<1>3. \A s \in open : s.entry \in Nat /\ s.entry # 0 /\ s.entry <= made
  BY DEF Typed, Surroundings, Sessions, Entries, Shared
<1>4. \A s \in open' : s.entry # entry' /\ s.entry <= made'
  <2>1. made' \in Nat
    BY MadeIsNat DEF Sync, Drop, Move, Add
  <2> QED
    BY <1>1, <1>3, <2>1, MadeIsNat
<1>5. \A x \in Workers : At(x, "call") => worker[x].entry # entry'
  BY <1>1, MadeIsNat DEF Typed, Working, Registers, At
<1>6. \A e \in Entries : session'[e] # None => session'[e].entry = e /\ e <= made'
  <2>1. made' \in Nat
    BY MadeIsNat DEF Sync, Drop, Move, Add
  <2> QED
    BY <1>1, <1>2, <2>1, MadeIsNat DEF Shared, Entries
<1> QED
  BY <1>1, <1>4, <1>5, <1>6 DEF Shared, OneSessionPerEntry, At, Dialled

LEMMA NextShared == Typed /\ Shared /\ [Next]_poolVars => Shared'
<1> SUFFICES ASSUME Typed, Shared, [Next]_poolVars PROVE Shared'
  OBVIOUS
<1>1. CASE Cooldown \/ GoesDownOrUp \/ Lose \/ UNCHANGED poolVars
  BY <1>1 DEF Cooldown, GoesDownOrUp, Lose, poolVars, Shared, OneSessionPerEntry, At, Dialled
<1> QED
  BY <1>1, CallShared, SyncShared DEF Next

LEMMA AlwaysShared == Spec => []Shared
BY InitShared, NextShared, AlwaysTyped, PTL DEF Spec

(* Dials that race leave the entry in use one connection, also when Sync moves *)
(* the target under them: every other open session of it is about to be closed *)
(* by whoever dialled it (pool.go:517-526).                                    *)
THEOREM OneConnectionRemains == Spec => []OneSessionPerEntry
<1>1. Shared => OneSessionPerEntry
  BY DEF Shared
<1> QED
  BY <1>1, AlwaysShared, PTL

-----------------------------------------------------------------------------
(* Connected *)

(* A stored session is open, and who has yet to store what it dials will find *)
(* somebody else's session or none.                                           *)
Connected ==
    /\ \A e \in Entries : session[e] # None => session[e] \in open
    /\ \A w \in Workers :
         /\ worker[w].pc \in {"dial", "store"} => session[worker[w].entry] # Dialled(w)
         /\ worker[w].pc = "store" => Dialled(w) \in open

LEMMA InitConnected == Init => Connected
BY DEF Init, Connected, Waiting

(* The entry a goroutine works with. *)
LEMMA WorksWithAnEntry ==
    ASSUME Typed, NEW w \in Workers, worker[w].pc # "idle"
    PROVE  worker[w].entry \in Entries /\ Dialled(w) \in Sessions
<1>1. worker[w].entry \in 0..made /\ worker[w].entry # 0
  BY DEF Typed, Working, Registers
<1> QED
  BY <1>1, MadeIsNat, MaxEntriesAssumption DEF Entries, Dialled, Sessions

LEMMA CallConnected ==
    ASSUME Typed, Shared, Connected, NEW w \in Workers,
           (\E lists \in BOOLEAN : EntryFor(w, lists)) \/ Proceed(w) \/ Cancel(w)
    PROVE  Connected'
<1>1. \A x \in Workers \ {w} : worker'[x] = worker[x]
  BY OthersStand
<1>2. worker \in [Workers -> Registers(made)] /\ worker[w] \in Registers(made)
  BY DEF Typed
<1>3. ASSUME UNCHANGED <<session, open>>, worker'[w].pc \notin {"dial", "store"}
      PROVE  Connected'
  BY <1>1, <1>3 DEF Connected, Dialled
<1>4. ASSUME NEW lists \in BOOLEAN, EntryFor(w, lists) PROVE Connected'
  BY <1>2, <1>3, <1>4 DEF EntryFor, Registers
<1>5. CASE Allow(w)
  <2>1. worker'[w].pc \in {"session", "idle"}
    BY <1>2, <1>5 DEF Allow, Registers, Waiting
  <2> QED
    BY <1>3, <1>5, <2>1 DEF Allow
<1>6. CASE UseSession(w)
  <2>1. /\ UNCHANGED <<session, open>> /\ worker'[w].entry = worker[w].entry
        /\ worker'[w].pc = IF session[worker[w].entry] = None THEN "dial" ELSE "call"
    BY <1>2, <1>6 DEF UseSession, Registers
  <2>2. Dialled(w) # None
    BY <1>6, WorksWithAnEntry, NoneAssumption DEF UseSession, At
  <2> QED
    BY <1>1, <2>1, <2>2 DEF Connected, Dialled
<1>7. CASE Dial(w)
  <2>1. /\ session' = session /\ open' = open \cup {Dialled(w)}
        /\ worker[w].pc = "dial" /\ worker'[w].entry = worker[w].entry
    BY <1>2, <1>7 DEF Dial, At, Registers
  <2> QED
    BY <1>1, <2>1 DEF Connected, Dialled
<1>8. CASE Store(w)
  <2> DEFINE e == worker[w].entry
  <2>1. /\ worker[w].pc = "store" /\ e \in Entries /\ Dialled(w).by = w /\ Dialled(w).entry = e
        /\ \A x \in Workers : Dialled(x).by = x
    BY <1>8, WorksWithAnEntry DEF Store, At, Dialled
  <2>2. /\ session'[e] = IF session[e] = None THEN Dialled(w) ELSE session[e]
        /\ \A f \in Entries \ {e} : session'[f] = session[f]
        /\ open' = IF session[e] = None THEN open ELSE open \ {Dialled(w)}
    BY <1>8, <2>1 DEF Store, Typed, Surroundings
  <2>3. worker'[w].pc = "call"
    <3> DEFINE s == session'[e]
    <3> HIDE DEF s
    <3>1. worker' = [worker EXCEPT ![w].pc = "call", ![w].session = s]
      BY <1>8 DEF Store, s
    <3> QED
      BY <1>2, <3>1 DEF Registers
  <2>4. ASSUME NEW f \in Entries, session'[f] # None PROVE session'[f] \in open'
    <3>1. session[e] # Dialled(w) /\ Dialled(w) \in open
      BY <2>1 DEF Connected
    <3>2. CASE f = e
      BY <2>2, <2>4, <3>1, <3>2 DEF Connected
    <3>3. CASE f # e
      <4>1. session[f] \in open
        BY <2>2, <2>4, <3>3 DEF Connected
      <4>2. CASE session[e] = None
        BY <2>2, <3>3, <4>1, <4>2
      <4>3. CASE session[e] # None
        <5>1. session[f] # Dialled(w)
          BY <2>1, <2>2, <2>4, <3>3 DEF Shared
        <5> QED
          BY <2>2, <3>3, <4>1, <4>3, <5>1
      <4> QED
        BY <4>2, <4>3
    <3> QED
      BY <3>2, <3>3
  <2>5. ASSUME NEW x \in Workers \ {w}, worker[x].pc \in {"dial", "store"}
        PROVE  session'[worker[x].entry] # Dialled(x)
    <3>1. worker[x].entry \in Entries /\ session[worker[x].entry] # Dialled(x)
      BY <2>5, WorksWithAnEntry DEF Connected
    <3>2. Dialled(x) # Dialled(w)
      BY <2>1
    <3> QED
      BY <2>2, <3>1, <3>2
  <2>6. ASSUME NEW x \in Workers \ {w}, worker[x].pc = "store"
        PROVE  Dialled(x) \in open'
    <3>1. Dialled(x) \in open /\ Dialled(x) # Dialled(w)
      BY <2>1, <2>6 DEF Connected
    <3> QED
      BY <2>2, <3>1
  <2>7. \A x \in Workers \ {w} : Dialled(x)' = Dialled(x)
    BY <1>1 DEF Dialled
  <2> QED
    BY <1>1, <2>3, <2>4, <2>5, <2>6, <2>7 DEF Connected
<1>9. CASE DialFails(w) \/ Exchange(w) \/ Cancel(w)
  <2>1. UNCHANGED <<session, open>> /\ (Finish(w, "ok") \/ Finish(w, "failed"))
    BY <1>9 DEF DialFails, Exchange, Cancel
  <2>2. worker'[w].pc \in {"idle", "report"}
    BY <2>1, FinishEnds
  <2> QED
    BY <1>3, <2>1, <2>2
<1>10. CASE Report(w)
  BY <1>2, <1>3, <1>10 DEF Report, Waiting
<1> QED
  BY <1>4, <1>5, <1>6, <1>7, <1>8, <1>9, <1>10 DEF Proceed

LEMMA SyncConnected ==
    ASSUME Typed, Shared, Connected, Sync
    PROVE  Connected'
<1>1. CASE Add
  BY <1>1 DEF Add, Connected, Dialled
<1>2. CASE Drop \/ Move
  <2>1. /\ worker' = worker /\ entry \in Entries /\ open' = open \ {session[entry]}
        /\ session' = [session EXCEPT ![entry] = None]
    <3>1. entry # 0 /\ entry \in 0..made /\ made \in 0..MaxEntries
      BY <1>2 DEF Drop, Move, Typed, Surroundings
    <3>2. entry \in Entries
      BY <3>1, MaxEntriesAssumption DEF Entries
    <3> QED
      BY <1>2, <3>2 DEF Drop, Move, Close
  <2>2. \A f \in Entries : session'[f] # None => f # entry /\ session'[f] = session[f]
    BY <2>1 DEF Typed, Surroundings
  <2>3. \A f \in Entries : session'[f] # None => session'[f] \in open'
    <3> SUFFICES ASSUME NEW f \in Entries, session'[f] # None
                 PROVE  session'[f] \in open'
      OBVIOUS
    <3>1. f # entry /\ session'[f] = session[f] /\ session[f].entry = f /\ session[f] \in open
      BY <2>2 DEF Shared, Connected
    <3>2. session[entry] # session[f]
      BY <2>1, <3>1, NoneAssumption DEF Shared, Typed, Surroundings
    <3> QED
      BY <2>1, <3>1, <3>2
  <2>4. ASSUME NEW w \in Workers, worker[w].pc \in {"dial", "store"}
        PROVE  session'[worker[w].entry] # Dialled(w) /\ session[entry] # Dialled(w)
    <3>1. /\ worker[w].entry \in Entries /\ Dialled(w) # None
          /\ session[worker[w].entry] # Dialled(w) /\ Dialled(w).entry = worker[w].entry
      BY <2>4, WorksWithAnEntry, NoneAssumption DEF Connected, Dialled
    <3> QED
      BY <2>1, <3>1 DEF Shared, Typed, Surroundings
  <2> QED
    BY <2>1, <2>3, <2>4 DEF Connected, Dialled
<1> QED
  BY <1>1, <1>2 DEF Sync

LEMMA NextConnected == Typed /\ Shared /\ Connected /\ [Next]_poolVars => Connected'
<1> SUFFICES ASSUME Typed, Shared, Connected, [Next]_poolVars PROVE Connected'
  OBVIOUS
<1>1. CASE Cooldown \/ GoesDownOrUp \/ Lose \/ UNCHANGED poolVars
  BY <1>1 DEF Cooldown, GoesDownOrUp, Lose, poolVars, Connected, Dialled
<1> QED
  BY <1>1, CallConnected, SyncConnected DEF Next

(* The breaker of e is closed, and nothing reported to it later is a failure. *)
Recovered(e) ==
    /\ breaker[e].state = "closed"
    /\ \A w \in Workers : At(w, "report") /\ worker[w].entry = e => worker[w].outcome = "ok"

(* A step of one goroutine that leaves the breakers alone and ends no call badly. *)
LEMMA KeepsRecovered ==
    ASSUME NEW e \in Entries, Recovered(e), UNCHANGED breaker, NEW w \in Workers,
           \A x \in Workers \ {w} : worker'[x] = worker[x],
           worker'[w].pc # "report" \/ worker'[w].entry # e \/ worker'[w].outcome = "ok"
    PROVE  Recovered(e)'
BY DEF Recovered, At

LEMMA CallKeepsRecovered ==
    ASSUME Typed, Shared, Connected, NEW w \in Workers, NEW e \in Entries, Recovered(e),
           up, entry = e, session[e] \notin lost,
           (\E lists \in BOOLEAN : EntryFor(w, lists)) \/ Proceed(w)
    PROVE  Recovered(e)'
<1>1. \A x \in Workers \ {w} : worker'[x] = worker[x]
  BY OthersStand
<1>2. worker \in [Workers -> Registers(made)] /\ worker[w] \in Registers(made)
  BY DEF Typed
<1>3. ASSUME NEW lists \in BOOLEAN, EntryFor(w, lists) PROVE Recovered(e)'
  BY <1>1, <1>2, <1>3, KeepsRecovered DEF EntryFor, Registers
<1>4. CASE Allow(w)
  <2>1. worker'[w].pc \in {"session", "idle"}
    BY <1>2, <1>4 DEF Allow, Registers, Waiting
  <2>2. breaker'[e] = breaker[e]
    BY <1>4 DEF Allow, Admitting, Recovered, Typed, Surroundings
  <2> QED
    BY <1>1, <2>1, <2>2 DEF Recovered, At
<1>5. CASE UseSession(w)
  BY <1>1, <1>2, <1>5, KeepsRecovered DEF UseSession, Registers
<1>6. CASE Dial(w)
  BY <1>1, <1>2, <1>6, KeepsRecovered DEF Dial, Registers
<1>7. CASE DialFails(w)
  BY <1>7 DEF DialFails
<1>8. CASE Store(w)
  <2> DEFINE s == session'[worker[w].entry]
  <2> HIDE DEF s
  <2>1. worker' = [worker EXCEPT ![w].pc = "call", ![w].session = s]
    BY <1>8 DEF Store, s
  <2>2. worker'[w].pc = "call"
    BY <1>2, <2>1 DEF Registers
  <2> QED
    BY <1>1, <1>8, <2>2, KeepsRecovered DEF Store
<1>9. CASE Exchange(w)
  <2>1. UNCHANGED breaker /\ (Finish(w, "ok") \/ Finish(w, "failed"))
    BY <1>9 DEF Exchange
  <2>2. CASE worker[w].entry = e
    <3>1. worker[w].session = session[e] /\ session[e] # None
      BY <1>9, <2>2 DEF Exchange, At, Shared, OneSessionPerEntry
    <3>2. Carries(worker[w].session)
      BY <3>1 DEF Carries, Connected
    <3>3. Finish(w, "ok")
      BY <1>9, <3>2 DEF Exchange
    <3>4. worker'[w].pc = "idle" \/ worker'[w].outcome = "ok"
      BY <3>3, FinishEnds
    <3> QED
      BY <1>1, <2>1, <3>4, KeepsRecovered
  <2>3. CASE worker[w].entry # e
    <3>1. worker'[w].pc = "idle" \/ worker'[w].entry # e
      BY <2>1, <2>3, FinishEnds
    <3> QED
      BY <1>1, <2>1, <3>1, KeepsRecovered
  <2> QED
    BY <2>2, <2>3
<1>10. CASE Report(w)
  <2>1. worker[w].entry \in Entries /\ worker'[w].pc = "idle" /\ worker[w].pc = "report"
    BY <1>2, <1>10, WorksWithAnEntry DEF Report, At, Waiting
  <2>2. breaker'[e].state = "closed"
    <3>1. CASE worker[w].entry = e
      BY <1>10, <2>1, <3>1 DEF Report, Recovered, At, Succeeded, NewBreaker, Typed, Surroundings
    <3>2. CASE worker[w].entry # e
      BY <1>10, <2>1, <3>2 DEF Report, Recovered, Typed, Surroundings
    <3> QED
      BY <3>1, <3>2
  <2> QED
    BY <1>1, <2>1, <2>2 DEF Recovered, At
<1> QED
  BY <1>3, <1>4, <1>5, <1>6, <1>7, <1>8, <1>9, <1>10 DEF Proceed

LEMMA StaysRecovered ==
    ASSUME Typed, Shared, Connected, [Next]_poolVars, NEW e \in Entries, Recovered(e),
           up, entry = e, session[e] \notin lost, cancels' = cancels
    PROVE  Recovered(e)'
<1>1. CASE \E w \in Workers : Cancel(w)
  <2>1. cancels \in Nat /\ cancels' = cancels + 1
    BY <1>1, MaxCancelsAssumption DEF Cancel, Typed, Surroundings
  <2> QED
    BY <2>1
<1>2. CASE Cooldown
  <2>1. worker' = worker /\ breaker'[e].state = breaker[e].state
    BY <1>2 DEF Cooldown, Typed, Surroundings, Breakers
  <2> QED
    BY <2>1 DEF Recovered, At
<1>3. CASE Sync \/ GoesDownOrUp \/ Lose \/ UNCHANGED poolVars
  <2>1. UNCHANGED <<breaker, worker>>
    BY <1>3 DEF Sync, Drop, Move, Add, GoesDownOrUp, Lose, poolVars
  <2> QED
    BY <2>1 DEF Recovered, At
<1> QED
  BY <1>1, <1>2, <1>3, CallKeepsRecovered DEF Next

(* A recovery lasts: once the breaker of the entry in use is closed and no       *)
(* failure is still to be reported to it, no call, race of dials, cooldown or    *)
(* Sync opens it again before the backend goes down, its session is lost or a    *)
(* client gives up: the safety half of BackendsRecover.                          *)
THEOREM RecoveriesLast ==
    Spec => [][\A e \in Entries :
                 Recovered(e) /\ up /\ entry = e /\ session[e] \notin lost /\ cancels' = cancels
                   => Recovered(e)']_poolVars
<1>1. Spec => []Connected
  BY InitConnected, NextConnected, AlwaysTyped, AlwaysShared, PTL DEF Spec
<1>2. Typed /\ Shared /\ Connected /\ [Next]_poolVars =>
        [\A e \in Entries :
           Recovered(e) /\ up /\ entry = e /\ session[e] \notin lost /\ cancels' = cancels
             => Recovered(e)']_poolVars
  BY StaysRecovered
<1> QED
  BY <1>1, <1>2, AlwaysTyped, AlwaysShared, PTL DEF Spec
=============================================================================
