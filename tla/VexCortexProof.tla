--------------------------- MODULE VexCortexProof ---------------------------
(***************************************************************************)
(* Proofs about VexCortex, for any number of mechanisms and of persistent  *)
(* threads, whether or not autonomous routines return before their period  *)
(* is over and whether or not there are emergency stops.                   *)
(***************************************************************************)
EXTENDS VexCortexListProof

Live(t) == run[t] # "final"
Registered(t) == \E i \in Slots : tp[i] = t

-----------------------------------------------------------------------------
(* The inductive invariant.                                                *)

\* A thread has one slot, and the flag that only persistent threads have; an
\* emergency stop takes it from all of them.
TableInv ==
  /\ \A i, j \in Slots : tp[i] = tp[j] /\ tp[i] # NoThread => i = j
  /\ \A i \in Slots : tp[i] # NoThread => elListener[i] = tp[i]
  /\ \A i \in Slots : persistent[i] <=> tp[i] \in Keepers /\ ~ vexKillAll

\* A live thread registers in its first step.  The event is only pending from
\* the broadcast to the next tick, and then finds no thread asleep.
ThreadInv ==
  \A t \in Threads : Live(t) =>
    /\ pc[t] = "begin" <=> ~ Registered(t)
    /\ pc[t] = "begin" => run[t] = "ready" /\ timedOut[t]
    /\ pending[t] => run[t] = "ready" /\ mon = "settle" /\ monRun = "asleep"

\* The monitor broadcasts, or waits for threads and clears their slots: the
\* tick before found every thread asleep.  Then no thread is new.
AfterTick == \/ mon \in {"settle", "reap"} /\ monRun # "asleep"
             \/ mon = "ending" /\ monRun = "ready"
NoneBegins == \A t \in Threads : Live(t) => pc[t] # "begin"

\* The persistent threads have taken their slots: they do so before the monitor
\* runs for the first time.
KeepersBegun == \A k \in Keepers : Live(k) => pc[k] # "begin"

\* The slots the monitor has been to.
Reaped(i) == tp[i] = NoThread \/ (tp[i] \in Keepers /\ ~ vexKillAll)

\* What the monitor knows of the threads, by where it is.
PhaseInv ==
  /\ mon \in {"idle", "select"} => CleanBetweenPhases /\ ~ vexKillAll
  /\ monRun = "ready" \/ mon # "idle" => KeepersBegun
  /\ mon # "reap" => monIdx = 0
  /\ mon = "reap" => /\ monRun # "asleep" /\ ~ Live(User)
                     /\ \A i \in Slots : i < monIdx => Reaped(i)
                     /\ (\E t \in Threads : Live(t)) \/ \A w \in Workers : ~ val[w]
  /\ mon = "killed" => vexKillAll
  /\ EmergencyStopIsFinal
  /\ AfterTick => NoneBegins

\* The user thread: the mechanisms of a phase are created in its second step,
\* which it does not reach once the monitor waits for it.
UserInv ==
  /\ Live(User) /\ pc[User] = "begin" => mon \in {"run", "ending"}
  /\ Live(User) /\ pc[User] \in {"begin", "start"} =>
       \A w \in Workers : ~ Live(w) /\ ~ Registered(w)
  /\ Live(User) /\ pc[User] = "start" /\ mon = "settle" /\ ~ hung =>
       monRun = "asleep" /\ pending[User]
  /\ Live(User) /\ pc[User] = "mode" =>
       ~ locked /\ \A w \in Workers : Live(w) => pc[w] # "move"
  /\ \A w \in Workers : Live(w) /\ pc[w] = "begin" => Registered(User)

\* The persistent threads have the first slots of the table and the user
\* thread the next one, until the monitor clears all after an emergency stop.
Intact == ~ (vexKillAll /\ mon \in {"reap", "killed"})
First(i) == \A j \in Slots : j < i => tp[j] \in Keepers
OrderInv == Intact => \A i \in Slots : tp[i] \in Keepers \cup {User} => First(i)

\* The listener list holds the slots of the live threads.  A routine that has
\* returned leaves its slot on it, and the next one to register closes it.
Listening(i) == tp[i] # NoThread /\ Live(tp[i])
Stale(i) == AutonReturns /\ KeepersBegun /\ tp[i] \in {User, NoThread} /\ (Intact => First(i))
ListOf(n, q) ==
  /\ IsList(elNext, n, q)
  /\ \A i \in Slots : Listening(i) => \E k \in 0 .. (n - 1) : q[k] = i
  /\ \A k \in 0 .. (n - 1) : Listening(q[k]) \/ Stale(q[k])
Doomed == AutonReturns /\ mon \in {"run", "ending"} /\ \E C : Closed(elNext, C)
ListInv == hung \/ Doomed \/ \E n, q : ListOf(n, q)

HungInv == hung => AutonReturns

Inv == /\ TypeOK /\ TableInv /\ ThreadInv /\ PhaseInv /\ UserInv
       /\ OrderInv /\ ListInv /\ HungInv

-----------------------------------------------------------------------------
(* Constants and types.                                                    *)

\* The kinds of threads are disjoint.
LEMMA ThreadFacts ==
  /\ User \in Threads /\ Workers \subseteq Threads /\ Keepers \subseteq Threads
  /\ NoThread \notin Threads /\ User \notin Workers /\ User \notin Keepers
  /\ \A t \in Threads : t = User \/ t \in Workers \/ t \in Keepers
  /\ \A w \in Workers : w \notin Keepers /\ w # User
  BY ThreadsAssumption DEF Threads

\* TypeOK with the Boolean variables one by one.
Types ==
  /\ comp \in [disabled : BOOLEAN, autonomous : BOOLEAN]
  /\ mon \in {"idle", "select", "run", "ending", "settle", "reap", "killed"}
  /\ monRun \in {"ready", "asleep", "waiting"}
  /\ monIdx \in 0 .. MAX_THREAD
  /\ state \in BOOLEAN /\ vexKillAll \in BOOLEAN /\ locked \in BOOLEAN /\ hung \in BOOLEAN
  /\ run \in [Threads -> {"final", "ready", "asleep"}]
  /\ timedOut \in [Threads -> BOOLEAN]
  /\ pending \in [Threads -> BOOLEAN]
  /\ pc \in [Threads -> {"begin", "start", "mode", "loop", "body", "move"}]
  /\ tp \in [Slots -> Threads \cup {NoThread}]
  /\ persistent \in [Slots -> BOOLEAN]
  /\ elNext \in [Node -> Node]
  /\ elListener \in [Slots -> Threads \cup {NoThread}]
  /\ cmd \in [Workers -> BOOLEAN]
  /\ val \in [Workers -> BOOLEAN]

\* It says the same, before and after a step.
LEMMA TypesOK == (TypeOK <=> Types) /\ (TypeOK' <=> Types')
  <1>1. TypeOK <=> Types
    BY Zenon DEF TypeOK, Types, Node
  <1> QED
    BY <1>1, PTL

\* Init establishes the invariant.
LEMMA InitInv == Init => Inv
  <1> SUFFICES ASSUME Init PROVE Inv
    OBVIOUS
  <1> USE DEF Init
  <1>1. TypeOK
    <2>1. state \in BOOLEAN /\ vexKillAll \in BOOLEAN /\ locked \in BOOLEAN /\ hung \in BOOLEAN
      BY Zenon
    <2>2. comp \in [disabled : BOOLEAN, autonomous : BOOLEAN]
      BY Zenon
    <2>3. timedOut \in [Threads -> BOOLEAN] /\ pending \in [Threads -> BOOLEAN]
          /\ persistent \in [Slots -> BOOLEAN]
          /\ cmd \in [Workers -> BOOLEAN] /\ val \in [Workers -> BOOLEAN]
      BY Zenon
    <2>4. elNext \in [Node -> Node]
      BY DEF Node
    <2>5. run \in [Threads -> {"final", "ready", "asleep"}]
          /\ pc \in [Threads -> {"begin", "start", "mode", "loop", "body", "move"}]
          /\ tp \in [Slots -> Threads \cup {NoThread}]
          /\ elListener \in [Slots -> Threads \cup {NoThread}]
      OBVIOUS
    <2>6. monIdx \in 0 .. MAX_THREAD
      BY SlotFacts
    <2> QED
      BY <2>1, <2>2, <2>3, <2>4, <2>5, <2>6, TypesOK DEF Types
  <1>2. \A i \in Slots : tp[i] = NoThread /\ ~ persistent[i]
    BY Zenon
  <1>3. TableInv
    BY <1>2, ThreadFacts DEF TableInv
  <1>4. \A t \in Threads : /\ pc[t] = "begin" /\ timedOut[t] /\ ~ pending[t] /\ ~ Registered(t)
                           /\ Live(t) => t \in Keepers /\ run[t] = "ready"
    <2>1. \A t \in Threads : timedOut[t] /\ ~ pending[t]
      BY Zenon
    <2>2. \A t \in Threads : ~ Registered(t)
      BY <1>2, ThreadFacts DEF Registered
    <2> QED
      BY <2>1, <2>2 DEF Live
  <1>5. ThreadInv
    BY <1>4 DEF ThreadInv
  <1>6. PhaseInv
    BY <1>2, <1>4 DEF PhaseInv, CleanBetweenPhases, EmergencyStopIsFinal, Live, AfterTick
  <1>7. UserInv
    BY <1>4, ThreadFacts DEF UserInv
  <1>8. OrderInv
    BY <1>2, ThreadFacts DEF OrderInv
  <1>9. ListInv
    <2>1. IsList(elNext, 0, [k \in 0 .. (0 - 1) |-> 0])
      BY SlotFacts DEF IsList, Node
    <2>2. ListOf(0, [k \in 0 .. (0 - 1) |-> 0])
      BY <1>2, <2>1 DEF ListOf, Listening
    <2> QED
      BY <2>2 DEF ListInv
  <1> QED
    BY <1>1, <1>3, <1>5, <1>6, <1>7, <1>8, <1>9 DEF Inv, HungInv

-----------------------------------------------------------------------------
(* Frames: what leaves which part of the invariant alone.                  *)

\* The list, as long as neither the links nor the table nor the lives change.
LEMMA ListFrame ==
  ASSUME ListInv, UNCHANGED <<elNext, tp, hung>>, TypeOK,
         \A t \in Threads : Registered(t) => (Live(t)' <=> Live(t)),
         Intact' => Intact, KeepersBegun => KeepersBegun',
         mon \in {"run", "ending"} => mon' \in {"run", "ending"} \/ hung'
                                      \/ \E n, q : ListOf(n, q)
  PROVE  ListInv'
  <1>1. \A i \in Slots : Listening(i)' <=> Listening(i)
    <2>1. \A i \in Slots : tp[i] # NoThread => tp[i] \in Threads /\ Registered(tp[i])
      BY DEF TypeOK, Registered
    <2> QED
      BY <2>1 DEF Listening, TypeOK
  <1>2. \A i \in Slots : Stale(i) => Stale(i)'
    BY DEF Stale, First
  <1>3. ASSUME NEW n, NEW q, ListOf(n, q) PROVE ListOf(n, q)'
    <2>1. \A k \in 0 .. (n - 1) : q[k] \in Slots
      BY <1>3 DEF ListOf, IsList
    <2> QED
      BY <1>1, <1>2, <1>3, <2>1 DEF ListOf, IsList
  <1>4. CASE Doomed /\ mon' \in {"run", "ending"}
    BY <1>4 DEF Doomed, ListInv, Closed
  <1> QED
    BY <1>3, <1>4 DEF ListInv, Doomed

\* The table, as long as it and vexKillAll do not change.
LEMMA TableFrame ==
  ASSUME TableInv, UNCHANGED <<tp, persistent, elListener, vexKillAll>>
  PROVE  TableInv' /\ \A t : Registered(t)' <=> Registered(t)
  BY DEF TableInv, Registered

\* The order of the table, likewise.
LEMMA OrderFrame ==
  ASSUME OrderInv, UNCHANGED tp, Intact' => Intact
  PROVE  OrderInv'
  BY DEF OrderInv, First

\* What a vexSleep does to the thread that calls it, and to no other.
LEMMA EnterSleepFacts ==
  ASSUME TypeOK, NEW t \in Threads, NEW next, EnterSleep(t, next),
         next \in {"begin", "start", "mode", "loop", "body", "move"}
  PROVE  /\ run' \in [Threads -> {"final", "ready", "asleep"}]
         /\ timedOut' \in [Threads -> BOOLEAN]
         /\ pending' \in [Threads -> BOOLEAN]
         /\ pc' \in [Threads -> {"begin", "start", "mode", "loop", "body", "move"}]
         /\ \A u \in Threads : u # t => /\ run'[u] = run[u] /\ pc'[u] = pc[u]
                                        /\ pending'[u] <=> pending[u]
                                        /\ timedOut'[u] <=> timedOut[u]
         /\ run'[t] \in {"ready", "asleep"} /\ pc'[t] = next
         /\ pending'[t] <=> pending[t] /\ timedOut[t]
         /\ pending'[t] => run'[t] = "ready"
  <1>1. pending' \in [Threads -> BOOLEAN] /\ timedOut' \in [Threads -> BOOLEAN]
    <2>1. pending \in [Threads -> BOOLEAN] /\ timedOut \in [Threads -> BOOLEAN]
      BY DEF TypeOK
    <2>2. StillPending(t) \in BOOLEAN
      BY DEF StillPending
    <2> QED
      BY <2>1, <2>2, Zenon DEF EnterSleep
  <1>2. run' \in [Threads -> {"final", "ready", "asleep"}]
        /\ pc' \in [Threads -> {"begin", "start", "mode", "loop", "body", "move"}]
    BY DEF EnterSleep, SleepState, TypeOK
  <1>3. \A u \in Threads : u # t => /\ run'[u] = run[u] /\ pc'[u] = pc[u]
                                    /\ pending'[u] <=> pending[u]
                                    /\ timedOut'[u] <=> timedOut[u]
    <2>1. /\ run \in [Threads -> {"final", "ready", "asleep"}]
          /\ pc \in [Threads -> {"begin", "start", "mode", "loop", "body", "move"}]
          /\ pending \in [Threads -> BOOLEAN] /\ timedOut \in [Threads -> BOOLEAN]
      BY Zenon DEF TypeOK
    <2>2. \A u \in Threads : u # t => run'[u] = run[u] /\ pc'[u] = pc[u]
      BY <2>1, Zenon DEF EnterSleep
    <2>3. \A u \in Threads : u # t => (pending'[u] <=> pending[u])
      BY <2>1, Zenon DEF EnterSleep
    <2>4. \A u \in Threads : u # t => (timedOut'[u] <=> timedOut[u])
      BY <2>1, Zenon DEF EnterSleep
    <2> QED
      BY <2>2, <2>3, <2>4, Zenon
  <1>4. pending'[t] <=> pending[t] /\ timedOut[t]
    <2>1. pending' = [pending EXCEPT ![t] = StillPending(t)] /\ pending \in [Threads -> BOOLEAN]
      BY Zenon DEF EnterSleep, TypeOK
    <2> QED
      BY <2>1, Zenon DEF StillPending
  <1>5. pc'[t] = next /\ run'[t] = SleepState(t)
    BY DEF EnterSleep, TypeOK
  <1>6. run'[t] \in {"ready", "asleep"} /\ (pending'[t] => run'[t] = "ready")
    BY <1>4, <1>5 DEF SleepState, StillPending
  <1> QED
    BY <1>1, <1>2, <1>3, <1>4, <1>5, <1>6

\* A round of a thread that is registered: it may give commands, and sleeps
\* again.
LEMMA RoundInv ==
  ASSUME Inv, NEW t \in Threads, NEW next, Awake(t), EnterSleep(t, next),
         pc[t] # "begin", next \in {"mode", "loop", "body", "move"},
         t = User => next = pc[t],
         next = "move" => locked,
         UNCHANGED <<comp, monVars, tblVars, hung, locked>>,
         cmd' \in [Workers -> BOOLEAN], val' \in [Workers -> BOOLEAN]
  PROVE  Inv'
  <1> USE DEF monVars, tblVars
  <1>1. TypeOK /\ TypeOK'
    BY EnterSleepFacts, TypesOK DEF Inv, Types
  <1>2. run[t] = "ready" /\ \A u \in Threads : Live(u)' <=> Live(u)
    BY <1>1, EnterSleepFacts DEF Awake, Running, Live
  <1>3. TableInv' /\ \A u : Registered(u)' <=> Registered(u)
    BY TableFrame DEF Inv
  <1>4. \A u \in Threads : /\ pc'[u] = "begin" <=> pc[u] = "begin"
                           /\ u # t => pc'[u] = pc[u]
                           /\ pc'[t] = next
    BY <1>1, EnterSleepFacts
  <1>5. KeepersBegun => KeepersBegun'
    BY <1>2, <1>4, ThreadFacts DEF KeepersBegun
  <1>6. ThreadInv'
    <2> SUFFICES ASSUME NEW u \in Threads, Live(u)'
                 PROVE  /\ pc'[u] = "begin" <=> ~ Registered(u)'
                        /\ pc'[u] = "begin" => run'[u] = "ready" /\ timedOut'[u]
                        /\ pending'[u] => run'[u] = "ready" /\ mon' = "settle" /\ monRun' = "asleep"
      BY DEF ThreadInv
    <2>1. CASE u = t
      BY <1>1, <1>2, <1>3, <1>4, <2>1, EnterSleepFacts DEF Inv, ThreadInv
    <2>2. CASE u # t
      BY <1>1, <1>2, <1>3, <1>4, <2>2, EnterSleepFacts DEF Inv, ThreadInv
    <2> QED
      BY <2>1, <2>2
  <1>7. PhaseInv'
    <2>1. mon # "killed" /\ Live(t)
      BY <1>2 DEF Inv, PhaseInv, EmergencyStopIsFinal, Live
    <2>2. CleanBetweenPhases' <=> CleanBetweenPhases
      BY <1>2, ThreadFacts DEF CleanBetweenPhases, Live
    <2>3. NoneBegins' <=> NoneBegins
      BY <1>2, <1>4 DEF NoneBegins
    <2> QED
      BY <1>2, <1>5, <2>1, <2>2, <2>3, ThreadFacts
      DEF Inv, PhaseInv, EmergencyStopIsFinal, Reaped, AfterTick
  <1>8. UserInv'
    <2>1. pc'[User] = pc[User] /\ (Live(User)' <=> Live(User))
      BY <1>2, <1>4, ThreadFacts
    <2>2. pc[User] = "start" => (pending'[User] <=> pending[User])
      BY <1>1, ThreadFacts, EnterSleepFacts
    <2>3. \A w \in Workers : /\ Live(w)' <=> Live(w)
                             /\ pc'[w] = "begin" <=> pc[w] = "begin"
                             /\ ~ locked => (pc'[w] = "move" => pc[w] = "move")
      BY <1>2, <1>4, ThreadFacts
    <2> QED
      BY <1>3, <2>1, <2>2, <2>3 DEF Inv, UserInv
  <1>9. OrderInv' /\ ListInv' /\ HungInv'
    BY <1>1, <1>2, <1>5, ListFrame, OrderFrame DEF Inv, Intact, HungInv
  <1> QED
    BY <1>1, <1>3, <1>6, <1>7, <1>8, <1>9 DEF Inv

\* SetMotor keeps the types of the commands and the values.
LEMMA SetMotorTypes ==
  ASSUME TypeOK, NEW w \in Workers, NEW nonzero \in BOOLEAN, NEW immediate \in BOOLEAN,
         SetMotor(w, nonzero, immediate)
  PROVE  cmd' \in [Workers -> BOOLEAN] /\ val' \in [Workers -> BOOLEAN]
  <1>1. cmd \in [Workers -> BOOLEAN] /\ val \in [Workers -> BOOLEAN]
    BY DEF TypeOK
  <1>2. CASE immediate = TRUE
    BY <1>1, <1>2, Zenon DEF SetMotor
  <1>3. CASE immediate = FALSE
    <2>1. val' = [val EXCEPT ![w] = val[w]] /\ cmd' = [cmd EXCEPT ![w] = nonzero]
      BY <1>3, Zenon DEF SetMotor
    <2>2. val[w] \in BOOLEAN
      BY <1>1, Zenon
    <2> QED
      BY <1>1, <2>1, <2>2, Zenon
  <1> QED
    BY <1>2, <1>3, Zenon

\* The rounds of the user thread, of the mechanisms and of the persistent
\* threads.
LEMMA RoundsInv ==
  ASSUME Inv, NEW t \in Threads,
         \/ t = User /\ (UserMode \/ UserLoop)
         \/ t \in Workers /\ (WorkerBody(t) \/ WorkerPause(t) \/ WorkerMove(t))
         \/ t \in Keepers /\ KeeperBody(t)
  PROVE  Inv'
  <1>1. TypeOK /\ cmd \in [Workers -> BOOLEAN] /\ val \in [Workers -> BOOLEAN]
    BY DEF Inv, TypeOK
  <1>2. CASE t = User /\ UserMode
    <2>1. cmd' \in [Workers -> BOOLEAN] /\ val' \in [Workers -> BOOLEAN]
      BY <1>1, <1>2, SetMotorTypes DEF UserMode
    <2> QED
      BY <1>2, <2>1, RoundInv DEF UserMode
  <1>3. CASE t = User /\ UserLoop
    BY <1>1, <1>3, RoundInv DEF UserLoop, motVars
  <1>4. CASE t \in Workers /\ WorkerBody(t)
    <2>1. cmd' \in [Workers -> BOOLEAN] /\ val' \in [Workers -> BOOLEAN]
      BY <1>1, <1>4, SetMotorTypes DEF WorkerBody
    <2> QED
      BY <1>4, <2>1, RoundInv, ThreadFacts DEF WorkerBody
  <1>5. CASE t \in Workers /\ WorkerPause(t)
    BY <1>1, <1>5, RoundInv, ThreadFacts DEF WorkerPause, motVars
  <1>6. CASE t \in Workers /\ WorkerMove(t)
    <2>1. cmd' \in [Workers -> BOOLEAN] /\ val' \in [Workers -> BOOLEAN]
      BY <1>1, <1>6, SetMotorTypes DEF WorkerMove
    <2> QED
      BY <1>6, <2>1, RoundInv, ThreadFacts DEF WorkerMove
  <1>7. CASE t \in Keepers /\ KeeperBody(t)
    <2>1. val' \in [Workers -> BOOLEAN]
      BY <1>7, Zenon DEF KeeperBody, Slewed
    <2> QED
      BY <1>1, <1>7, <2>1, RoundInv, ThreadFacts DEF KeeperBody
  <1> QED
    BY <1>2, <1>3, <1>4, <1>5, <1>6, <1>7

-----------------------------------------------------------------------------
(* Registering.                                                            *)

\* A thread that is not in the table finds a slot.
LEMMA SlotForAll ==
  ASSUME TypeOK, TableInv, NEW t \in Threads, ~ Registered(t)
  PROVE  \E i \in Slots : tp[i] = NoThread
  <1> SUFFICES ASSUME \A i \in Slots : tp[i] # NoThread PROVE FALSE
    OBVIOUS
  <1>1. tp \in [Slots -> Threads \ {t}]
    BY DEF TypeOK, Registered
  <1>2. tp \in Injection(Slots, Threads \ {t})
    BY <1>1 DEF Injection, IsInjective, TableInv
  <1>3. /\ IsFiniteSet(Threads \ {t}) /\ Cardinality(Threads \ {t}) = Cardinality(Threads) - 1
        /\ Cardinality(Threads) \in Nat
    BY SlotsAssumption, FS_RemoveElement, FS_CardinalityType
  <1>4. MAX_THREAD <= Cardinality(Threads) - 1
    BY <1>2, <1>3, SlotFacts, FS_Injection
  <1> QED
    BY <1>3, <1>4, SlotsAssumption, SlotFacts

\* vexTaskRegisterPersistant takes the first free slot for it.
LEMMA RegisterFacts ==
  ASSUME TypeOK, TableInv, NEW t \in Threads, ~ Registered(t), NEW p \in BOOLEAN,
         vexTaskRegisterPersistant(t, p)
  PROVE  \E i \in Slots :
           /\ tp[i] = NoThread /\ \A j \in Slots : j < i => tp[j] # NoThread
           /\ tp' = [tp EXCEPT ![i] = t]
           /\ persistent' = [persistent EXCEPT ![i] = p]
           /\ elNext' = EvtRegister(elNext, i)
           /\ elListener' = [elListener EXCEPT ![i] = t]
  <1>1. SlotsOf(t) = {}
    BY DEF SlotsOf, Registered
  <1>2. FreeSlots # {} /\ FreeSlots \in SUBSET Nat /\ FreeSlots = {i \in Slots : tp[i] = NoThread}
    BY SlotForAll, SlotFacts DEF FreeSlots, SlotsOf
  <1>3. Min(FreeSlots) \in FreeSlots /\ \A j \in FreeSlots : Min(FreeSlots) <= j
    BY <1>2, MinFacts
  <1> DEFINE i == Min(FreeSlots)
  <1>4. i \in Slots /\ tp[i] = NoThread
    BY <1>2, <1>3
  <1>5. \A j \in Slots : j < i => tp[j] # NoThread
    BY <1>2, <1>3, <1>4, SlotFacts
  <1>6. /\ tp' = [tp EXCEPT ![i] = t]
        /\ persistent' = [persistent EXCEPT ![i] = p]
        /\ elNext' = EvtRegister(elNext, i)
        /\ elListener' = [elListener EXCEPT ![i] = t]
    BY <1>1, <1>2 DEF vexTaskRegisterPersistant
  <1> QED
    BY <1>4, <1>5, <1>6

\* A live thread that registers: its slot is the first free one.  If that is a
\* slot which a returned routine left on the list, the list is closed.
LEMMA RegisterInv ==
  ASSUME Inv, NEW t \in Threads, NEW p \in BOOLEAN, vexTaskRegisterPersistant(t, p),
         Live(t), pc[t] = "begin", p <=> t \in Keepers /\ ~ vexKillAll, ~ hung,
         Intact, UNCHANGED <<mon, vexKillAll, hung>>,
         \A u \in Threads : Live(u)' <=> Live(u), KeepersBegun => KeepersBegun',
         t = User => mon \in {"run", "ending"},
         t # User => \A i \in Slots : tp[i] = NoThread => ~ Stale(i),
         t \in Keepers \cup {User} => \A i \in Slots : tp[i] \in Keepers \cup {NoThread}
  PROVE  /\ tp' \in [Slots -> Threads \cup {NoThread}]
         /\ persistent' \in [Slots -> BOOLEAN]
         /\ elNext' \in [Node -> Node]
         /\ elListener' \in [Slots -> Threads \cup {NoThread}]
         /\ \A u \in Threads : Registered(u)' <=> Registered(u) \/ u = t
         /\ \A i \in Slots : tp[i] # NoThread => tp'[i] = tp[i]
         /\ \A i \in Slots : tp'[i] \in {tp[i], t}
         /\ TableInv' /\ OrderInv' /\ ListInv'
  <1>1. TypeOK /\ TableInv /\ ~ Registered(t)
    BY DEF Inv, ThreadInv
  <1>2. PICK i \in Slots :
           /\ tp[i] = NoThread /\ \A j \in Slots : j < i => tp[j] # NoThread
           /\ tp' = [tp EXCEPT ![i] = t]
           /\ persistent' = [persistent EXCEPT ![i] = p]
           /\ elNext' = EvtRegister(elNext, i)
           /\ elListener' = [elListener EXCEPT ![i] = t]
    BY <1>1, RegisterFacts
  <1>3. /\ tp \in [Slots -> Threads \cup {NoThread}] /\ persistent \in [Slots -> BOOLEAN]
        /\ elNext \in [Node -> Node] /\ elListener \in [Slots -> Threads \cup {NoThread}]
    BY <1>1, TypesOK DEF Types
  <1>4. /\ tp' \in [Slots -> Threads \cup {NoThread}]
        /\ elNext' \in [Node -> Node]
        /\ elListener' \in [Slots -> Threads \cup {NoThread}]
        /\ tp'[i] = t /\ elListener'[i] = t
        /\ \A j \in Slots : j # i => tp'[j] = tp[j] /\ elListener'[j] = elListener[j]
    BY <1>2, <1>3 DEF EvtRegister, Node
  <1>5. persistent' \in [Slots -> BOOLEAN] /\ (persistent'[i] <=> p)
        /\ \A j \in Slots : j # i => (persistent'[j] <=> persistent[j])
    BY <1>2, <1>3, Zenon
  <1>6. \A u \in Threads : Registered(u)' <=> Registered(u) \/ u = t
    BY <1>2, <1>4, ThreadFacts DEF Registered
  <1>7. TableInv'
    <2>1. \A j, k \in Slots : tp'[j] = tp'[k] /\ tp'[j] # NoThread => j = k
      BY <1>1, <1>2, <1>4 DEF TableInv, Registered
    <2>2. \A j \in Slots : tp'[j] # NoThread => elListener'[j] = tp'[j]
      BY <1>1, <1>4 DEF TableInv
    <2>3. \A j \in Slots : persistent'[j] <=> tp'[j] \in Keepers /\ ~ vexKillAll'
      BY <1>1, <1>4, <1>5 DEF TableInv
    <2> QED
      BY <2>1, <2>2, <2>3 DEF TableInv
  <1>8. Intact' /\ \A j \in Slots : First(j) => First(j)'
    <2>1. Intact'
      BY DEF Intact
    <2>2. \A j \in Slots : tp[j] \in Keepers => tp'[j] \in Keepers
      BY <1>2, <1>4, ThreadFacts
    <2> QED
      BY <2>1, <2>2 DEF First
  <1>9. OrderInv'
    <2> SUFFICES ASSUME NEW j \in Slots, tp'[j] \in Keepers \cup {User} PROVE First(j)'
      BY DEF OrderInv
    <2>1. CASE j # i
      BY <1>4, <1>8, <2>1 DEF Inv, OrderInv
    <2>2. CASE j = i
      <3>1. \A k \in Slots : k < i => tp[k] \in Keepers
        BY <1>2, <1>4, <2>2
      <3> QED
        BY <1>8, <2>2, <3>1 DEF First
    <2> QED
      BY <2>1, <2>2
  <1>10. \A j \in Slots : /\ j # i => (Listening(j)' <=> Listening(j))
                          /\ ~ Listening(i) /\ Listening(i)'
                          /\ j # i /\ Stale(j) => Stale(j)'
    <2>1. \A j \in Slots : j # i => (Listening(j)' <=> Listening(j))
      BY <1>3, <1>4 DEF Listening
    <2>2. ~ Listening(i) /\ Listening(i)'
      BY <1>2, <1>4, ThreadFacts DEF Listening
    <2>3. \A j \in Slots : j # i /\ Stale(j) => Stale(j)'
      BY <1>4, <1>8 DEF Stale
    <2> QED
      BY <2>1, <2>2, <2>3
  <1>11. ListInv'
    <2>1. CASE Doomed
      <3>1. PICK C : Closed(elNext, C)
        BY <2>1 DEF Doomed
      <3>2. Closed(elNext', C \cup {i})
        BY <1>2, <1>3, <3>1, RegisterClosed
      <3>3. Doomed'
        BY <2>1, <3>2 DEF Doomed
      <3> QED
        BY <3>3 DEF ListInv
    <2>2. ASSUME NEW n, NEW q, ListOf(n, q), NEW a \in 0 .. (n - 1), q[a] = i PROVE Doomed'
      <3>1. IsList(elNext, n, q) /\ Stale(i)
        BY <1>10, <2>2 DEF ListOf, Listening, Stale, First
      <3>2. t = User /\ AutonReturns
        BY <1>2, <3>1 DEF Stale
      <3>3. \E C : Closed(elNext', C)
        BY <1>2, <1>3, <2>2, <3>1, RegisterAgain
      <3> QED
        BY <3>2, <3>3 DEF Doomed
    <2>3. ASSUME NEW n, NEW q, ListOf(n, q), \A k \in 0 .. (n - 1) : q[k] # i
          PROVE  \E m, r : ListOf(m, r)'
      <3> DEFINE r == [k \in 0 .. n |-> IF k = 0 THEN i ELSE q[k - 1]]
      <3>1. IsList(elNext, n, q) /\ n \in Nat /\ \A k \in 0 .. (n - 1) : q[k] \in Slots
        BY <2>3, SlotFacts DEF ListOf, IsList
      <3>2. IsList(elNext', n + 1, r)
        BY <1>2, <1>3, <2>3, <3>1, RegisterList
      <3>3. r[0] = i /\ \A k \in 0 .. (n - 1) : r[k + 1] = q[k] /\ k + 1 \in 0 .. n
        BY <3>1
      <3>4. \A k \in 0 .. n : r[k] = i \/ \E l \in 0 .. (n - 1) : r[k] = q[l]
        <4>1. ASSUME NEW k \in 0 .. n, k # 0 PROVE k - 1 \in 0 .. (n - 1) /\ r[k] = q[k - 1]
          BY <3>1, <4>1
        <4> QED
          BY <3>3, <4>1
      <3> HIDE DEF r
      <3>5. \A j \in Slots : Listening(j)' => \E k \in 0 .. n : r[k] = j
        <4> SUFFICES ASSUME NEW j \in Slots, Listening(j)' PROVE \E k \in 0 .. n : r[k] = j
          OBVIOUS
        <4>1. CASE j = i
          BY <3>1, <3>3, <4>1
        <4>2. CASE j # i
          <5>1. PICK k \in 0 .. (n - 1) : q[k] = j
            BY <1>10, <2>3, <4>2 DEF ListOf, Listening
          <5> QED
            BY <3>3, <5>1
        <4> QED
          BY <4>1, <4>2
      <3>6. \A k \in 0 .. n : Listening(r[k])' \/ Stale(r[k])'
        BY <1>10, <2>3, <3>1, <3>4 DEF ListOf, Listening, Stale, First
      <3>7. (n + 1) - 1 = n
        BY <3>1
      <3>8. ListOf(n + 1, r)'
        BY <3>2, <3>5, <3>6, <3>7 DEF ListOf
      <3> QED
        BY <3>8
    <2> QED
      BY <2>1, <2>2, <2>3 DEF Inv, ListInv
  <1>12. \A j \in Slots : (tp[j] # NoThread => tp'[j] = tp[j]) /\ tp'[j] \in {tp[j], t}
    BY <1>2, <1>4
  <1> QED
    BY <1>4, <1>5, <1>6, <1>7, <1>9, <1>11, <1>12

\* vexAutonomous and vexOperator register while the mechanisms of the last phase
\* are gone from the table.
LEMMA UserBeginInv ==
  ASSUME Inv, UserBegin
  PROVE  Inv'
  <1> USE DEF UserBegin, monVars, motVars
  <1>1. TypeOK /\ User \in Threads /\ ~ hung /\ monRun # "ready" /\ run[User] = "ready"
    BY ThreadFacts DEF Inv, Awake, Running
  <1>2. Live(User) /\ pc[User] = "begin" /\ mon \in {"run", "ending"} /\ ~ pending[User]
    BY <1>1 DEF Inv, UserInv, ThreadInv, Live
  <1>3. \A u \in Threads : (Live(u)' <=> Live(u)) /\ (u # User => pc'[u] = pc[u])
    BY <1>1, EnterSleepFacts DEF Live
  <1>4. KeepersBegun' <=> KeepersBegun
    BY <1>3, ThreadFacts DEF KeepersBegun
  <1>5. \A i \in Slots : tp[i] \in Keepers \cup {NoThread}
    <2>1. \A i \in Slots : tp[i] \in Threads \cup {NoThread}
      BY <1>1 DEF TypeOK
    <2>2. \A i \in Slots : tp[i] # User /\ tp[i] \notin Workers
      BY <1>1, <1>2 DEF Inv, UserInv, ThreadInv, Registered
    <2> QED
      BY <2>1, <2>2, ThreadFacts
  <1>6. Intact
    BY <1>2 DEF Intact
  <1>7. /\ tp' \in [Slots -> Threads \cup {NoThread}]
        /\ persistent' \in [Slots -> BOOLEAN]
        /\ elNext' \in [Node -> Node]
        /\ elListener' \in [Slots -> Threads \cup {NoThread}]
        /\ \A u \in Threads : Registered(u)' <=> Registered(u) \/ u = User
        /\ \A i \in Slots : tp'[i] \in {tp[i], User}
        /\ TableInv' /\ OrderInv' /\ ListInv'
    BY <1>1, <1>2, <1>3, <1>4, <1>5, <1>6, ThreadFacts, RegisterInv
  <1>8. TypeOK'
    BY <1>1, <1>7, EnterSleepFacts, TypesOK DEF Types
  <1>9. ThreadInv'
    <2> SUFFICES ASSUME NEW u \in Threads, Live(u)'
                 PROVE  /\ pc'[u] = "begin" <=> ~ Registered(u)'
                        /\ pc'[u] = "begin" => run'[u] = "ready" /\ timedOut'[u]
                        /\ pending'[u] => run'[u] = "ready" /\ mon' = "settle" /\ monRun' = "asleep"
      BY DEF ThreadInv
    <2>1. CASE u = User
      BY <1>1, <1>2, <1>7, <2>1, EnterSleepFacts
    <2>2. CASE u # User
      BY <1>1, <1>3, <1>7, <2>2, EnterSleepFacts DEF Inv, ThreadInv
    <2> QED
      BY <2>1, <2>2
  <1>10. PhaseInv'
    BY <1>1, <1>2, <1>4 DEF Inv, PhaseInv, EmergencyStopIsFinal, AfterTick
  <1>11. UserInv'
    <2>1. pc'[User] = "start"
      BY <1>1, EnterSleepFacts
    <2>2. \A w \in Workers : ~ Live(w)' /\ ~ Registered(w)'
      BY <1>2, <1>3, <1>7, ThreadFacts DEF Inv, UserInv
    <2> QED
      BY <1>2, <2>1, <2>2 DEF UserInv
  <1> QED
    BY <1>7, <1>8, <1>9, <1>10, <1>11 DEF Inv, HungInv

\* A thread that registers and goes on: its pc and the table change.
LEMMA BeginFacts ==
  ASSUME Inv, NEW t \in Threads, Awake(t), pc[t] = "begin", pc' = [pc EXCEPT ![t] = "body"],
         UNCHANGED <<run, timedOut, pending>>
  PROVE  /\ Live(t) /\ ~ hung /\ monRun # "ready"
         /\ \A u \in Threads : (Live(u)' <=> Live(u)) /\ (u # t => pc'[u] = pc[u])
         /\ pc'[t] = "body"
         /\ pc' \in [Threads -> {"begin", "start", "mode", "loop", "body", "move"}]
         /\ KeepersBegun => KeepersBegun'
         /\ NoneBegins => NoneBegins'
         /\ (\A u \in Threads : Registered(u)' <=> Registered(u) \/ u = t)
            /\ UNCHANGED <<mon, monRun>> => ThreadInv'
  <1>1. pc \in [Threads -> {"begin", "start", "mode", "loop", "body", "move"}]
    BY DEF Inv, TypeOK
  <1>2. Live(t) /\ ~ hung /\ monRun # "ready"
    BY DEF Awake, Running, Live
  <1>3. /\ \A u \in Threads : (Live(u)' <=> Live(u)) /\ (u # t => pc'[u] = pc[u])
        /\ pc'[t] = "body"
        /\ pc' \in [Threads -> {"begin", "start", "mode", "loop", "body", "move"}]
    BY <1>1 DEF Live
  <1>4. KeepersBegun => KeepersBegun'
    BY <1>3, ThreadFacts DEF KeepersBegun
  <1>5. NoneBegins => NoneBegins'
    BY <1>3 DEF NoneBegins
  <1>6. ASSUME \A u \in Threads : Registered(u)' <=> Registered(u) \/ u = t,
               UNCHANGED <<mon, monRun>>
        PROVE  ThreadInv'
    BY <1>3, <1>6 DEF Inv, ThreadInv
  <1> QED
    BY <1>2, <1>3, <1>4, <1>5, <1>6

\* A mechanism registers while the user thread that created it, or the routine
\* that has returned since, still has its slot.
LEMMA WorkerBeginInv ==
  ASSUME Inv, NEW w \in Workers, WorkerBegin(w)
  PROVE  Inv'
  <1> USE DEF WorkerBegin, monVars, motVars
  <1>1. TypeOK /\ w \in Threads /\ w # User /\ w \notin Keepers
    BY ThreadFacts DEF Inv
  <1>2. /\ Live(w) /\ ~ hung /\ monRun # "ready"
        /\ \A u \in Threads : (Live(u)' <=> Live(u)) /\ (u # w => pc'[u] = pc[u])
        /\ pc'[w] = "body"
        /\ pc' \in [Threads -> {"begin", "start", "mode", "loop", "body", "move"}]
        /\ KeepersBegun => KeepersBegun'
        /\ NoneBegins => NoneBegins'
    BY <1>1, BeginFacts
  <1>3. mon \notin {"idle", "select", "reap", "killed"}
    <2>1. mon \notin {"idle", "select"}
      BY <1>1, <1>2 DEF Inv, PhaseInv, CleanBetweenPhases, Live
    <2>2. mon # "killed"
      BY <1>1, <1>2 DEF Inv, PhaseInv, EmergencyStopIsFinal, Live
    <2>3. mon # "reap"
      BY <1>1, <1>2 DEF Inv, PhaseInv, AfterTick, NoneBegins
    <2> QED
      BY <2>1, <2>2, <2>3
  <1>4. Intact
    BY <1>3 DEF Intact
  <1>5. \A i \in Slots : tp[i] = NoThread => ~ Stale(i)
    <2>1. PICK u \in Slots : tp[u] = User
      BY <1>2 DEF Inv, UserInv, Registered
    <2>2. First(u)
      BY <1>4, <2>1 DEF Inv, OrderInv
    <2>3. ASSUME NEW i \in Slots, tp[i] = NoThread, Stale(i) PROVE FALSE
      <3>1. First(i)
        BY <1>4, <2>3 DEF Stale
      <3>2. i < u \/ u < i
        BY <2>1, <2>3, ThreadFacts, SlotFacts
      <3> QED
        BY <2>1, <2>2, <2>3, <3>1, <3>2, ThreadFacts DEF First
    <2> QED
      BY <2>3
  <1>6. /\ tp' \in [Slots -> Threads \cup {NoThread}]
        /\ persistent' \in [Slots -> BOOLEAN]
        /\ elNext' \in [Node -> Node]
        /\ elListener' \in [Slots -> Threads \cup {NoThread}]
        /\ \A u \in Threads : Registered(u)' <=> Registered(u) \/ u = w
        /\ TableInv' /\ OrderInv' /\ ListInv'
    BY <1>1, <1>2, <1>4, <1>5, RegisterInv
  <1>7. TypeOK'
    BY <1>1, <1>2, <1>6, TypesOK DEF Types
  <1>8. ThreadInv'
    BY <1>1, <1>6, BeginFacts
  <1>9. PhaseInv'
    BY <1>2, <1>3 DEF Inv, PhaseInv, EmergencyStopIsFinal, AfterTick
  <1>10. UserInv'
    <2>1. pc'[User] = pc[User] /\ (Live(User)' <=> Live(User)) /\ (Registered(User) => Registered(User)')
      BY <1>1, <1>2, <1>6, ThreadFacts
    <2>2. ~ (Live(User) /\ pc[User] \in {"begin", "start"})
      BY <1>2 DEF Inv, UserInv
    <2>3. \A v \in Workers : /\ Live(v)' <=> Live(v)
                             /\ pc'[v] = "begin" => pc[v] = "begin"
                             /\ pc'[v] = "move" => pc[v] = "move"
      BY <1>1, <1>2, ThreadFacts
    <2> QED
      BY <2>1, <2>2, <2>3 DEF Inv, UserInv
  <1> QED
    BY <1>6, <1>7, <1>8, <1>9, <1>10 DEF Inv, HungInv

\* The persistent threads register first of all.
LEMMA KeeperBeginInv ==
  ASSUME Inv, NEW k \in Keepers, KeeperBegin(k)
  PROVE  Inv'
  <1> USE DEF KeeperBegin, monVars
  <1>1. TypeOK /\ k \in Threads /\ k # User
    BY ThreadFacts DEF Inv
  <1>2. /\ Live(k) /\ ~ hung /\ monRun # "ready"
        /\ \A u \in Threads : (Live(u)' <=> Live(u)) /\ (u # k => pc'[u] = pc[u])
        /\ pc'[k] = "body"
        /\ pc' \in [Threads -> {"begin", "start", "mode", "loop", "body", "move"}]
        /\ KeepersBegun => KeepersBegun'
        /\ NoneBegins => NoneBegins'
    BY <1>1, BeginFacts
  <1>3. ~ KeepersBegun
    BY <1>1, <1>2 DEF KeepersBegun
  <1>4. mon = "idle" /\ CleanBetweenPhases /\ ~ vexKillAll
    BY <1>3 DEF Inv, PhaseInv
  <1>5. Intact /\ \A i \in Slots : ~ Stale(i)
    BY <1>3, <1>4 DEF Intact, Stale
  <1>6. \A i \in Slots : tp[i] \in Keepers \cup {NoThread}
    BY <1>4 DEF CleanBetweenPhases
  <1>7. /\ tp' \in [Slots -> Threads \cup {NoThread}]
        /\ persistent' \in [Slots -> BOOLEAN]
        /\ elNext' \in [Node -> Node]
        /\ elListener' \in [Slots -> Threads \cup {NoThread}]
        /\ \A u \in Threads : Registered(u)' <=> Registered(u) \/ u = k
        /\ \A i \in Slots : tp'[i] \in {tp[i], k}
        /\ TableInv' /\ OrderInv' /\ ListInv'
    BY <1>1, <1>2, <1>4, <1>5, <1>6, RegisterInv
  <1>8. TypeOK'
    <2>1. cmd' \in [Workers -> BOOLEAN]
      BY Zenon
    <2> QED
      BY <1>1, <1>2, <1>7, <2>1, TypesOK DEF Types
  <1>9. ThreadInv'
    BY <1>1, <1>7, BeginFacts
  <1>10. PhaseInv'
    <2>1. CleanBetweenPhases'
      BY <1>2, <1>4, <1>7, ThreadFacts DEF CleanBetweenPhases, Live
    <2> QED
      BY <1>2, <1>4, <2>1 DEF Inv, PhaseInv, EmergencyStopIsFinal, AfterTick
  <1>11. UserInv'
    <2>1. ~ Live(User)' /\ \A w \in Workers : ~ Live(w)'
      BY <1>2, <1>4, ThreadFacts DEF CleanBetweenPhases, Live
    <2> QED
      BY <2>1 DEF UserInv
  <1> QED
    BY <1>7, <1>8, <1>9, <1>10, <1>11 DEF Inv, HungInv

-----------------------------------------------------------------------------
(* Creating threads.                                                       *)

\* chThdCreateStatic makes of ts new threads, and leaves the others alone.
LEMMA CreateFacts ==
  ASSUME TypeOK, NEW ts \in SUBSET Threads,
         NEW other \in [Threads -> {"begin", "start", "mode", "loop", "body", "move"}],
         Create(ts, other)
  PROVE  /\ run' \in [Threads -> {"final", "ready", "asleep"}]
         /\ timedOut' \in [Threads -> BOOLEAN]
         /\ pending' \in [Threads -> BOOLEAN]
         /\ pc' \in [Threads -> {"begin", "start", "mode", "loop", "body", "move"}]
         /\ \A u \in Threads \ ts : /\ run'[u] = run[u] /\ pc'[u] = other[u]
                                    /\ pending'[u] <=> pending[u]
                                    /\ timedOut'[u] <=> timedOut[u]
         /\ \A u \in ts : run'[u] = "ready" /\ pc'[u] = "begin" /\ timedOut'[u] /\ ~ pending'[u]
  <1>1. timedOut' \in [Threads -> BOOLEAN] /\ pending' \in [Threads -> BOOLEAN]
    <2>1. \A u \in Threads : (u \in ts \/ timedOut[u]) \in BOOLEAN /\ (u \notin ts /\ pending[u]) \in BOOLEAN
      OBVIOUS
    <2> QED
      BY <2>1, Zenon DEF Create
  <1>2. \A u \in Threads : /\ timedOut'[u] <=> u \in ts \/ timedOut[u]
                           /\ pending'[u] <=> u \notin ts /\ pending[u]
    BY Zenon DEF Create
  <1>3. run' \in [Threads -> {"final", "ready", "asleep"}]
        /\ pc' \in [Threads -> {"begin", "start", "mode", "loop", "body", "move"}]
    BY DEF Create, TypeOK
  <1>4. \A u \in Threads : /\ run'[u] = IF u \in ts THEN "ready" ELSE run[u]
                           /\ pc'[u] = IF u \in ts THEN "begin" ELSE other[u]
    BY DEF Create
  <1> QED
    BY <1>1, <1>2, <1>3, <1>4

\* The monitor creates the user thread when the last one has ended.
LEMMA MonitorSelectInv ==
  ASSUME Inv, MonitorSelect
  PROVE  Inv'
  <1> USE DEF MonitorSelect, MonitorRuns, MonitorGoes, motVars, tblVars
  <1>1. TypeOK /\ pc \in [Threads -> {"begin", "start", "mode", "loop", "body", "move"}]
        /\ {User} \in SUBSET Threads /\ User \in Threads
    BY ThreadFacts DEF Inv, TypeOK
  <1>2. CleanBetweenPhases /\ ~ vexKillAll /\ KeepersBegun /\ monIdx = 0
    BY DEF Inv, PhaseInv
  <1>3. \A i \in Slots : tp[i] # User /\ tp[i] \notin Workers
    BY <1>2, ThreadFacts DEF CleanBetweenPhases
  <1>4. TableInv' /\ (\A t : Registered(t)' <=> Registered(t)) /\ OrderInv'
    BY TableFrame, OrderFrame DEF Inv, Intact
  <1>5. \A u \in Threads : u # User => /\ Live(u)' <=> Live(u)
                                       /\ pc'[u] = pc[u] /\ run'[u] = run[u]
                                       /\ pending'[u] <=> pending[u]
                                       /\ timedOut'[u] <=> timedOut[u]
    <2>1. Create({User}, pc)
      BY Zenon
    <2>2. \A u \in Threads \ {User} : /\ run'[u] = run[u] /\ pc'[u] = pc[u]
                                      /\ pending'[u] <=> pending[u]
                                      /\ timedOut'[u] <=> timedOut[u]
      BY <1>1, <2>1, CreateFacts, Zenon
    <2>3. ASSUME NEW u \in Threads, u # User
          PROVE  /\ run'[u] = run[u] /\ pc'[u] = pc[u]
                 /\ pending'[u] <=> pending[u]
                 /\ timedOut'[u] <=> timedOut[u]
      BY <2>2, <2>3, Zenon
    <2> QED BY <2>3, Zenon DEF Live
  <1>6. run'[User] = "ready" /\ pc'[User] = "begin" /\ timedOut'[User] /\ ~ pending'[User]
    BY <1>1, CreateFacts
  <1>7. TypeOK'
    <2>1. state' \in BOOLEAN
      BY <1>1, TypesOK DEF Types
    <2> QED
      BY <1>1, <2>1, CreateFacts, TypesOK DEF Types
  <1>8. KeepersBegun'
    BY <1>2, <1>5, ThreadFacts DEF KeepersBegun
  <1>9. ListInv'
    <2>1. ~ Registered(User)
      BY <1>3 DEF Registered
    <2> QED
      BY <1>1, <1>2, <1>5, <1>8, <2>1, ListFrame DEF Inv, Intact
  <1>10. ThreadInv'
    <2> SUFFICES ASSUME NEW u \in Threads, Live(u)'
                 PROVE  /\ pc'[u] = "begin" <=> ~ Registered(u)'
                        /\ pc'[u] = "begin" => run'[u] = "ready" /\ timedOut'[u]
                        /\ pending'[u] => run'[u] = "ready" /\ mon' = "settle" /\ monRun' = "asleep"
      BY DEF ThreadInv
    <2>1. CASE u = User
      BY <1>3, <1>4, <1>6, <2>1 DEF Registered
    <2>2. CASE u # User
      BY <1>4, <1>5, <2>2 DEF Inv, ThreadInv
    <2> QED
      BY <2>1, <2>2
  <1>11. PhaseInv'
    BY <1>2, <1>8 DEF PhaseInv, EmergencyStopIsFinal, AfterTick
  <1>12. UserInv'
    <2>1. \A w \in Workers : ~ Live(w)' /\ ~ Registered(w)'
      BY <1>2, <1>3, <1>4, <1>5, ThreadFacts DEF CleanBetweenPhases, Live, Registered
    <2> QED
      BY <1>6, <2>1 DEF UserInv
  <1> QED
    BY <1>4, <1>7, <1>9, <1>10, <1>11, <1>12 DEF Inv, HungInv

\* systemStartAll creates the mechanisms when those of the last phase have
\* ended.
LEMMA UserStartInv ==
  ASSUME Inv, UserStart
  PROVE  Inv'
  <1> USE DEF UserStart, monVars, tblVars
  <1> DEFINE other == [pc EXCEPT ![User] = IF state THEN "mode" ELSE "loop"]
  <1>1. TypeOK /\ User \in Threads /\ Workers \in SUBSET Threads
        /\ other \in [Threads -> {"begin", "start", "mode", "loop", "body", "move"}]
        /\ other[User] = (IF state THEN "mode" ELSE "loop")
        /\ \A u \in Threads : u # User => other[u] = pc[u]
    BY ThreadFacts DEF Inv, TypeOK
  <1>2. Live(User) /\ ~ hung /\ monRun # "ready" /\ pc[User] = "start"
    BY DEF Awake, Running, Live
  <1> HIDE DEF other
  <1>3. Create(Workers, other)
    BY DEF other
  <1>4. /\ \A u \in Threads \ Workers : /\ Live(u)' <=> Live(u)
                                        /\ run'[u] = run[u] /\ pc'[u] = other[u]
                                        /\ pending'[u] <=> pending[u]
                                        /\ timedOut'[u] <=> timedOut[u]
        /\ \A w \in Workers : run'[w] = "ready" /\ pc'[w] = "begin" /\ timedOut'[w] /\ ~ pending'[w]
    <2>1. /\ \A u \in Threads \ Workers : /\ run'[u] = run[u] /\ pc'[u] = other[u]
                                          /\ pending'[u] <=> pending[u]
                                          /\ timedOut'[u] <=> timedOut[u]
          /\ \A w \in Workers : /\ run'[w] = "ready" /\ pc'[w] = "begin"
                                 /\ timedOut'[w] /\ ~ pending'[w]
      BY <1>1, <1>3, CreateFacts, Zenon
    <2>2. \A u \in Threads \ Workers : Live(u)' <=> Live(u)
      BY <2>1 DEF Live
    <2> QED
      BY <2>1, <2>2, Zenon
  <1>5. \A w \in Workers : ~ Live(w) /\ ~ Registered(w)
    BY <1>2 DEF Inv, UserInv
  <1>6. mon \in {"run", "ending", "settle"} /\ (mon = "settle" => monRun = "asleep")
    <2>1. mon \notin {"idle", "select"}
      BY <1>1, <1>2, ThreadFacts DEF Inv, PhaseInv, CleanBetweenPhases, Live
    <2>2. mon # "killed" /\ mon # "reap"
      BY <1>1, <1>2 DEF Inv, PhaseInv, EmergencyStopIsFinal, Live
    <2>3. mon = "settle" => monRun = "asleep"
      BY <1>2 DEF Inv, UserInv
    <2> QED
      BY <1>1, <2>1, <2>2, <2>3 DEF TypeOK
  <1>7. TypeOK'
    <2>1. locked' \in BOOLEAN
      OBVIOUS
    <2>2. /\ run' \in [Threads -> {"final", "ready", "asleep"}]
          /\ timedOut' \in [Threads -> BOOLEAN] /\ pending' \in [Threads -> BOOLEAN]
          /\ pc' \in [Threads -> {"begin", "start", "mode", "loop", "body", "move"}]
      BY <1>1, <1>3, CreateFacts, Zenon
    <2>3. Types
      BY <1>1, TypesOK, Zenon
    <2>4. Types'
      BY <2>1, <2>2, <2>3 DEF Types
    <2> QED
      BY <2>4, TypesOK, Zenon
  <1>8. TableInv' /\ (\A t : Registered(t)' <=> Registered(t)) /\ OrderInv'
    BY TableFrame, OrderFrame DEF Inv, Intact
  <1>9. KeepersBegun => KeepersBegun'
    BY <1>1, <1>4, ThreadFacts DEF KeepersBegun
  <1>10. ListInv'
    <2>1. \A t \in Threads : Registered(t) => (Live(t)' <=> Live(t))
      BY <1>4, <1>5
    <2> QED
      BY <1>1, <1>6, <1>9, <2>1, ListFrame DEF Inv, Intact
  <1>11. Registered(User)
    BY <1>1, <1>2 DEF Inv, ThreadInv
  <1>12. ThreadInv'
    <2> SUFFICES ASSUME NEW u \in Threads, Live(u)'
                 PROVE  /\ pc'[u] = "begin" <=> ~ Registered(u)'
                        /\ pc'[u] = "begin" => run'[u] = "ready" /\ timedOut'[u]
                        /\ pending'[u] => run'[u] = "ready" /\ mon' = "settle" /\ monRun' = "asleep"
      BY DEF ThreadInv
    <2>1. CASE u \in Workers
      BY <1>4, <1>5, <1>8, <2>1
    <2>2. CASE u = User
      BY <1>1, <1>2, <1>4, <1>8, <1>11, <2>2, ThreadFacts DEF Inv, ThreadInv
    <2>3. CASE u \notin Workers /\ u # User
      BY <1>1, <1>4, <1>8, <2>3 DEF Inv, ThreadInv
    <2> QED
      BY <2>1, <2>2, <2>3
  <1>13. PhaseInv'
    BY <1>2, <1>6, <1>9 DEF Inv, PhaseInv, EmergencyStopIsFinal, AfterTick
  <1>14. UserInv'
    <2>1. pc'[User] = (IF state THEN "mode" ELSE "loop") /\ (locked' <=> ~ state)
      BY <1>1, <1>4, ThreadFacts
    <2> QED
      BY <1>4, <1>8, <1>11, <2>1 DEF UserInv
  <1> QED
    BY <1>7, <1>8, <1>10, <1>12, <1>13, <1>14 DEF Inv, HungInv

-----------------------------------------------------------------------------
(* Ending threads.                                                         *)

\* A thread that exits is final, and nothing else of the threads changes.
LEMMA ExitFacts ==
  ASSUME TypeOK, NEW t \in Threads, Exit(t)
  PROVE  /\ run' \in [Threads -> {"final", "ready", "asleep"}] /\ ~ Live(t)'
         /\ \A u \in Threads : u # t => run'[u] = run[u] /\ (Live(u)' <=> Live(u))
         /\ monRun' \in {"ready", "asleep", "waiting"}
         /\ monRun' = monRun
            \/ (monRun = "waiting" /\ monRun' = "ready" /\ mon \in {"settle", "reap"})
         /\ UNCHANGED <<mon, monIdx, state, vexKillAll>>
  <1>1. run \in [Threads -> {"final", "ready", "asleep"}]
        /\ monRun \in {"ready", "asleep", "waiting"}
    BY DEF TypeOK
  <1>2. /\ run' \in [Threads -> {"final", "ready", "asleep"}] /\ run'[t] = "final"
        /\ \A u \in Threads : u # t => run'[u] = run[u]
    BY <1>1 DEF Exit
  <1>3. /\ monRun' = monRun
           \/ (monRun = "waiting" /\ monRun' = "ready" /\ mon \in {"settle", "reap"})
        /\ UNCHANGED <<mon, monIdx, state, vexKillAll>>
    BY DEF Exit, Awaited
  <1> QED
    BY <1>1, <1>2, <1>3 DEF Live

\* A thread that ends in a vexSleep has the event, so this is just after the
\* broadcast, and it is on the list.
LEMMA TerminateFacts ==
  ASSUME Inv, NEW t \in Threads, vexSleepTerminate(t)
  PROVE  /\ Live(t) /\ ~ hung /\ mon = "settle" /\ monRun = "asleep" /\ Registered(t)
         /\ \E i \in Slots : \E n, q : \E a \in 0 .. (n - 1) :
              /\ tp[i] = t /\ ListOf(n, q) /\ q[a] = i
              /\ elNext' = EvtUnregister(elNext, i) /\ hung' = FALSE
  <1> USE DEF vexSleepTerminate
  <1>1. Live(t) /\ ~ hung /\ pending[t] /\ ~ timedOut[t]
    BY DEF Running, HasEvent, Live
  <1>2. mon = "settle" /\ monRun = "asleep" /\ Registered(t)
    BY <1>1 DEF Inv, ThreadInv
  <1>3. SlotsOf(t) # {} /\ SlotsOf(t) \in SUBSET Nat
    BY <1>2, SlotFacts DEF SlotsOf, Registered
  <1> DEFINE i == Min(SlotsOf(t))
  <1>4. i \in Slots /\ tp[i] = t
    BY <1>3, MinFacts DEF SlotsOf
  <1>5. Listening(i)
    BY <1>1, <1>4, ThreadFacts DEF Listening
  <1>6. PICK n, q : ListOf(n, q)
    BY <1>1, <1>2 DEF Inv, ListInv, Doomed
  <1>7. PICK a \in 0 .. (n - 1) : q[a] = i
    BY <1>4, <1>5, <1>6 DEF ListOf
  <1>8. i \in Listeners(elNext)
    BY <1>6, <1>7, ListFacts DEF ListOf
  <1>9. elNext' = EvtUnregister(elNext, i) /\ hung' = (i \notin Listeners(elNext) /\ ~ ListEnds(elNext))
    BY <1>3
  <1>10. hung' = FALSE
    BY <1>8, <1>9
  <1> QED
    BY <1>1, <1>2, <1>4, <1>6, <1>7, <1>9, <1>10

\* It leaves the list before it exits.
LEMMA TerminateInv ==
  ASSUME Inv, NEW t \in Threads, vexSleepTerminate(t)
  PROVE  Inv'
  <1>1. TypeOK /\ Exit(t) /\ pending' = [pending EXCEPT ![t] = FALSE]
        /\ UNCHANGED <<comp, timedOut, pc, tp, persistent, elListener, locked, cmd, val>>
    BY DEF vexSleepTerminate, Inv, motVars
  <1>2. Live(t) /\ ~ hung /\ mon = "settle" /\ monRun = "asleep"
    BY TerminateFacts
  <1>3. PICK i \in Slots : \E n, q : \E a \in 0 .. (n - 1) :
          /\ tp[i] = t /\ ListOf(n, q) /\ q[a] = i
          /\ elNext' = EvtUnregister(elNext, i) /\ hung' = FALSE
    BY TerminateFacts
  <1>4. PICK n, q, a : a \in 0 .. (n - 1) /\ ListOf(n, q) /\ q[a] = i
    BY <1>3
  <1>5. elNext \in [Node -> Node] /\ IsList(elNext, n, q)
    BY <1>1, <1>4, TypesOK DEF Types, ListOf
  <1>6. /\ IsList(elNext', n - 1, Without(n, q, a))
        /\ elNext' \in [Node -> Node]
        /\ \A j \in Slots : (\E k \in 0 .. (n - 2) : Without(n, q, a)[k] = j)
                            <=> j # i /\ \E k \in 0 .. (n - 1) : q[k] = j
    <2>1. /\ IsList(EvtUnregister(elNext, q[a]), n - 1, Without(n, q, a))
          /\ EvtUnregister(elNext, q[a]) \in [Node -> Node]
      BY <1>4, <1>5, UnregisterList
    <2>2. \A j \in Slots : (\E k \in 0 .. (n - 2) : Without(n, q, a)[k] = j)
                           <=> j # q[a] /\ \E k \in 0 .. (n - 1) : q[k] = j
      BY <1>4, <1>5, UnregisterList
    <2>3. elNext' = EvtUnregister(elNext, q[a])
      BY <1>3, <1>4
    <2> QED
      BY <1>4, <2>1, <2>2, <2>3, Zenon
  <1>7. /\ \A u \in Threads : u # t => run'[u] = run[u] /\ (Live(u)' <=> Live(u))
        /\ ~ Live(t)' /\ mon' = "settle" /\ monRun' = "asleep"
        /\ UNCHANGED <<monIdx, state, vexKillAll>>
    BY <1>1, <1>2, ExitFacts
  <1>8. pending' \in [Threads -> BOOLEAN] /\ \A u \in Threads : u # t => (pending'[u] <=> pending[u])
    BY <1>1, Zenon DEF TypeOK
  <1>9. TypeOK'
    <2>1. hung' \in BOOLEAN
      BY <1>3
    <2> QED
      BY <1>1, <1>6, <1>7, <1>8, <2>1, ExitFacts, TypesOK DEF Types
  <1>10. TableInv' /\ (\A u : Registered(u)' <=> Registered(u)) /\ OrderInv'
    BY <1>1, <1>2, <1>7, TableFrame, OrderFrame DEF Inv, Intact
  <1>11. KeepersBegun'
    BY <1>1, <1>2, <1>7, ThreadFacts DEF Inv, PhaseInv, KeepersBegun
  <1>12. ListInv'
    <2>1. \A j \in Slots : Listening(j)' <=> Listening(j) /\ j # i
      <3>1. \A j \in Slots : tp[j] = t <=> j = i
        BY <1>3, ThreadFacts DEF Inv, TableInv
      <3>2. \A j \in Slots : tp[j] # NoThread => tp[j] \in Threads
        BY <1>1 DEF TypeOK
      <3> QED
        BY <1>1, <1>7, <3>1, <3>2 DEF Listening
    <2>2. \A j \in Slots : Stale(j) => Stale(j)'
      BY <1>1, <1>7, <1>11, <1>2 DEF Stale, Intact, First
    <2>3. n \in Nat /\ (n - 1) - 1 = n - 2 /\ \A k \in 0 .. (n - 1) : q[k] \in Slots
      BY <1>5, SlotFacts DEF IsList
    <2>4. \A j \in Slots : Listening(j)' => \E k \in 0 .. (n - 2) : Without(n, q, a)[k] = j
      BY <1>4, <1>6, <2>1 DEF ListOf
    <2>5. ASSUME NEW k \in 0 .. (n - 2)
          PROVE  Listening(Without(n, q, a)[k])' \/ Stale(Without(n, q, a)[k])'
      <3> DEFINE j == Without(n, q, a)[k]
      <3>1. j \in Slots /\ j # i /\ \E l \in 0 .. (n - 1) : q[l] = j
        BY <1>6, <2>3 DEF IsList
      <3>2. j \in Slots /\ (Listening(j) \/ Stale(j))
        BY <1>4, <2>3, <3>1 DEF ListOf
      <3> QED
        BY <2>1, <2>2, <3>1, <3>2
    <2>6. ListOf(n - 1, Without(n, q, a))'
      BY <1>6, <2>3, <2>4, <2>5 DEF ListOf
    <2> QED
      BY <2>6 DEF ListInv
  <1>13. ThreadInv'
    BY <1>1, <1>2, <1>7, <1>8, <1>10 DEF Inv, ThreadInv
  <1>14. PhaseInv'
    BY <1>2, <1>7, <1>11 DEF Inv, PhaseInv, EmergencyStopIsFinal, AfterTick
  <1>15. UserInv'
    <2>1. \A w \in Workers : Live(w)' => Live(w)
      BY <1>2, <1>7, ThreadFacts
    <2>2. Live(User)' => Live(User) /\ (pending'[User] <=> pending[User])
      BY <1>2, <1>7, <1>8, ThreadFacts
    <2> QED
      BY <1>1, <1>2, <1>3, <1>7, <1>10, <2>1, <2>2 DEF Inv, UserInv
  <1> QED
    BY <1>3, <1>9, <1>10, <1>12, <1>13, <1>14, <1>15 DEF Inv, HungInv

\* A routine that returns leaves its slot on the list.
LEMMA UserReturnInv ==
  ASSUME Inv, UserReturn
  PROVE  Inv'
  <1> USE DEF UserReturn, tblVars
  <1>1. TypeOK /\ User \in Threads /\ Live(User) /\ ~ hung /\ monRun # "ready" /\ AutonReturns
    BY ThreadFacts DEF Inv, Awake, Running, Live
  <1>2. mon \in {"run", "ending", "settle"}
    <2>1. mon \notin {"idle", "select"}
      BY <1>1, ThreadFacts DEF Inv, PhaseInv, CleanBetweenPhases, Live
    <2>2. mon # "killed" /\ mon # "reap"
      BY <1>1 DEF Inv, PhaseInv, EmergencyStopIsFinal, Live
    <2> QED
      BY <1>1, <2>1, <2>2 DEF TypeOK
  <1>3. /\ \A u \in Threads : u # User => run'[u] = run[u] /\ (Live(u)' <=> Live(u))
        /\ ~ Live(User)'
        /\ monRun' = monRun \/ (monRun = "waiting" /\ monRun' = "ready" /\ mon = "settle")
        /\ UNCHANGED <<mon, monIdx, state, vexKillAll>>
    BY <1>1, <1>2, ExitFacts
  <1>4. TypeOK'
    <2>1. locked' \in BOOLEAN
      BY Zenon
    <2> QED
      BY <1>1, <1>3, <2>1, ExitFacts, TypesOK DEF Types
  <1>5. TableInv' /\ (\A u : Registered(u)' <=> Registered(u)) /\ OrderInv'
    BY <1>3, TableFrame, OrderFrame DEF Inv, Intact
  <1>6. KeepersBegun /\ KeepersBegun'
    BY <1>2, <1>3, ThreadFacts DEF Inv, PhaseInv, KeepersBegun
  <1>7. ListInv'
    <2>1. CASE Doomed
      BY <1>3, <2>1 DEF Doomed, ListInv, Closed
    <2>2. ASSUME NEW n, NEW q, ListOf(n, q) PROVE ListOf(n, q)'
      <3>1. \A k \in 0 .. (n - 1) : q[k] \in Slots
        BY <2>2 DEF ListOf, IsList
      <3>2. \A j \in Slots : Listening(j)' <=> Listening(j) /\ tp[j] # User
        <4>1. \A j \in Slots : tp[j] # NoThread => tp[j] \in Threads
          BY <1>1 DEF TypeOK
        <4> QED
          BY <1>3, <4>1 DEF Listening
      <3>3. \A j \in Slots : Stale(j) \/ tp[j] = User => Stale(j)'
        <4>1. Intact /\ Intact'
          BY <1>2, <1>3 DEF Intact
        <4>2. \A j \in Slots : tp[j] = User => First(j)
          BY <4>1 DEF Inv, OrderInv
        <4> QED
          BY <1>1, <1>6, <4>1, <4>2 DEF Stale, First
      <3>4. \A k \in 0 .. (n - 1) : Listening(q[k])' \/ Stale(q[k])'
        BY <2>2, <3>1, <3>2, <3>3 DEF ListOf
      <3> QED
        BY <2>2, <3>2, <3>4 DEF ListOf, IsList
    <2> QED
      BY <1>1, <2>1, <2>2 DEF Inv, ListInv
  <1>8. ThreadInv'
    BY <1>3, <1>5 DEF Inv, ThreadInv
  <1>9. PhaseInv'
    <2>1. NoneBegins => NoneBegins'
      BY <1>3 DEF NoneBegins
    <2>2. AfterTick' => AfterTick
      BY <1>1, <1>3 DEF AfterTick
    <2> QED
      BY <1>2, <1>3, <1>6, <2>1, <2>2 DEF Inv, PhaseInv, EmergencyStopIsFinal
  <1>10. UserInv'
    BY <1>3, <1>5, ThreadFacts DEF Inv, UserInv
  <1> QED
    BY <1>4, <1>5, <1>7, <1>8, <1>9, <1>10 DEF Inv, HungInv

-----------------------------------------------------------------------------
(* The monitor and the environment.                                        *)

\* While the monitor runs no live thread has the event.  A step of the monitor
\* that only moves it leaves threads, table and list as they are.
LEMMA MonitorFrame ==
  ASSUME Inv, monRun = "ready", ~ hung,
         UNCHANGED <<run, timedOut, pending, pc, tp, persistent, elNext, elListener,
                     vexKillAll, hung>>,
         Intact' => Intact,
         mon \in {"run", "ending"} => mon' \in {"run", "ending"}
  PROVE  /\ TableInv' /\ ThreadInv' /\ OrderInv' /\ ListInv' /\ HungInv'
         /\ \A u : (Registered(u)' <=> Registered(u)) /\ (Live(u)' <=> Live(u))
         /\ NoneBegins' <=> NoneBegins
         /\ KeepersBegun'
  <1>1. TableInv' /\ (\A u : Registered(u)' <=> Registered(u)) /\ OrderInv'
    BY TableFrame, OrderFrame DEF Inv
  <1>2. \A u : Live(u)' <=> Live(u)
    BY DEF Live
  <1>3. (NoneBegins' <=> NoneBegins) /\ KeepersBegun /\ KeepersBegun'
    BY <1>2 DEF NoneBegins, KeepersBegun, Inv, PhaseInv
  <1>4. ThreadInv'
    BY <1>1, <1>2 DEF Inv, ThreadInv
  <1>5. ListInv'
    BY <1>2, <1>3, ListFrame DEF Inv
  <1>6. HungInv'
    BY DEF HungInv
  <1> QED
    BY <1>1, <1>2, <1>3, <1>4, <1>5, <1>6

\* The steps in which the monitor looks at the competition state.
LEMMA MonitorLooksInv ==
  ASSUME Inv, MonitorIdle \/ MonitorRun \/ MonitorKilled
  PROVE  Inv'
  <1> USE DEF MonitorIdle, MonitorRun, MonitorKilled, MonitorRuns, MonitorGoes,
              thrVars, tblVars, motVars
  <1>1. monRun = "ready" /\ ~ hung /\ (Intact' => Intact)
        /\ UNCHANGED <<run, timedOut, pending, pc, tp, persistent, elNext, elListener,
                       vexKillAll, hung, monIdx, locked, cmd, val, state, comp>>
    BY DEF Intact
  <1>2. /\ TableInv' /\ ThreadInv' /\ OrderInv' /\ ListInv' /\ HungInv'
        /\ \A u : (Registered(u)' <=> Registered(u)) /\ (Live(u)' <=> Live(u))
        /\ NoneBegins' <=> NoneBegins
        /\ KeepersBegun'
    BY <1>1, MonitorFrame
  <1>3. TypeOK'
    BY <1>1, TypesOK DEF Inv, Types
  <1>4. PhaseInv'
    <2>1. CleanBetweenPhases' <=> (mon' \in {"idle", "select"} =>
            /\ \A t \in Threads \ Keepers : run[t] = "final"
            /\ \A i \in Slots : tp[i] \in Keepers \cup {NoThread})
      BY <1>1 DEF CleanBetweenPhases
    <2>2. EmergencyStopIsFinal' <=> (mon' = "killed" =>
            (\A t \in Threads : run[t] = "final") /\ \A w \in Workers : ~ val[w])
      BY <1>1 DEF EmergencyStopIsFinal
    <2>3. ~ AfterTick'
      BY DEF AfterTick
    <2> QED
      BY <1>1, <1>2, <2>1, <2>2, <2>3
      DEF Inv, PhaseInv, CleanBetweenPhases, EmergencyStopIsFinal
  <1>5. UserInv'
    <2>1. mon \in {"idle", "killed"} => ~ Live(User)
      BY ThreadFacts DEF Inv, PhaseInv, CleanBetweenPhases, EmergencyStopIsFinal, Live
    <2> QED
      BY <1>1, <1>2, <2>1 DEF Inv, UserInv
  <1> QED
    BY <1>2, <1>3, <1>4, <1>5 DEF Inv

\* When the last slot has been seen to, every thread of the phase is gone, and
\* after an emergency stop every thread.
LEMMA MonitorDoneInv ==
  ASSUME Inv, MonitorDone
  PROVE  Inv'
  <1> USE DEF MonitorDone, MonitorRuns, MonitorGoes, thrVars, tblVars, motVars
  <1>1. monRun = "ready" /\ ~ hung /\ mon = "reap" /\ (Intact' => Intact)
        /\ UNCHANGED <<run, timedOut, pending, pc, tp, persistent, elNext, elListener,
                       vexKillAll, hung, locked, cmd, val, state, comp>>
    BY DEF Intact
  <1>2. /\ TableInv' /\ ThreadInv' /\ OrderInv' /\ ListInv' /\ HungInv'
        /\ \A u : (Registered(u)' <=> Registered(u)) /\ (Live(u)' <=> Live(u))
        /\ KeepersBegun'
    BY <1>1, MonitorFrame
  <1>3. \A i \in Slots : tp[i] = NoThread \/ (tp[i] \in Keepers /\ ~ vexKillAll)
    <2>1. \A i \in Slots : i < monIdx
      BY SlotFacts
    <2> QED
      BY <1>1, <2>1 DEF Inv, PhaseInv, Reaped
  <1>4. \A t \in Threads : Live(t) => t \in Keepers /\ ~ vexKillAll
    <2>1. \A t \in Threads : Live(t) => Registered(t)
      BY <1>1 DEF Inv, PhaseInv, AfterTick, NoneBegins, ThreadInv
    <2> QED
      BY <1>3, <2>1, ThreadFacts DEF Registered
  <1>5. TypeOK'
    <2>1. monIdx' \in 0 .. MAX_THREAD
      BY SlotFacts
    <2> QED
      BY <1>1, <2>1, TypesOK DEF Inv, Types
  <1>6. PhaseInv'
    <2>1. CASE vexKillAll
      <3>1. \A t \in Threads : ~ Live(t)
        BY <1>4, <2>1
      <3>2. \A w \in Workers : ~ val[w]
        BY <1>1, <3>1 DEF Inv, PhaseInv
      <3>3. EmergencyStopIsFinal'
        BY <1>1, <3>1, <3>2 DEF EmergencyStopIsFinal, Live
      <3> QED
        BY <1>2, <2>1, <3>3 DEF PhaseInv, AfterTick
    <2>2. CASE ~ vexKillAll
      <3>1. CleanBetweenPhases'
        BY <1>1, <1>3, <1>4 DEF CleanBetweenPhases, Live
      <3> QED
        BY <1>1, <1>2, <2>2, <3>1 DEF PhaseInv, AfterTick, EmergencyStopIsFinal
    <2> QED
      BY <2>1, <2>2
  <1>7. UserInv'
    BY <1>2, <1>4, ThreadFacts DEF UserInv
  <1> QED
    BY <1>2, <1>5, <1>6, <1>7 DEF Inv

\* The broadcast reaches the user thread, or never ends.
LEMMA MonitorBroadcastInv ==
  ASSUME Inv, MonitorBroadcast
  PROVE  Inv'
  <1> USE DEF MonitorBroadcast, MonitorRuns, MonitorGoes, tblVars, motVars
  <1>1. TypeOK /\ monRun = "ready" /\ mon = "ending" /\ ~ hung
        /\ UNCHANGED <<timedOut, pc, tp, persistent, elNext, elListener,
                       vexKillAll, locked, cmd, val, state, comp, monIdx>>
    BY DEF Inv
  <1>2. pending' \in [Threads -> BOOLEAN]
        /\ \A t \in Threads : pending'[t] <=> pending[t] \/ t \in Signalled
    BY Zenon
  <1>3. /\ run' \in [Threads -> {"final", "ready", "asleep"}]
        /\ \A t \in Threads : run'[t] = IF t \in Signalled /\ run[t] = "asleep" THEN "ready" ELSE run[t]
    BY <1>1 DEF TypeOK
  <1>4. \A t \in Threads : Live(t)' <=> Live(t)
    BY <1>3 DEF Live
  <1>5. hung' \in BOOLEAN /\ (hung' <=> ~ ListEnds(elNext))
    BY Zenon
  <1>6. TypeOK'
    BY <1>1, <1>2, <1>3, <1>5, TypesOK DEF Types
  <1>7. TableInv' /\ (\A u : Registered(u)' <=> Registered(u)) /\ OrderInv'
    BY <1>1, TableFrame, OrderFrame DEF Inv, Intact
  <1>8. NoneBegins /\ NoneBegins' /\ KeepersBegun'
    BY <1>1, <1>4, ThreadFacts DEF Inv, PhaseInv, AfterTick, NoneBegins, KeepersBegun
  <1>9. Doomed => hung'
    <2>1. elNext \in [Node -> Node]
      BY <1>1, TypesOK DEF Types
    <2> QED
      BY <1>5, <2>1, ClosedNeverEnds DEF Doomed
  <1>10. ASSUME ~ Doomed
         PROVE  /\ ~ hung' /\ ListInv'
                /\ Live(User) => pending'[User]
    <2>1. PICK n, q : ListOf(n, q)
      BY <1>1, <1>10 DEF Inv, ListInv
    <2>2. ~ hung'
      BY <1>5, <2>1, ListFacts DEF ListOf
    <2>3. ListInv'
      <3>1. UNCHANGED <<elNext, tp, hung>>
        BY <1>1, <2>2, <1>5, <1>6, TypesOK DEF Types
      <3> QED
        BY <1>1, <1>4, <1>8, <2>1, <3>1, ListFrame DEF Inv, Intact
    <2>4. ASSUME Live(User) PROVE pending'[User]
      <3>1. PICK i \in Slots : tp[i] = User
        BY <1>8, <2>4, ThreadFacts DEF Inv, ThreadInv, NoneBegins, Registered
      <3>2. Listening(i) /\ elListener[i] = User
        BY <2>4, <3>1, ThreadFacts DEF Listening, Inv, TableInv
      <3>3. i \in Listeners(elNext)
        BY <2>1, <3>2, ListFacts DEF ListOf
      <3>4. User \in Signalled
        BY <3>2, <3>3 DEF Signalled
      <3> QED
        BY <1>2, <3>4, ThreadFacts
    <2> QED
      BY <2>2, <2>3, <2>4
  <1>11. ThreadInv'
    <2> SUFFICES ASSUME NEW u \in Threads, Live(u)'
                 PROVE  /\ pc'[u] = "begin" <=> ~ Registered(u)'
                        /\ pc'[u] = "begin" => run'[u] = "ready" /\ timedOut'[u]
                        /\ pending'[u] => run'[u] = "ready" /\ mon' = "settle" /\ monRun' = "asleep"
      BY DEF ThreadInv
    <2>1. Live(u) /\ ~ pending[u] /\ pc[u] # "begin" /\ Registered(u)
      BY <1>1, <1>4, <1>8 DEF Inv, ThreadInv, NoneBegins
    <2>2. run[u] \in {"ready", "asleep"}
      BY <1>1, <2>1 DEF Live, TypeOK
    <2> QED
      BY <1>1, <1>2, <1>3, <1>7, <2>1, <2>2
  <1>12. PhaseInv'
    BY <1>1, <1>8 DEF Inv, PhaseInv, AfterTick, EmergencyStopIsFinal
  <1>13. UserInv'
    <2>1. (Live(User)' <=> Live(User)) /\ (Live(User) => pc[User] # "begin")
          /\ \A w \in Workers : Live(w)' <=> Live(w)
      BY <1>4, <1>8, ThreadFacts DEF NoneBegins
    <2>2. Live(User) /\ ~ hung' => pending'[User]
      BY <1>9, <1>10
    <2> QED
      BY <1>1, <1>7, <2>1, <2>2 DEF Inv, UserInv
  <1>14. ListInv' /\ HungInv'
    BY <1>9, <1>10 DEF ListInv, HungInv, Doomed
  <1> QED
    BY <1>6, <1>7, <1>11, <1>12, <1>13, <1>14 DEF Inv

\* The monitor waits for the user thread, then stops the motors.
LEMMA MonitorSettleInv ==
  ASSUME Inv, MonitorSettle
  PROVE  Inv'
  <1> USE DEF MonitorSettle, MonitorRuns, MonitorGoes, thrVars, tblVars
  <1>1. monRun = "ready" /\ ~ hung /\ mon = "settle" /\ (Intact' => Intact)
        /\ UNCHANGED <<run, timedOut, pending, pc, tp, persistent, elNext, elListener,
                       vexKillAll, hung, monIdx, locked, cmd, state, comp>>
    BY DEF Intact
  <1>2. /\ TableInv' /\ ThreadInv' /\ OrderInv' /\ ListInv' /\ HungInv'
        /\ \A u : (Registered(u)' <=> Registered(u)) /\ (Live(u)' <=> Live(u))
        /\ NoneBegins' <=> NoneBegins
        /\ KeepersBegun'
    BY <1>1, MonitorFrame
  <1>3. NoneBegins /\ monIdx = 0
    BY <1>1 DEF Inv, PhaseInv, AfterTick
  <1>4. val' \in [Workers -> BOOLEAN] /\ (mon' = "reap" => \A w \in Workers : ~ val'[w])
    <2>1. val \in [Workers -> BOOLEAN]
      BY DEF Inv, TypeOK
    <2>2. CASE run[User] = "final"
      BY <2>2, Zenon
    <2>3. CASE run[User] # "final"
      BY <2>1, <2>3
    <2> QED
      BY <2>2, <2>3
  <1>5. TypeOK'
    BY <1>1, <1>4, TypesOK DEF Inv, Types
  <1>6. PhaseInv'
    <2>1. \A i \in Slots : ~ (i < monIdx')
      BY <1>1, <1>3, SlotFacts
    <2>2. mon' = "reap" => ~ Live(User)' /\ monRun' # "asleep"
      BY DEF Live
    <2>3. mon' \in {"settle", "reap"}
      OBVIOUS
    <2> QED
      BY <1>1, <1>2, <1>3, <1>4, <2>1, <2>2, <2>3 DEF PhaseInv, EmergencyStopIsFinal
  <1>7. UserInv'
    <2>1. Live(User) => pc[User] # "begin" /\ pc[User] # "start"
      BY <1>1, <1>3, ThreadFacts DEF NoneBegins, Inv, UserInv
    <2> QED
      BY <1>1, <1>2, <2>1 DEF Inv, UserInv
  <1> QED
    BY <1>2, <1>5, <1>6, <1>7 DEF Inv

\* The monitor frees a slot whose thread has ended, or waits for the thread.
LEMMA MonitorReapInv ==
  ASSUME Inv, MonitorReap
  PROVE  Inv'
  <1> USE DEF MonitorReap, MonitorRuns, thrVars, motVars
  <1>1. TypeOK /\ monRun = "ready" /\ ~ hung /\ mon = "reap" /\ mon' = "reap" /\ ~ hung'
        /\ UNCHANGED <<run, timedOut, pending, pc, persistent, elNext, elListener,
                       vexKillAll, hung, locked, cmd, val, state, comp>>
    BY DEF Inv
  <1>2. monIdx \in Slots /\ monIdx \in Nat /\ MAX_THREAD \in Nat
    BY <1>1, SlotFacts DEF TypeOK
  <1>3. monRun' \in {"ready", "waiting"} /\ monIdx' \in 0 .. MAX_THREAD
    BY <1>1, <1>2 DEF TypeOK
  <1>4. tp' \in [Slots -> Threads \cup {NoThread}]
        /\ \A i \in Slots : \/ tp'[i] = tp[i]
                            \/ /\ i = monIdx /\ tp'[i] = NoThread /\ ~ persistent[i]
                               /\ tp[i] \in Threads /\ ~ Live(tp[i])
    BY <1>1, <1>2 DEF TypeOK, Live
  <1>5. TypeOK'
    BY <1>1, <1>3, <1>4, TypesOK DEF Types
  <1>6. TableInv'
    <2>1. \A i \in Slots : persistent'[i] <=> tp'[i] \in Keepers /\ ~ vexKillAll'
      BY <1>1, <1>4, ThreadFacts DEF Inv, TableInv
    <2> QED
      BY <1>1, <1>4, <2>1 DEF Inv, TableInv
  <1>7. \A t \in Threads : Live(t)' <=> Live(t)
    BY <1>1 DEF Live
  <1>8. \A t \in Threads : Live(t) => (Registered(t)' <=> Registered(t))
    BY <1>4, ThreadFacts DEF Registered
  <1>9. NoneBegins /\ NoneBegins' /\ KeepersBegun /\ KeepersBegun' /\ ~ Live(User)
    BY <1>1, <1>7, ThreadFacts DEF Inv, PhaseInv, AfterTick, NoneBegins, KeepersBegun
  <1>10. ThreadInv'
    <2>1. \A t \in Threads : Live(t) => ~ pending[t]
      BY <1>1 DEF Inv, ThreadInv
    <2> QED
      BY <1>1, <1>7, <1>8, <2>1 DEF Inv, ThreadInv
  <1>11. PhaseInv'
    <2>1. ASSUME NEW i \in Slots, i < monIdx' PROVE Reaped(i)'
      <3>1. CASE i < monIdx
        BY <1>1, <1>4, <3>1 DEF Inv, PhaseInv, Reaped
      <3>2. CASE ~ (i < monIdx)
        <4>1. i = monIdx /\ monIdx' = monIdx + 1
          BY <1>2, <2>1, <3>2, SlotFacts
        <4>2. tp'[i] = NoThread \/ (tp'[i] = tp[i] /\ persistent[i])
          BY <1>1, <1>2, <4>1 DEF TypeOK
        <4>3. persistent[i] => tp[i] \in Keepers /\ ~ vexKillAll
          BY DEF Inv, TableInv
        <4> QED
          BY <1>1, <4>2, <4>3 DEF Reaped
      <3> QED
        BY <3>1, <3>2
    <2>2. (\E t \in Threads : Live(t)') \/ \A w \in Workers : ~ val'[w]
      BY <1>1, <1>7 DEF Inv, PhaseInv
    <2>3. ~ Live(User)'
      BY <1>7, <1>9, ThreadFacts
    <2> QED
      BY <1>1, <1>3, <1>9, <2>1, <2>2, <2>3 DEF PhaseInv, EmergencyStopIsFinal
  <1>12. UserInv'
    <2>1. \A w \in Workers : ~ (Live(w)' /\ pc'[w] = "begin")
      BY <1>9, ThreadFacts DEF NoneBegins
    <2> QED
      BY <1>7, <1>9, <2>1, ThreadFacts DEF UserInv
  <1>13. Intact' <=> Intact
    BY <1>1 DEF Intact
  <1>14. ASSUME Intact, NEW i \in Slots, First(i) PROVE First(i)'
    <2>1. ~ vexKillAll
      BY <1>1, <1>14 DEF Intact
    <2>2. \A j \in Slots : tp[j] \in Keepers => tp'[j] = tp[j]
      BY <1>4, <2>1 DEF Inv, TableInv
    <2> QED
      BY <1>14, <2>2 DEF First
  <1>15. OrderInv'
    <2>1. NoThread \notin Keepers \cup {User}
      BY ThreadFacts
    <2>2. \A i \in Slots : tp'[i] \in Keepers \cup {User} => tp'[i] = tp[i]
      BY <1>4, <2>1
    <2> QED
      BY <1>13, <1>14, <2>2 DEF Inv, OrderInv
  <1>16. ListInv'
    <2>1. \A i \in Slots : Listening(i)' <=> Listening(i)
      <3>1. \A i \in Slots : tp[i] \in Threads \cup {NoThread} /\ tp'[i] \in Threads \cup {NoThread}
        BY <1>1, <1>4 DEF TypeOK
      <3> QED
        BY <1>4, <1>7, <3>1, ThreadFacts DEF Listening
    <2>2. \A i \in Slots : Stale(i) => Stale(i)'
      BY <1>4, <1>9, <1>13, <1>14 DEF Stale
    <2>3. PICK n, q : ListOf(n, q)
      BY <1>1 DEF Inv, ListInv, Doomed
    <2>4. \A k \in 0 .. (n - 1) : q[k] \in Slots
      BY <2>3 DEF ListOf, IsList
    <2>5. ListOf(n, q)'
      BY <1>1, <2>1, <2>2, <2>3, <2>4 DEF ListOf, IsList
    <2> QED
      BY <2>5 DEF ListInv
  <1> QED
    BY <1>1, <1>5, <1>6, <1>10, <1>11, <1>12, <1>15, <1>16 DEF Inv, HungInv

\* A clock tick finds every thread blocked, so that no event is left to take
\* and no thread is new.
LEMMA TickInv ==
  ASSUME Inv, NEW ts \in SUBSET Asleep, NEW m \in BOOLEAN, Tick(ts, m)
  PROVE  Inv'
  <1> USE DEF Tick, tblVars, motVars
  <1>1. TypeOK /\ monRun # "ready" /\ ~ hung
        /\ (\A t \in Threads : run[t] # "ready")
        /\ UNCHANGED <<comp, mon, monIdx, state, vexKillAll, pending, pc, tp, persistent,
                       elNext, elListener, locked, cmd, val, hung>>
    BY DEF Inv, CpuIdle
  <1>2. \A t \in Threads : Live(t) => run[t] = "asleep" /\ ~ pending[t] /\ pc[t] # "begin"
    BY <1>1 DEF Inv, ThreadInv, Live, TypeOK
  <1>3. /\ run' \in [Threads -> {"final", "ready", "asleep"}]
        /\ timedOut' \in [Threads -> BOOLEAN]
        /\ monRun' \in {"ready", "asleep", "waiting"}
    <2>1. timedOut \in [Threads -> BOOLEAN]
      BY <1>1 DEF TypeOK
    <2>2. timedOut' \in [Threads -> BOOLEAN]
      BY <2>1, Zenon
    <2> QED
      BY <1>1, <2>2 DEF TypeOK
  <1>4. \A t \in Threads : Live(t)' <=> Live(t)
    <2>1. \A t \in ts : run[t] = "asleep"
      BY DEF Asleep
    <2>2. \A t \in Threads : run'[t] = IF t \in ts THEN "ready" ELSE run[t]
      BY Zenon
    <2> QED
      BY <2>1, <2>2 DEF Live
  <1>5. monRun' = monRun \/ (monRun = "asleep" /\ monRun' = "ready")
    OBVIOUS
  <1>6. TypeOK'
    BY <1>1, <1>3, TypesOK DEF Types
  <1>7. TableInv' /\ (\A t : Registered(t)' <=> Registered(t)) /\ OrderInv'
    BY <1>1, TableFrame, OrderFrame DEF Inv, Intact
  <1>8. NoneBegins' /\ KeepersBegun'
    BY <1>1, <1>2, <1>4, ThreadFacts DEF NoneBegins, KeepersBegun
  <1>9. ThreadInv'
    BY <1>1, <1>2, <1>4, <1>7 DEF Inv, ThreadInv
  <1>10. PhaseInv'
    <2>1. CleanBetweenPhases' <=> CleanBetweenPhases
      BY <1>1, <1>4 DEF CleanBetweenPhases, Live
    <2>2. EmergencyStopIsFinal' <=> EmergencyStopIsFinal
      BY <1>1, <1>4 DEF EmergencyStopIsFinal, Live
    <2>3. mon = "reap" => monRun' # "asleep"
      BY <1>5 DEF Inv, PhaseInv
    <2>4. \A i \in Slots : Reaped(i)' <=> Reaped(i)
      BY <1>1 DEF Reaped
    <2>5. (\E t \in Threads : Live(t)') <=> \E t \in Threads : Live(t)
      BY <1>4
    <2>6. Live(User)' <=> Live(User)
      BY <1>4, ThreadFacts
    <2> QED
      BY <1>1, <1>8, <2>1, <2>2, <2>3, <2>4, <2>5, <2>6 DEF Inv, PhaseInv
  <1>11. UserInv'
    <2>1. (Live(User)' <=> Live(User)) /\ (\A w \in Workers : Live(w)' <=> Live(w))
      BY <1>4, ThreadFacts
    <2>2. ~ (Live(User) /\ pc[User] = "start" /\ mon = "settle")
      BY <1>1, <1>2, ThreadFacts DEF Inv, UserInv
    <2> QED
      BY <1>1, <1>7, <2>1, <2>2 DEF Inv, UserInv
  <1>12. ListInv'
    BY <1>1, <1>4, <1>8, ListFrame DEF Inv, Intact
  <1> QED
    BY <1>1, <1>6, <1>7, <1>9, <1>10, <1>11, <1>12 DEF Inv, HungInv

\* vexTaskEmergencyStop runs in the user thread, so the monitor has not begun
\* to clear the table.
LEMMA EmergencyStopInv ==
  ASSUME Inv, vexTaskEmergencyStop
  PROVE  Inv'
  <1> USE DEF vexTaskEmergencyStop, thrVars, motVars
  <1>1. TypeOK /\ User \in Threads /\ Live(User) /\ ~ hung
        /\ UNCHANGED <<comp, mon, monRun, monIdx, state, run, timedOut, pending, pc, tp,
                       elNext, elListener, locked, cmd, val, hung>>
    BY ThreadFacts DEF Inv, Awake, Running, Live
  <1>2. mon \in {"run", "ending", "settle"}
    <2>1. mon \notin {"idle", "select"}
      BY <1>1, ThreadFacts DEF Inv, PhaseInv, CleanBetweenPhases, Live
    <2>2. mon # "killed" /\ mon # "reap"
      BY <1>1 DEF Inv, PhaseInv, EmergencyStopIsFinal, Live
    <2> QED
      BY <1>1, <2>1, <2>2 DEF TypeOK
  <1>3. vexKillAll' \in BOOLEAN /\ vexKillAll'
    BY Zenon
  <1>4. persistent' \in [Slots -> BOOLEAN] /\ \A i \in Slots : ~ persistent'[i]
    BY Zenon
  <1>5. TypeOK'
    BY <1>1, <1>3, <1>4, TypesOK DEF Types
  <1>6. TableInv' /\ \A t : Registered(t)' <=> Registered(t)
    BY <1>1, <1>3, <1>4 DEF Inv, TableInv, Registered
  <1>7. (\A t : Live(t)' <=> Live(t)) /\ Intact /\ Intact'
    BY <1>1, <1>2 DEF Live, Intact
  <1>8. (NoneBegins' <=> NoneBegins) /\ (KeepersBegun' <=> KeepersBegun)
    BY <1>1, <1>7 DEF NoneBegins, KeepersBegun
  <1>9. ThreadInv'
    BY <1>1, <1>6, <1>7 DEF Inv, ThreadInv
  <1>10. PhaseInv'
    BY <1>1, <1>2, <1>8 DEF Inv, PhaseInv, EmergencyStopIsFinal, AfterTick
  <1>11. UserInv'
    BY <1>1, <1>6, <1>7 DEF Inv, UserInv
  <1>12. OrderInv' /\ ListInv'
    BY <1>1, <1>7, <1>8, ListFrame, OrderFrame DEF Inv
  <1> QED
    BY <1>1, <1>5, <1>6, <1>9, <1>10, <1>11, <1>12 DEF Inv, HungInv

\* A change of the competition state, or no change at all.
LEMMA CompetitionChangeInv ==
  ASSUME Inv, CompetitionChange \/ UNCHANGED vars
  PROVE  Inv'
  <1>1. comp' \in [disabled : BOOLEAN, autonomous : BOOLEAN]
    BY DEF CompetitionChange, vars, Inv, TypeOK
  <1>2. UNCHANGED <<mon, monRun, monIdx, state, vexKillAll, run, timedOut, pending, pc, tp,
                    persistent, elNext, elListener, locked, cmd, val, hung>>
    BY DEF CompetitionChange, vars, monVars, thrVars, tblVars, motVars
  <1>3. TypeOK /\ TypeOK'
    BY <1>1, <1>2, TypesOK DEF Inv, Types
  <1>4. TableInv' /\ (\A t : Registered(t)' <=> Registered(t)) /\ OrderInv'
    BY <1>2, TableFrame, OrderFrame DEF Inv, Intact
  <1>5. \A t : Live(t)' <=> Live(t)
    BY <1>2 DEF Live
  <1>6. (NoneBegins' <=> NoneBegins) /\ (KeepersBegun' <=> KeepersBegun)
    BY <1>2, <1>5 DEF NoneBegins, KeepersBegun
  <1>7. ThreadInv' /\ UserInv'
    BY <1>2, <1>4, <1>5 DEF Inv, ThreadInv, UserInv
  <1>8. PhaseInv'
    BY <1>2, <1>5, <1>6
    DEF Inv, PhaseInv, CleanBetweenPhases, EmergencyStopIsFinal, AfterTick, Reaped
  <1>9. ListInv' /\ HungInv'
    BY <1>2, <1>3, <1>5, <1>6, ListFrame DEF Inv, Intact, HungInv
  <1> QED
    BY <1>3, <1>4, <1>7, <1>8, <1>9 DEF Inv

-----------------------------------------------------------------------------
(* The results.                                                            *)

\* Every step keeps the invariant.
LEMMA NextInv ==
  ASSUME Inv, [Next]_vars
  PROVE  Inv'
  <1>1. CASE Monitor
    BY <1>1, MonitorLooksInv, MonitorSelectInv, MonitorBroadcastInv, MonitorSettleInv,
       MonitorReapInv, MonitorDoneInv
    DEF Monitor
  <1>2. CASE \E t \in Threads : ThreadStep(t)
    <2>1. PICK t \in Threads : ThreadStep(t)
      BY <1>2
    <2>2. CASE vexSleepTerminate(t)
      BY <2>2, TerminateInv
    <2>3. CASE t = User /\ UserStep
      BY <2>3, UserBeginInv, UserStartInv, UserReturnInv, RoundsInv DEF UserStep
    <2>4. CASE t \in Workers /\ (WorkerBegin(t) \/ WorkerBody(t) \/ WorkerPause(t) \/ WorkerMove(t))
      BY <2>4, WorkerBeginInv, RoundsInv
    <2>5. CASE t \in Keepers /\ (KeeperBegin(t) \/ KeeperBody(t))
      BY <2>5, KeeperBeginInv, RoundsInv
    <2> QED
      BY <2>1, <2>2, <2>3, <2>4, <2>5 DEF ThreadStep
  <1>3. CASE vexTaskEmergencyStop
    BY <1>3, EmergencyStopInv
  <1>4. CASE \E ts \in SUBSET Asleep, m \in BOOLEAN : Tick(ts, m)
    BY <1>4, TickInv
  <1>5. CASE CompetitionChange \/ Spin \/ UNCHANGED vars
    BY <1>5, CompetitionChangeInv DEF Spin
  <1> QED
    BY <1>1, <1>2, <1>3, <1>4, <1>5 DEF Next

\* The invariant holds in every reachable state.
LEMMA Invariant == Spec => []Inv
  <1>1. Init => Inv
    BY InitInv
  <1>2. Inv /\ [Next]_vars => Inv'
    BY NextInv
  <1> QED
    BY <1>1, <1>2, PTL DEF Spec

\* Every variable of the monitor, the threads, the table and the listener list
\* keeps to its type; in particular the list never leads out of the table.
THEOREM TypeCorrect == Spec => []TypeOK
  <1>1. Inv => TypeOK
    BY DEF Inv
  <1> QED
    BY <1>1, Invariant, PTL

\* Whatever the competition switch does and whenever, the monitor is back at the
\* top of its loop only when no thread of the phase is alive or registered.
THEOREM CleanPhases == Spec => []CleanBetweenPhases
  <1>1. Inv => CleanBetweenPhases
    BY DEF Inv, PhaseInv, CleanBetweenPhases
  <1> QED
    BY <1>1, Invariant, PTL

\* The monitor that has come to rest after vexTaskEmergencyStop has ended every
\* thread, the persistent ones too, and no motor runs.
THEOREM EmergencyStopFinal == Spec => []EmergencyStopIsFinal
  <1>1. Inv => EmergencyStopIsFinal
    BY DEF Inv, PhaseInv
  <1> QED
    BY <1>1, Invariant, PTL

\* No thread is created in a working area in which one is still alive.
THEOREM NoOverwrite == Spec => NoLiveOverwrite
  <1>1. Inv => (MonitorSelect => run[User] = "final")
    BY ThreadFacts DEF Inv, PhaseInv, CleanBetweenPhases, MonitorSelect, MonitorRuns
  <1>2. Inv => (UserStart => \A w \in Workers : run[w] = "final")
    BY DEF Inv, UserInv, UserStart, Awake, Running, Live
  <1>3. Inv => [/\ MonitorSelect => run[User] = "final"
                /\ UserStart => \A w \in Workers : run[w] = "final"]_vars
    BY <1>1, <1>2
  <1> QED
    BY <1>3, Invariant, PTL DEF NoLiveOverwrite

\* Only a thread that takes the event ends, or a routine that returns.
LEMMA WhoEnds ==
  ASSUME Inv, [Next]_vars, NEW t \in Threads, t # User, Live(t), ~ Live(t)'
  PROVE  vexSleepTerminate(t)
  <1>1. TypeOK
    BY DEF Inv
  <1>2. ASSUME run' = run PROVE FALSE
    BY <1>2 DEF Live
  <1>3. ASSUME NEW u \in Threads, NEW next, EnterSleep(u, next) PROVE FALSE
    BY <1>1, <1>3 DEF EnterSleep, SleepState, TypeOK, Live
  <1>4. ASSUME NEW ts, NEW other, Create(ts, other) PROVE FALSE
    BY <1>4 DEF Create, Live
  <1>5. ASSUME NEW u \in Threads, Exit(u) PROVE u = t
    BY <1>1, <1>5, ExitFacts
  <1>6. CASE Monitor
    <2>1. CASE MonitorSelect
      BY <1>4, <2>1 DEF MonitorSelect
    <2>2. CASE MonitorBroadcast
      BY <2>2 DEF MonitorBroadcast, Live
    <2>3. CASE MonitorIdle \/ MonitorRun \/ MonitorSettle \/ MonitorReap \/ MonitorDone \/ MonitorKilled
      BY <1>2, <2>3
      DEF MonitorIdle, MonitorRun, MonitorSettle, MonitorReap, MonitorDone, MonitorKilled, thrVars
    <2> QED
      BY <1>6, <2>1, <2>2, <2>3 DEF Monitor
  <1>7. CASE \E u \in Threads : ThreadStep(u)
    <2>1. PICK u \in Threads : ThreadStep(u)
      BY <1>7
    <2>2. CASE vexSleepTerminate(u)
      BY <1>5, <2>2 DEF vexSleepTerminate
    <2>3. CASE u = User /\ UserStep
      BY <1>3, <1>4, <1>5, <2>3 DEF UserStep, UserBegin, UserStart, UserMode, UserReturn, UserLoop
    <2>4. CASE u \in Workers /\ (WorkerBegin(u) \/ WorkerBody(u) \/ WorkerPause(u) \/ WorkerMove(u))
      BY <1>2, <1>3, <2>4 DEF WorkerBegin, WorkerBody, WorkerPause, WorkerMove
    <2>5. CASE u \in Keepers /\ (KeeperBegin(u) \/ KeeperBody(u))
      BY <1>2, <1>3, <2>5 DEF KeeperBegin, KeeperBody
    <2> QED
      BY <2>1, <2>2, <2>3, <2>4, <2>5 DEF ThreadStep
  <1>8. CASE vexTaskEmergencyStop \/ CompetitionChange \/ Spin \/ UNCHANGED vars
    BY <1>2, <1>8 DEF vexTaskEmergencyStop, CompetitionChange, Spin, vars, thrVars
  <1>9. CASE \E ts \in SUBSET Asleep, m \in BOOLEAN : Tick(ts, m)
    BY <1>9 DEF Tick, Live
  <1> QED
    BY <1>6, <1>7, <1>8, <1>9 DEF Next

\* A persistent thread is ended by an emergency stop and by nothing else: the
\* event of a phase change finds its flag set, in the one slot it has.
THEOREM PersistentThreadsSurvive == Spec => PersistentSurvives
  <1>1. ASSUME Inv, [Next]_vars, NEW k \in Keepers, run[k] # "final", run'[k] = "final"
        PROVE  vexKillAll
    <2>1. k \in Threads /\ k # User
      BY ThreadFacts
    <2>2. vexSleepTerminate(k)
      BY <1>1, <2>1, WhoEnds DEF Live
    <2>3. Registered(k)
      BY <1>1, <2>1, <2>2, TerminateFacts
    <2>4. SlotsOf(k) # {} /\ SlotsOf(k) \in SUBSET Nat
      BY <2>3, SlotFacts DEF SlotsOf, Registered
    <2>5. Min(SlotsOf(k)) \in Slots /\ tp[Min(SlotsOf(k))] = k
      BY <2>4, MinFacts DEF SlotsOf
    <2>6. ~ persistent[Min(SlotsOf(k))]
      BY <2>2, <2>4 DEF vexSleepTerminate, KeepsRunning
    <2> QED
      BY <1>1, <2>5, <2>6 DEF Inv, TableInv
  <1>2. Inv /\ [Next]_vars =>
          [\A k \in Keepers : run[k] # "final" /\ run'[k] = "final" => vexKillAll]_vars
    BY <1>1
  <1> QED
    BY <1>2, Invariant, PTL DEF Spec, PersistentSurvives

\* While an autonomous routine is alive no other thread gives a command: the
\* mechanisms are not locked, none is in the middle of a move it began while it
\* was, and the slew task has long been through its first step.
THEOREM RoutineCommands == Spec => RoutineInControl
  <1>1. ASSUME Inv, [Next]_vars, run[User] # "final", pc[User] = "mode", cmd' # cmd
        PROVE  UserMode
    <2>1. ~ locked /\ \A w \in Workers : Live(w) => pc[w] # "move"
      BY <1>1 DEF Inv, UserInv, Live
    <2>2. KeepersBegun
      BY <1>1, ThreadFacts DEF Inv, PhaseInv, CleanBetweenPhases
    <2>3. CASE Monitor
      BY <1>1, <2>3
      DEF Monitor, MonitorIdle, MonitorSelect, MonitorRun, MonitorBroadcast, MonitorSettle,
          MonitorReap, MonitorDone, MonitorKilled, motVars
    <2>4. CASE \E t \in Threads : ThreadStep(t)
      <3>1. PICK t \in Threads : ThreadStep(t)
        BY <2>4
      <3>2. CASE vexSleepTerminate(t)
        BY <1>1, <3>2 DEF vexSleepTerminate, motVars
      <3>3. CASE t = User /\ UserStep
        BY <1>1, <3>3 DEF UserStep, UserBegin, UserStart, UserReturn, UserLoop, motVars
      <3>4. CASE t \in Workers /\ (WorkerBegin(t) \/ WorkerBody(t) \/ WorkerPause(t) \/ WorkerMove(t))
        BY <1>1, <2>1, <3>4
        DEF WorkerBegin, WorkerBody, WorkerPause, WorkerMove, motVars, Awake, Running, Live
      <3>5. CASE t \in Keepers /\ (KeeperBegin(t) \/ KeeperBody(t))
        BY <1>1, <2>2, <3>5 DEF KeeperBegin, KeeperBody, KeepersBegun, Awake, Running, Live
      <3> QED
        BY <3>1, <3>2, <3>3, <3>4, <3>5 DEF ThreadStep
    <2>5. CASE vexTaskEmergencyStop \/ CompetitionChange \/ Spin \/ UNCHANGED vars
      BY <1>1, <2>5 DEF vexTaskEmergencyStop, CompetitionChange, Spin, vars, motVars
    <2>6. CASE \E ts \in SUBSET Asleep, m \in BOOLEAN : Tick(ts, m)
      BY <1>1, <2>6 DEF Tick, motVars
    <2> QED
      BY <1>1, <2>3, <2>4, <2>5, <2>6 DEF Next
  <1>2. Inv /\ [Next]_vars =>
          [run[User] # "final" /\ pc[User] = "mode" /\ cmd' # cmd => UserMode]_vars
    BY <1>1
  <1> QED
    BY <1>2, Invariant, PTL DEF Spec, RoutineInControl

\* A list of listeners ends and has the slot of every live thread that has one.
LEMMA ListReaches ==
  ASSUME NEW n, NEW q, ListOf(n, q)
  PROVE  ListEnds(elNext) /\ \A i \in Slots : Listening(i) => i \in Listeners(elNext)
  BY ListFacts DEF ListOf

\* While no phase runs and the kernel does not spin, every live thread that has
\* registered is on the listener list, and the list ends: the slots that
\* routines have left behind lead nowhere else until a phase registers again.
THEOREM RegisteredListen ==
  Spec => [](~ hung /\ mon \notin {"run", "ending"} => RegisteredAreListening)
  <1>1. ASSUME Inv, ~ hung, mon \notin {"run", "ending"} PROVE RegisteredAreListening
    <2>1. PICK n, q : ListOf(n, q)
      BY <1>1 DEF Inv, ListInv, Doomed
    <2>2. ASSUME NEW t \in Threads, run[t] # "final", SlotsOf(t) # {}
          PROVE  SlotsOf(t) \cap Listeners(elNext) # {}
      <3>1. PICK i \in Slots : tp[i] = t
        BY <2>2 DEF SlotsOf
      <3>2. Listening(i)
        BY <2>2, <3>1, ThreadFacts DEF Listening, Live
      <3> QED
        BY <2>1, <3>1, <3>2, ListReaches DEF SlotsOf
    <2> QED
      BY <2>1, <2>2, ListReaches DEF RegisteredAreListening
  <1> QED
    BY <1>1, Invariant, PTL

\* Whether or not routines return early: a broadcast that ends has found no
\* closed circle, so the list holds every live thread that has registered.
THEOREM BroadcastReaches == Spec => BroadcastReachesAll
  <1>1. ASSUME Inv, MonitorBroadcast, ~ hung', NEW t \in Threads, run[t] # "final", SlotsOf(t) # {}
        PROVE  pending'[t]
    <2>1. ListEnds(elNext) /\ ~ hung /\ elNext \in [Node -> Node]
      BY <1>1, TypesOK, Zenon DEF MonitorBroadcast, MonitorRuns, Inv, Types
    <2>2. ~ Doomed
      BY <2>1, ClosedNeverEnds DEF Doomed
    <2>3. PICK n, q : ListOf(n, q)
      BY <1>1, <2>1, <2>2 DEF Inv, ListInv
    <2>4. PICK i \in Slots : tp[i] = t
      BY <1>1 DEF SlotsOf
    <2>5. i \in Listeners(elNext) /\ elListener[i] = t
      BY <1>1, <2>3, <2>4, ListReaches, ThreadFacts DEF Listening, Live, Inv, TableInv
    <2>6. t \in Signalled
      BY <2>5 DEF Signalled
    <2> QED
      BY <1>1, <2>6, Zenon DEF MonitorBroadcast
  <1>2. Inv => [MonitorBroadcast /\ ~ hung' =>
                  \A t \in Threads : run[t] # "final" /\ SlotsOf(t) # {} => pending'[t]]_vars
    BY <1>1
  <1> QED
    BY <1>2, Invariant, PTL DEF BroadcastReachesAll
=============================================================================
