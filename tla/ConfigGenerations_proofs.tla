----------------------- MODULE ConfigGenerations_proofs -----------------------
(***************************************************************************)
(* Proofs about ConfigGenerations, for any number of registrars, workers,  *)
(* names, converters, cache keys and generations.                          *)
(***************************************************************************)
EXTENDS ConfigGenerations, SequenceTheorems, TLAPS

\* Popping a call keeps the calls below it.
LEMMA PopFrame ==
  ASSUME NEW S, NEW s \in Seq(S), s # << >>
  PROVE  /\ SubSeq(s, 1, Len(s) - 1) \in Seq(S)
         /\ Len(SubSeq(s, 1, Len(s) - 1)) = Len(s) - 1
         /\ \A i \in 1 .. Len(s) - 1 : SubSeq(s, 1, Len(s) - 1)[i] = s[i]
<1>1. Len(s) \in Nat \ {0}
  BY EmptySeq
<1>2. Len(s) - 1 \in Nat /\ Len(s) - 1 < Len(s)
  BY <1>1
<1>3. \A n \in Nat : n < Len(s) =>
        SubSeq(s, 1, n) \in Seq(S) /\ Len(SubSeq(s, 1, n)) = n /\ \A i \in 1 .. n : SubSeq(s, 1, n)[i] = s[i]
  OBVIOUS
<1>. QED  BY <1>2, <1>3

\* Rewriting the innermost call keeps the calls below it.
LEMMA RewriteTop ==
  ASSUME NEW S, NEW s \in Seq(S), s # << >>, NEW e \in S
  PROVE  /\ [s EXCEPT ![Len(s)] = e] \in Seq(S)
         /\ Len([s EXCEPT ![Len(s)] = e]) = Len(s)
         /\ [s EXCEPT ![Len(s)] = e][Len(s)] = e
         /\ \A i \in 1 .. Len(s) : i # Len(s) => [s EXCEPT ![Len(s)] = e][i] = s[i]
<1>1. Len(s) \in 1 .. Len(s)
  BY EmptySeq
<1>. QED  BY <1>1, ExceptSeq

\* The innermost call of a registrar is a frame.
LEMMA TopFrame ==
  ASSUME TypeOK, NEW t \in Registrars, stack[t] # << >>
  PROVE  Top(t) \in Frames /\ Len(stack[t]) \in Nat \ {0}
<1>1. stack[t] \in Seq(Frames)
  BY DEF TypeOK
<1>2. Len(stack[t]) \in Nat \ {0}
  BY <1>1, EmptySeq
<1>. QED  BY <1>1, <1>2, ElementOfSeq DEF Top
------------------------------------------------------------------------------
\* Every variable keeps its type, through every registration and every datum:
\* generation numbers and call stacks stay what the code takes them for.
THEOREM TypeCorrect == Spec => []TypeOK
<1>1. Init => TypeOK
  <2>. SUFFICES ASSUME Init PROVE TypeOK
    OBVIOUS
  <2>1. 1 \in Gens
    BY GensAssumption DEF Gens
  <2>. QED  BY <2>1, EmptySeq DEF Init, TypeOK
<1>2. TypeOK /\ [Next]_vars => TypeOK'
  <2>. SUFFICES ASSUME TypeOK, [Next]_vars PROVE TypeOK'
    OBVIOUS
  <2>. USE DEF TypeOK
  <2>1. ASSUME NEW t \in Registrars, NEW S \in SUBSET Slots, NEW at \in {"metadata", "lock"},
               Push(t, Frame(S, at)), UNCHANGED << ngens, gens, current, mutex, last, workVars >>
        PROVE  TypeOK'
    <3>1. Frame(S, at) \in Frames
      BY GensAssumption DEF Frame, Frames, Gens
    <3>2. Append(stack[t], Frame(S, at)) \in Seq(Frames)
      BY <3>1, AppendProperties
    <3>3. stack' \in [Registrars -> Seq(Frames)]
      BY <2>1, <3>2 DEF Push
    <3>. QED  BY <2>1, <3>3 DEF workVars
  <2>2. ASSUME NEW t \in Registrars, NEW n \in Names, Register(t, n) PROVE TypeOK'
    BY <2>1, <2>2 DEF Register, Slots
  <2>3. ASSUME NEW t \in Registrars, NEW S \in SUBSET Converters, RegisterTypeConverters(t, S)
        PROVE  TypeOK'
    BY <2>1, <2>3 DEF RegisterTypeConverters, Slots
  <2>4. ASSUME NEW t \in Registrars, stack[t] # << >>, Pop(t)
        PROVE  stack' \in [Registrars -> Seq(Frames)]
    <3>1. SubSeq(stack[t], 1, Len(stack[t]) - 1) \in Seq(Frames)
      BY <2>4, PopFrame
    <3>. QED  BY <2>4, <3>1 DEF Pop
  <2>5. ASSUME NEW t \in Registrars, stack[t] # << >>, NEW e \in Frames,
               stack' = [stack EXCEPT ![t] = [@ EXCEPT ![Len(stack[t])] = e]]
        PROVE  stack' \in [Registrars -> Seq(Frames)]
    <3>1. [stack[t] EXCEPT ![Len(stack[t])] = e] \in Seq(Frames)
      BY <2>5, RewriteTop
    <3>. QED  BY <2>5, <3>1
  <2>6. ASSUME NEW t \in Registrars, stack[t] # << >>,
               NEW at \in {"metadata", "lock", "clone", "store"}, Goto(t, at)
        PROVE  stack' \in [Registrars -> Seq(Frames)]
    <3>1. [Top(t) EXCEPT !.at = at] \in Frames
      BY <2>6, TopFrame DEF Frames
    <3>2. stack' = [stack EXCEPT ![t] = [@ EXCEPT ![Len(stack[t])] = [Top(t) EXCEPT !.at = at]]]
      BY <2>6 DEF Goto, Top
    <3>. QED  BY <2>5, <2>6, <3>1, <3>2
  <2>7. ASSUME NEW t \in Registrars, Metadata(t) PROVE TypeOK'
    BY <2>4, <2>6, <2>7 DEF Metadata, workVars
  <2>8. ASSUME NEW t \in Registrars, Lock(t) PROVE TypeOK'
    BY <2>6, <2>8 DEF Lock, workVars
  <2>9. ASSUME NEW t \in Registrars, Clone(t) PROVE TypeOK'
    <3>0. stack[t] # << >> /\ current \in Gens
      BY <2>9, GensAssumption DEF Clone, Gens
    <3>1. [Top(t) EXCEPT !.at = "store", !.old = current] \in Frames
      BY <3>0, TopFrame DEF Frames
    <3>2. stack' = [stack EXCEPT ![t] = [@ EXCEPT ![Len(stack[t])] =
                      [Top(t) EXCEPT !.at = "store", !.old = current]]]
      BY <2>9 DEF Clone, Top
    <3>. QED  BY <2>5, <2>9, <3>1, <3>2 DEF Clone, workVars
  <2>10. ASSUME NEW t \in Registrars, Store(t) PROVE TypeOK'
    <3>1. stack' \in [Registrars -> Seq(Frames)]
      BY <2>4, <2>10 DEF Store
    <3>2. ngens + 1 \in Gens /\ current' \in 1 .. ngens' /\ Top(t) \in Frames
      BY <2>10, TopFrame DEF Store, Gens
    <3>3. gens' \in [Gens -> [Slots -> Gens]] /\ last' \in [Slots -> Gens]
      BY <2>10, <3>2 DEF Store, Frames
    <3>. QED  BY <2>10, <3>1, <3>2, <3>3 DEF Store, workVars
  <2>11. ASSUME NEW w \in Workers, NEW k \in Keys, BeginDatum(w, k) PROVE TypeOK'
    <3>1. current \in Gens
      BY GensAssumption DEF Gens
    <3>. QED  BY <2>11, <3>1 DEF BeginDatum, regVars
  <2>12. ASSUME NEW w \in Workers, NEW k \in Keys, Nest(w, k) PROVE TypeOK'
    BY <2>12 DEF Nest, NestedCfg, regVars
  <2>13. ASSUME NEW w \in Workers, Lookup(w) PROVE TypeOK'
    <3>1. caches[cfg[w]][key[w]] \in {0} \cup Gens
      OBVIOUS
    <3>2. used' \in [Workers -> SUBSET Gens]
      BY <2>13, <3>1 DEF Lookup, CacheOf
    <3>. QED  BY <2>13, <3>2 DEF Lookup, regVars
  <2>14. ASSUME NEW w \in Workers, Miss(w) PROVE TypeOK'
    BY <2>14 DEF Miss, regVars
  <2>15. ASSUME NEW w \in Workers, Build(w) PROVE TypeOK'
    BY <2>15 DEF Build, BuildOf, regVars
  <2>16. ASSUME NEW w \in Workers, Publish(w) PROVE TypeOK'
    <3>1. caches' \in [Gens -> [Keys -> {0} \cup Gens]]
      BY <2>16 DEF Publish, CacheOf
    <3>2. used' \in [Workers -> SUBSET Gens]
      BY <2>16 DEF Publish
    <3>. QED  BY <2>16, <3>1, <3>2 DEF Publish, regVars
  <2>17. ASSUME NEW w \in Workers, Convert(w) PROVE TypeOK'
    BY <2>17 DEF Convert, regVars
  <2>18. ASSUME NEW w \in Workers, Return(w) PROVE TypeOK'
    BY <2>18 DEF Return, regVars
  <2>19. CASE UNCHANGED vars
    BY <2>19 DEF vars, regVars, workVars
  <2>. QED  BY <2>2, <2>3, <2>7, <2>8, <2>9, <2>10, <2>11, <2>12, <2>13, <2>14, <2>15, <2>16,
              <2>17, <2>18, <2>19 DEF Next, RegistrarStep
<1>. QED  BY <1>1, <1>2, PTL DEF Spec
------------------------------------------------------------------------------
\* What the registrations rest on: the mutex, nothing lost, and no slot of the
\* current generation newer than the generations created so far.
RegistrationInv ==
  /\ TypeOK
  /\ RegistrationExclusive
  /\ NoLostRegistration
  /\ \A s \in Slots : gens[current][s] <= ngens

\* One step of an encoding or decoding goroutine.
WorkerStep(w) ==
  \/ \E k \in Keys : BeginDatum(w, k) \/ Nest(w, k)
  \/ Lookup(w) \/ Miss(w) \/ Build(w) \/ Publish(w) \/ Convert(w) \/ Return(w)

LEMMA WorkersDoNotRegister == \A w \in Workers : WorkerStep(w) => UNCHANGED regVars
BY DEF WorkerStep, BeginDatum, Nest, Lookup, Miss, Build, Publish, Convert, Return

\* regMu does its work: a registration clones and stores alone, and stores on
\* top of the generation that is still current.
LEMMA ExclusiveStep == TypeOK /\ RegistrationExclusive /\ [Next]_vars => RegistrationExclusive'
<1>. SUFFICES ASSUME TypeOK, RegistrationExclusive, [Next]_vars PROVE RegistrationExclusive'
  OBVIOUS
<1>0. \A t \in Registrars : stack[t] \in Seq(Frames) /\ Len(stack[t]) \in Nat
  BY DEF TypeOK
<1>1. ASSUME NEW t \in Registrars, NEW S \in SUBSET Slots, NEW at \in {"metadata", "lock"},
             stack[t] # << >> => Top(t).at = "metadata",
             Push(t, Frame(S, at)), UNCHANGED << mutex, current >>
      PROVE  RegistrationExclusive'
  <2>1. Frame(S, at) \in Frames /\ Frame(S, at).at = at
    BY GensAssumption DEF Frame, Frames, Gens
  <2>2. DOMAIN stack = Registrars
    BY DEF TypeOK
  <2>3. stack'[t] = Append(stack[t], Frame(S, at)) /\ \A u \in Registrars \ {t} : stack'[u] = stack[u]
    BY <1>1, <2>2 DEF Push
  <2>4. /\ Len(stack'[t]) = Len(stack[t]) + 1
        /\ stack'[t][Len(stack[t]) + 1] = Frame(S, at)
        /\ \A i \in 1 .. Len(stack[t]) : stack'[t][i] = stack[t][i]
    BY <1>0, <2>1, <2>3, AppendProperties
  <2>5. \A i \in 1 .. Len(stack[t]) : stack[t][i].at \notin {"clone", "store"}
    BY <1>0, <1>1 DEF RegistrationExclusive, Top
  <2>6. \A i \in 1 .. Len(stack'[t]) : stack'[t][i].at \notin {"clone", "store"}
    <3>. TAKE i \in 1 .. Len(stack'[t])
    <3>1. i \in 1 .. Len(stack[t]) \/ i = Len(stack[t]) + 1
      BY <1>0, <2>4
    <3>. QED  BY <2>1, <2>4, <2>5, <3>1
  <2>. QED  BY <1>1, <2>3, <2>6 DEF RegistrationExclusive
<1>2. ASSUME NEW t \in Registrars, stack[t] # << >>, Pop(t)
      PROVE  /\ \A u \in Registrars \ {t} : stack'[u] = stack[u]
             /\ \A i \in 1 .. Len(stack'[t]) : stack'[t][i].at \notin {"clone", "store"}
  <2>1. stack'[t] = SubSeq(stack[t], 1, Len(stack[t]) - 1) /\ \A u \in Registrars \ {t} : stack'[u] = stack[u]
    BY <1>2 DEF Pop, TypeOK
  <2>2. Len(stack'[t]) = Len(stack[t]) - 1 /\ \A i \in 1 .. Len(stack[t]) - 1 : stack'[t][i] = stack[t][i]
    BY <1>0, <1>2, <2>1, PopFrame
  <2>3. \A i \in 1 .. Len(stack[t]) - 1 : stack[t][i].at \notin {"clone", "store"}
    BY <1>0 DEF RegistrationExclusive
  <2>. QED  BY <2>1, <2>2, <2>3
<1>3. ASSUME NEW t \in Registrars, stack[t] # << >>, NEW e \in Frames, mutex' \in {mutex, t}, mutex # NoOne => mutex = mutex',
             stack' = [stack EXCEPT ![t] = [@ EXCEPT ![Len(stack[t])] = e]], current' = current,
             e.at \in {"clone", "store"} => mutex' = t,
             e.at = "store" => e.old = current
      PROVE  RegistrationExclusive'
  <2>1. stack'[t] = [stack[t] EXCEPT ![Len(stack[t])] = e] /\ \A u \in Registrars \ {t} : stack'[u] = stack[u]
    BY <1>3 DEF TypeOK
  <2>2. /\ Len(stack'[t]) = Len(stack[t]) /\ stack'[t][Len(stack[t])] = e
        /\ \A i \in 1 .. Len(stack[t]) : i # Len(stack[t]) => stack'[t][i] = stack[t][i]
    BY <1>0, <1>3, <2>1, RewriteTop
  <2>3. ASSUME NEW u \in Registrars \ {t}, NEW i \in 1 .. Len(stack'[u])
        PROVE  /\ stack'[u][i].at \in {"clone", "store"} => mutex' = u /\ i = Len(stack'[u])
               /\ stack'[u][i].at = "store" => stack'[u][i].old = current'
    BY <1>3, <2>1, NoOneAssumption DEF RegistrationExclusive
  <2>4. ASSUME NEW i \in 1 .. Len(stack'[t])
        PROVE  /\ stack'[t][i].at \in {"clone", "store"} => mutex' = t /\ i = Len(stack'[t])
               /\ stack'[t][i].at = "store" => stack'[t][i].old = current'
    BY <1>3, <2>2 DEF RegistrationExclusive
  <2>. QED  BY <2>3, <2>4 DEF RegistrationExclusive
<1>4. ASSUME NEW t \in Registrars, NEW n \in Names, Register(t, n) PROVE RegistrationExclusive'
  BY <1>1, <1>4 DEF Register, Slots
<1>5. ASSUME NEW t \in Registrars, NEW S \in SUBSET Converters, RegisterTypeConverters(t, S)
      PROVE  RegistrationExclusive'
  BY <1>1, <1>5 DEF RegisterTypeConverters, Slots
<1>6. ASSUME NEW t \in Registrars, stack[t] # << >>, NEW at \in {"lock", "clone"}, Goto(t, at)
      PROVE  /\ [Top(t) EXCEPT !.at = at] \in Frames /\ [Top(t) EXCEPT !.at = at].at = at
             /\ stack' = [stack EXCEPT ![t] = [@ EXCEPT ![Len(stack[t])] = [Top(t) EXCEPT !.at = at]]]
  BY <1>6, TopFrame DEF Frames, Goto, Top
<1>7. ASSUME NEW t \in Registrars, Metadata(t) PROVE RegistrationExclusive'
  <2>1. CASE Pop(t)
    BY <1>2, <1>7, <2>1 DEF Metadata, RegistrationExclusive
  <2>2. CASE Goto(t, "lock")
    BY <1>3, <1>6, <1>7, <2>2 DEF Metadata
  <2>. QED  BY <1>7, <2>1, <2>2 DEF Metadata
<1>8. ASSUME NEW t \in Registrars, Lock(t) PROVE RegistrationExclusive'
  BY <1>3, <1>6, <1>8 DEF Lock, MayLock
<1>9. ASSUME NEW t \in Registrars, Clone(t) PROVE RegistrationExclusive'
  <2> DEFINE e == [Top(t) EXCEPT !.at = "store", !.old = current]
  <2>0. stack[t] # << >> /\ Len(stack[t]) \in 1 .. Len(stack[t]) /\ Top(t).at = "clone"
    BY <1>0, <1>9, EmptySeq DEF Clone
  <2>a. current \in Gens
    BY GensAssumption DEF TypeOK, Gens
  <2>b. mutex = t
    BY <2>0 DEF RegistrationExclusive, Top
  <2>1. stack[t] # << >> /\ current \in Gens /\ mutex = t
    BY <2>0, <2>a, <2>b
  <2>2. e \in Frames /\ e.at = "store" /\ e.old = current
    BY <2>1, TopFrame DEF Frames
  <2>3. stack' = [stack EXCEPT ![t] = [@ EXCEPT ![Len(stack[t])] = e]]
    BY <1>9 DEF Clone, Top
  <2>. HIDE DEF e
  <2>. QED  BY <1>3, <1>9, <2>1, <2>2, <2>3 DEF Clone
<1>10. ASSUME NEW t \in Registrars, Store(t) PROVE RegistrationExclusive'
  <2>1. mutex = t
    BY <1>0, <1>10 DEF Store, RegistrationExclusive, Top
  <2>2. \A u \in Registrars \ {t} : \A i \in 1 .. Len(stack[u]) : stack[u][i].at \notin {"clone", "store"}
    BY <2>1 DEF RegistrationExclusive
  <2>. QED  BY <1>2, <1>10, <2>2 DEF Store, RegistrationExclusive
<1>11. ASSUME UNCHANGED << stack, mutex, current >> PROVE RegistrationExclusive'
  BY <1>11 DEF RegistrationExclusive
<1>12. ASSUME NEW w \in Workers, WorkerStep(w) PROVE UNCHANGED regVars
  BY <1>12, WorkersDoNotRegister
<1>. QED
  BY <1>4, <1>5, <1>7, <1>8, <1>9, <1>10, <1>11, <1>12
  DEF Next, RegistrarStep, WorkerStep, vars, regVars
------------------------------------------------------------------------------
\* The registrar about to store holds the mutex and cloned the generation that
\* is still current.
LEMMA StoresOnCurrent ==
  ASSUME TypeOK, RegistrationExclusive, NEW t \in Registrars, Store(t)
  PROVE  Top(t) \in Frames /\ Top(t).old = current
<1>1. stack[t] # << >> /\ Top(t).at = "store" /\ stack[t] \in Seq(Frames)
  BY DEF Store, TypeOK
<1>2. Len(stack[t]) \in 1 .. Len(stack[t])
  BY <1>1, EmptySeq
<1>. QED  BY <1>1, <1>2, TopFrame DEF RegistrationExclusive, Top

\* Generation numbers are integers, also those a generation keeps for its slots.
LEMMA GenerationNumbers ==
  ASSUME TypeOK
  PROVE  /\ ngens \in Int /\ current \in Gens /\ current \in Int /\ current <= ngens
         /\ \A s \in Slots : gens[current][s] \in Int
<1>1. ngens \in 1 .. MaxGens /\ current \in 1 .. ngens
  BY DEF TypeOK, Gens
<1>2. current \in Gens /\ \A g \in Gens : g \in Int
  BY <1>1, GensAssumption DEF Gens
<1>3. \A s \in Slots : gens[current][s] \in Gens
  BY <1>2 DEF TypeOK
<1>4. ngens \in Int /\ current \in Int /\ \A s \in Slots : gens[current][s] \in Int
  BY <1>1, <1>2, <1>3 DEF Gens
<1>5. current <= ngens
  BY <1>1, <1>4
<1>. QED  BY <1>2, <1>4, <1>5

\* A step that stores nothing leaves the generations alone.
LEMMA OnlyStoreChanges ==
  [Next]_vars => (\E t \in Registrars : Store(t)) \/ UNCHANGED << ngens, gens, current, last >>
<1>. SUFFICES ASSUME [Next]_vars
              PROVE  (\E t \in Registrars : Store(t)) \/ UNCHANGED << ngens, gens, current, last >>
  OBVIOUS
<1>1. ASSUME NEW w \in Workers, WorkerStep(w) PROVE UNCHANGED << ngens, gens, current, last >>
  BY <1>1, WorkersDoNotRegister DEF regVars
<1>2. ASSUME NEW t \in Registrars,
             \/ \E n \in Names : Register(t, n)
             \/ \E S \in SUBSET Converters : RegisterTypeConverters(t, S)
             \/ Metadata(t) \/ Lock(t) \/ Clone(t)
      PROVE  UNCHANGED << ngens, gens, current, last >>
  BY <1>2 DEF Register, RegisterTypeConverters, Metadata, Lock, Clone
<1>. QED  BY <1>1, <1>2 DEF Next, WorkerStep, RegistrarStep, vars

LEMMA RegistrationInductive == Spec => []RegistrationInv
<1>1. Init => RegistrationExclusive /\ NoLostRegistration /\ \A s \in Slots : gens[current][s] <= ngens
  <2>. SUFFICES ASSUME Init
                PROVE  RegistrationExclusive /\ NoLostRegistration /\ \A s \in Slots : gens[current][s] <= ngens
    OBVIOUS
  <2>1. 1 \in Gens
    BY GensAssumption DEF Gens
  <2>2. \A t \in Registrars : stack[t] = << >> /\ Len(stack[t]) = 0
    BY EmptySeq DEF Init
  <2>. QED  BY <2>1, <2>2 DEF Init, RegistrationExclusive, NoLostRegistration
<1>2. RegistrationInv /\ [Next]_vars /\ TypeOK' => RegistrationInv'
  <2>. SUFFICES ASSUME RegistrationInv, [Next]_vars, TypeOK' PROVE RegistrationInv'
    OBVIOUS
  <2>1. RegistrationExclusive'
    BY ExclusiveStep DEF RegistrationInv
  <2>2. ASSUME NEW t \in Registrars, Store(t)
        PROVE  NoLostRegistration' /\ \A s \in Slots : gens'[current'][s] <= ngens'
    <3>1. Top(t) \in Frames /\ Top(t).old = current
      BY <2>2, StoresOnCurrent DEF RegistrationInv
    <3>2. /\ current' = ngens + 1 /\ ngens' = ngens + 1 /\ ngens + 1 \in Gens
          /\ gens'[ngens + 1] = [s \in Slots |-> IF s \in Top(t).slots THEN ngens + 1 ELSE gens[current][s]]
          /\ last' = [s \in Slots |-> IF s \in Top(t).slots THEN ngens + 1 ELSE last[s]]
      BY <2>2, <3>1 DEF Store, RegistrationInv, TypeOK
    <3>3. NoLostRegistration'
      BY <3>2 DEF RegistrationInv, NoLostRegistration
    <3>4. ngens \in Int /\ \A s \in Slots : gens[current][s] \in Int /\ gens[current][s] <= ngens
      BY GenerationNumbers DEF RegistrationInv
    <3>5. \A s \in Slots : gens'[current'][s] <= ngens'
      BY <3>2, <3>4
    <3>. QED  BY <3>3, <3>5
  <2>3. ASSUME UNCHANGED << ngens, gens, current, last >>
        PROVE  NoLostRegistration' /\ \A s \in Slots : gens'[current'][s] <= ngens'
    BY <2>3 DEF RegistrationInv, NoLostRegistration
  <2>. QED  BY <2>1, <2>2, <2>3, OnlyStoreChanges DEF RegistrationInv
<1>. QED  BY <1>1, <1>2, TypeCorrect, PTL DEF Spec, RegistrationInv

\* For any number of goroutines registering at once, also from inside a
\* converter's metadata methods, no registration is lost: Config.Register and
\* RegisterTypeConverters clone and publish under one mutex.
THEOREM NoRegistrationIsLost == Spec => []NoLostRegistration
BY RegistrationInductive, PTL DEF RegistrationInv

\* The critical section of Register and RegisterTypeConverters is exclusive.
THEOREM RegistrationsExclude == Spec => []RegistrationExclusive
BY RegistrationInductive, PTL DEF RegistrationInv

\* Generations only move forward, and none undoes a registration.
THEOREM RegistrationsGrow == Spec => RegistrationsOnlyGrow
<1> DEFINE Grows == /\ current' >= current
                    /\ \A s \in Slots : gens'[current'][s] >= gens[current][s]
<1>1. RegistrationInv /\ [Next]_vars => [Grows]_vars
  <2>. SUFFICES ASSUME RegistrationInv, [Next]_vars PROVE Grows \/ UNCHANGED vars
    OBVIOUS
  <2>0. /\ ngens \in Int /\ current \in Int /\ current <= ngens
        /\ \A s \in Slots : gens[current][s] \in Int /\ gens[current][s] <= ngens
    BY GenerationNumbers DEF RegistrationInv
  <2>1. ASSUME NEW t \in Registrars, Store(t) PROVE Grows
    <3>1. Top(t).old = current
      BY <2>1, StoresOnCurrent DEF RegistrationInv
    <3>2. /\ current' = ngens + 1 /\ ngens + 1 \in Gens
          /\ gens'[ngens + 1] = [s \in Slots |-> IF s \in Top(t).slots THEN ngens + 1 ELSE gens[current][s]]
      BY <2>1, <3>1 DEF Store, RegistrationInv, TypeOK
    <3>. QED  BY <2>0, <3>2
  <2>2. ASSUME UNCHANGED << ngens, gens, current, last >> PROVE Grows
    BY <2>0, <2>2
  <2>. QED  BY <2>1, <2>2, OnlyStoreChanges
<1>. QED  BY <1>1, RegistrationInductive, PTL DEF Spec, RegistrationsOnlyGrow
------------------------------------------------------------------------------
\* What a datum rests on: it keeps the generation it began with, and a codec on
\* its way into a cache was built from that cache's generation.
DatumInv ==
  /\ CachesOwnTheirBuilds
  /\ OneSnapshotPerDatum
  /\ \A w \in Workers : pc[w] # "idle" => cfg[w] = start[w]
  /\ \A w \in Workers : pc[w] = "publish" => built[w] = cfg[w]

LEMMA DatumInductive == Spec => [](TypeOK /\ DatumInv)
<1>1. Init => DatumInv
  BY DEF Init, DatumInv, CachesOwnTheirBuilds, OneSnapshotPerDatum
<1>2. TypeOK /\ DatumInv /\ [Next]_vars => DatumInv'
  <2>. SUFFICES ASSUME TypeOK, DatumInv, [Next]_vars PROVE DatumInv'
    OBVIOUS
  <2>. USE DEF DatumInv, CachesOwnTheirBuilds, OneSnapshotPerDatum
  <2>0. /\ DOMAIN pc = Workers /\ DOMAIN cfg = Workers /\ DOMAIN start = Workers
        /\ DOMAIN built = Workers /\ DOMAIN used = Workers /\ DOMAIN depth = Workers
        /\ \A w \in Workers : cfg[w] \in Gens /\ key[w] \in Keys
    BY DEF TypeOK
  <2>1. ASSUME NEW w \in Workers, NEW k \in Keys, BeginDatum(w, k) PROVE DatumInv'
    BY <2>0, <2>1 DEF BeginDatum
  <2>2. ASSUME NEW w \in Workers, NEW k \in Keys, Nest(w, k) PROVE DatumInv'
    BY <2>0, <2>2 DEF Nest, NestedCfg
  <2>3. ASSUME NEW w \in Workers, Lookup(w) PROVE DatumInv'
    <3>1. caches[cfg[w]][key[w]] = start[w]
      BY <2>0, <2>3 DEF Lookup, CacheOf
    <3>. QED  BY <2>0, <2>3, <3>1 DEF Lookup, CacheOf
  <2>4. ASSUME NEW w \in Workers, Miss(w) \/ Convert(w) \/ Return(w) PROVE DatumInv'
    BY <2>0, <2>4 DEF Miss, Convert, Return
  <2>5. ASSUME NEW w \in Workers, Build(w) PROVE DatumInv'
    BY <2>0, <2>5 DEF Build, BuildOf
  <2>6. ASSUME NEW w \in Workers, Publish(w) PROVE DatumInv'
    <3>1. built[w] = cfg[w] /\ cfg[w] = start[w]
      BY <2>6 DEF Publish
    <3>2. CachesOwnTheirBuilds'
      BY <2>0, <2>6, <3>1 DEF Publish, CacheOf, TypeOK
    <3>. QED  BY <2>0, <2>6, <3>1, <3>2 DEF Publish
  <2>7. ASSUME UNCHANGED workVars PROVE DatumInv'
    BY <2>7 DEF workVars
  <2>8. ASSUME NEW t \in Registrars,
               \/ \E n \in Names : Register(t, n)
               \/ \E S \in SUBSET Converters : RegisterTypeConverters(t, S)
               \/ RegistrarStep(t)
        PROVE  UNCHANGED workVars
    BY <2>8 DEF Register, RegisterTypeConverters, RegistrarStep, Metadata, Lock, Clone, Store
  <2>. QED  BY <2>1, <2>2, <2>3, <2>4, <2>5, <2>6, <2>7, <2>8 DEF Next, vars, workVars
<1>. QED  BY <1>1, <1>2, TypeCorrect, PTL DEF Spec

\* For any number of workers and registrations: everything that shapes one
\* datum, and all the values nested in it, comes from one generation.
THEOREM DatumHasOneSnapshot == Spec => []OneSnapshotPerDatum
BY DatumInductive, PTL DEF DatumInv

\* An in-flight build never publishes into another generation's cache.
THEOREM CachesAreGenerational == Spec => []CachesOwnTheirBuilds
BY DatumInductive, PTL DEF DatumInv
==============================================================================
