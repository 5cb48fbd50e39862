-------------------------- MODULE ConfigGenerations --------------------------
(***************************************************************************)
(* The frozen configuration behind avro.API (config.go, codec.go).         *)
(*                                                                         *)
(* Config.Freeze returns an owner whose "current" pointer names the newest *)
(* generation: an immutable set of registrations with caches and pools of  *)
(* its own.  Register and RegisterTypeConverters replace the generation    *)
(* under a mutex; encoding and decoding never take it: they snapshot the   *)
(* pointer once per datum and look up, build and publish codecs in the     *)
(* snapshot's cache, also for the values nested in the datum.              *)
(***************************************************************************)
EXTENDS Integers, Sequences, FiniteSets

CONSTANTS
  Registrars,  \* goroutines that register
  NoOne,       \* nobody holds the mutex
  Workers,     \* goroutines that encode or decode
  Names,       \* what Register can name
  Converters,  \* the types RegisterTypeConverters can convert
  Keys,        \* cache keys: schema and Go type
  Caching,     \* ~Config.DisableCaching
  MaxGens,     \* bound: generations, one per registration and the first
  MaxDepth     \* bound: values nested in one datum

ASSUME GensAssumption  == MaxGens \in Nat \ {0} /\ MaxDepth \in Nat
ASSUME NoOneAssumption == NoOne \notin Registrars
ASSUME SlotsAssumption == Names \cap Converters = {}
ASSUME CachingAssumption == Caching \in BOOLEAN

VARIABLES
  ngens,    \* generations created so far
  gens,     \* gens[g][s]: the generation that registered s last, as g knows it
  current,  \* frozenConfig.current of the owner
  mutex,    \* the holder of regMu, or NoOne
  stack,    \* the registration calls a registrar is in, innermost last
  caches,   \* caches[g][k]: the generation a cached codec was built from, or 0
  pc,       \* idle, lookup, build, publish or use
  cfg,      \* Reader.cfg, Writer.cfg
  depth,    \* Reader.valDepth, Writer.valDepth
  key,      \* the value being coded
  built,    \* the codec built and not yet published, by its generation
  used,     \* history: generations whose registrations shaped the datum so far
  start,    \* history: the generation current when the datum began
  last      \* history: the last generation that registered a slot

vars == << ngens, gens, current, mutex, stack, caches, pc, cfg, depth, key, built, used, start, last >>
regVars  == << ngens, gens, current, mutex, stack, last >>
workVars == << caches, pc, cfg, depth, key, built, used, start >>

Gens  == 1 .. MaxGens
Slots == Names \cup Converters

\* Frames of a registration call: what it registers, where it is, and the
\* generation it cloned.
Frame(slots, at) == [slots |-> slots, at |-> at, old |-> 1]
Top(t) == stack[t][Len(stack[t])]

Init ==
  /\ ngens = 1 /\ current = 1 /\ mutex = NoOne
  /\ gens = [g \in Gens |-> [s \in Slots |-> 1]]
  /\ last = [s \in Slots |-> 1]
  /\ stack = [t \in Registrars |-> << >>]
  /\ caches = [g \in Gens |-> [k \in Keys |-> 0]]
  /\ pc = [w \in Workers |-> "idle"]
  /\ cfg = [w \in Workers |-> 1] /\ start = [w \in Workers |-> 1]
  /\ depth = [w \in Workers |-> 0]
  /\ key \in [Workers -> Keys]
  /\ built = [w \in Workers |-> 1]
  /\ used = [w \in Workers |-> {}]
------------------------------------------------------------------------------
\* Registrations that may still happen: each makes one generation.
PendingCalls == UNION { { << t, i >> : i \in DOMAIN stack[t] } : t \in Registrars }
MayCall == ngens + Cardinality(PendingCalls) < MaxGens

Push(t, frame) == stack' = [stack EXCEPT ![t] = Append(@, frame)]
Pop(t)         == stack' = [stack EXCEPT ![t] = SubSeq(@, 1, Len(@) - 1)]
Goto(t, at)    == stack' = [stack EXCEPT ![t][Len(stack[t])].at = at]

\* Register, called by a goroutine or by the user code that a running
\* RegisterTypeConverters asks for its metadata.
Register(t, n) ==
  /\ MayCall
  /\ stack[t] # << >> => Top(t).at = "metadata"
  /\ Push(t, Frame({n}, "lock"))
  /\ UNCHANGED << ngens, gens, current, mutex, last, workVars >>

\* RegisterTypeConverters starts with the converters' own Type and LogicalType.
RegisterTypeConverters(t, S) ==
  /\ MayCall
  /\ stack[t] = << >>
  /\ Push(t, Frame(S, "metadata"))
  /\ UNCHANGED << ngens, gens, current, mutex, last, workVars >>

\* Mutant: the lock is taken before the metadata is asked for.
MetadataLocked(t) ==
  /\ stack[t] # << >> /\ Top(t).at = "metadata" /\ mutex \in {NoOne, t}
  /\ IF mutex = NoOne THEN mutex' = t /\ UNCHANGED stack ELSE Goto(t, "clone") /\ UNCHANGED mutex
  /\ UNCHANGED << ngens, gens, current, last, workVars >>

\* The metadata is there; with no converter left the call returns.
Metadata(t) ==
  /\ stack[t] # << >> /\ Top(t).at = "metadata"
  /\ IF Top(t).slots = {} THEN Pop(t) ELSE Goto(t, "lock")
  /\ UNCHANGED << ngens, gens, current, mutex, last, workVars >>

\* Mutant: regMu is not taken.
LockFree(t) == TRUE
MayLock(t)  == mutex = NoOne

Lock(t) ==
  /\ stack[t] # << >> /\ Top(t).at = "lock" /\ MayLock(t)
  /\ mutex' = t
  /\ Goto(t, "clone")
  /\ UNCHANGED << ngens, gens, current, last, workVars >>

\* old := c.snapshot() and the clone of its registrations.
Clone(t) ==
  /\ stack[t] # << >> /\ Top(t).at = "clone"
  /\ stack' = [stack EXCEPT ![t][Len(stack[t])] = [@ EXCEPT !.at = "store", !.old = current]]
  /\ UNCHANGED << ngens, gens, current, mutex, last, workVars >>

\* c.current.Store(newFrozenConfig(...)), then the deferred unlock.
Store(t) ==
  LET new == ngens + 1 IN
  /\ stack[t] # << >> /\ Top(t).at = "store" /\ new \in Gens
  /\ ngens' = new /\ current' = new
  /\ gens' = [gens EXCEPT ![new] =
                [s \in Slots |-> IF s \in Top(t).slots THEN new ELSE gens[Top(t).old][s]]]
  /\ last' = [s \in Slots |-> IF s \in Top(t).slots THEN new ELSE last[s]]
  /\ mutex' = NoOne
  /\ Pop(t)
  /\ UNCHANGED workVars
------------------------------------------------------------------------------
\* Mutants: generations share one cache; a codec is built from the newest
\* registrations; a nested value takes a snapshot of its own.
SharedCache(g)   == 1
NewestBuild(w)   == current
FreshSnapshot(w) == current

\* Each generation owns its cache; DecoderOf and the build contexts snapshot a
\* generation, which is that generation; only a value at depth 0 resnapshots.
CacheOf(g)    == g
BuildOf(w)    == cfg[w]
NestedCfg(w)  == cfg[w]

\* Marshal, Unmarshal, or ReadVal and WriteVal on a stream, at depth 0.
BeginDatum(w, k) ==
  /\ pc[w] = "idle"
  /\ cfg' = [cfg EXCEPT ![w] = current]
  /\ start' = [start EXCEPT ![w] = current]
  /\ used' = [used EXCEPT ![w] = {}]
  /\ depth' = [depth EXCEPT ![w] = 1]
  /\ key' = [key EXCEPT ![w] = k]
  /\ pc' = [pc EXCEPT ![w] = "lookup"]
  /\ UNCHANGED << caches, built, regVars >>

\* getDecoderFromCache in ReadVal, and again in DecoderOf ("build").
Lookup(w) ==
  LET cached == caches[CacheOf(cfg[w])][key[w]] IN
  /\ pc[w] \in {"lookup", "build"}
  /\ Caching /\ cached # 0
  /\ used' = [used EXCEPT ![w] = @ \cup {cached}]
  /\ pc' = [pc EXCEPT ![w] = "use"]
  /\ UNCHANGED << caches, cfg, depth, key, built, start, regVars >>

Miss(w) ==
  /\ pc[w] = "lookup"
  /\ Caching => caches[CacheOf(cfg[w])][key[w]] = 0
  /\ pc' = [pc EXCEPT ![w] = "build"]
  /\ UNCHANGED << caches, cfg, depth, key, built, used, start, regVars >>

\* decoderOfType, with the resolver and the converters of the build context.
Build(w) ==
  /\ pc[w] = "build"
  /\ Caching => caches[CacheOf(cfg[w])][key[w]] = 0
  /\ built' = [built EXCEPT ![w] = BuildOf(w)]
  /\ pc' = [pc EXCEPT ![w] = "publish"]
  /\ UNCHANGED << caches, cfg, depth, key, used, start, regVars >>

\* addDecoderToCache, which replaces what another goroutine published meanwhile.
Publish(w) ==
  /\ pc[w] = "publish"
  /\ caches' = IF Caching THEN [caches EXCEPT ![CacheOf(cfg[w])][key[w]] = built[w]] ELSE caches
  /\ used' = [used EXCEPT ![w] = @ \cup {built[w]}]
  /\ pc' = [pc EXCEPT ![w] = "use"]
  /\ UNCHANGED << cfg, depth, key, built, start, regVars >>

\* The codec runs; a converter is looked up through Reader.cfg at that time.
Convert(w) ==
  /\ pc[w] = "use"
  /\ used' = [used EXCEPT ![w] = @ \cup {cfg[w]}]
  /\ UNCHANGED << caches, pc, cfg, depth, key, built, start, regVars >>

\* The codec meets a value of its own: ReadVal in a dynamic or default value.
Nest(w, k) ==
  /\ pc[w] = "use" /\ depth[w] < MaxDepth
  /\ depth' = [depth EXCEPT ![w] = @ + 1]
  /\ cfg' = [cfg EXCEPT ![w] = NestedCfg(w)]
  /\ key' = [key EXCEPT ![w] = k]
  /\ pc' = [pc EXCEPT ![w] = "lookup"]
  /\ UNCHANGED << caches, built, used, start, regVars >>

Return(w) ==
  /\ pc[w] = "use"
  /\ depth' = [depth EXCEPT ![w] = @ - 1]
  /\ pc' = [pc EXCEPT ![w] = IF depth[w] = 1 THEN "idle" ELSE "use"]
  /\ UNCHANGED << caches, cfg, key, built, used, start, regVars >>

RegistrarStep(t) == Metadata(t) \/ Lock(t) \/ Clone(t) \/ Store(t)

Next ==
  \/ \E t \in Registrars :
       \/ \E n \in Names : Register(t, n)
       \/ \E S \in SUBSET Converters : RegisterTypeConverters(t, S)
       \/ RegistrarStep(t)
  \/ \E w \in Workers :
       \/ \E k \in Keys : BeginDatum(w, k) \/ Nest(w, k)
       \/ Lookup(w) \/ Miss(w) \/ Build(w) \/ Publish(w) \/ Convert(w) \/ Return(w)

Spec == Init /\ [][Next]_vars

\* A call that can take its next step takes it; a goroutine that waits for
\* regMu gets it in the end (sync.Mutex hands over to a starving waiter).
Fairness == \A t \in Registrars :
  /\ WF_vars(Metadata(t)) /\ SF_vars(Lock(t)) /\ WF_vars(Clone(t)) /\ WF_vars(Store(t))

FairSpec == Spec /\ Fairness
------------------------------------------------------------------------------
Frames == [slots : (SUBSET Slots), at : {"metadata", "lock", "clone", "store"}, old : Gens]

\* Every variable keeps its type; generation numbers stay within those created.
TypeOK ==
  /\ ngens \in Gens /\ current \in 1 .. ngens
  /\ gens \in [Gens -> [Slots -> Gens]] /\ last \in [Slots -> Gens]
  /\ mutex \in Registrars \cup {NoOne}
  /\ stack \in [Registrars -> Seq(Frames)]
  /\ caches \in [Gens -> [Keys -> {0} \cup Gens]]
  /\ pc \in [Workers -> {"idle", "lookup", "build", "publish", "use"}]
  /\ cfg \in [Workers -> Gens] /\ start \in [Workers -> Gens] /\ built \in [Workers -> Gens]
  /\ depth \in [Workers -> Int] /\ key \in [Workers -> Keys]
  /\ used \in [Workers -> SUBSET Gens]

\* No registration is lost to a concurrent one: the current generation knows,
\* for every slot, the last registration that completed.
NoLostRegistration == gens[current] = last

\* One datum, with all the values nested in it, is coded with the registrations
\* of one generation, however many are published meanwhile.
OneSnapshotPerDatum == \A w \in Workers : pc[w] # "idle" => used[w] \subseteq {start[w]}

\* An older build never shows up in a newer cache: a generation's cache holds
\* only codecs built from its own registrations.
CachesOwnTheirBuilds == \A g \in Gens, k \in Keys : caches[g][k] \in {0, g}

\* Only the holder of regMu clones and stores, and it holds what it cloned.
RegistrationExclusive ==
  \A t \in Registrars : \A i \in 1 .. Len(stack[t]) :
    /\ stack[t][i].at \in {"clone", "store"} => mutex = t /\ i = Len(stack[t])
    /\ stack[t][i].at = "store" => stack[t][i].old = current

\* The API moves forward: a registration a generation had is never undone.
RegistrationsOnlyGrow ==
  [][/\ current' >= current
     /\ \A s \in Slots : gens'[current'][s] >= gens[current][s]]_vars

\* Every registration call returns, also when the converters' metadata methods
\* register names themselves.
RegistrationReturns == \A t \in Registrars : (stack[t] # << >>) ~> (stack[t] = << >>)
==============================================================================
