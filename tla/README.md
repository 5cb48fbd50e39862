# Verification of awaken/avro

TLA+ models of the Go library in `src/`, the TLC runs that check them on small instances, and
proofs, checked by TLAPS, of the main safety properties for every value of the constants.

    tlasany M.tla                       # parse
    tlc -workers 2 -config X.cfg M      # model-check; PROJECT.json lists the pairs
    tlapm M.tla                         # check the proofs of Induction or a *_proofs module

`PROJECT.json` maps every definition that models code to its lines, and gives for each property a
*mutant*: a plausible bug in that code, under which TLC must find the property violated. The mutant
operators stand, marked as such, in front of the definition they would replace; no specification
uses them.

## 1. The system

The library encodes and decodes Avro data. A schema is parsed from JSON into a graph of Go objects;
a frozen configuration (`avro.API`) builds, for a pair of schema and Go type, an encoder or decoder
and caches it; these work on a `Writer` (one byte buffer) or a `Reader` (a buffer over an
`io.Reader`). On top are container files (`ocf`), single-object encoding (`soe`), a client of a
schema registry (`registry`), and code generation (`gen`, `cmd`).

| Component | State | Operations | Talks to |
|---|---|---|---|
| OCF encoder (`ocf/ocf.go`) | record count, record buffer, header, sync marker, failed and closed flags | NewEncoder (new or append), Encode, Write, Flush, Close, Reset | `avro.Writer`, a codec, an `io.Writer` or a file |
| OCF decoder (`ocf/ocf.go`) | reader, records left of the block, marker | NewDecoder, HasNext, Decode, Error, Close | `avro.Reader`, a codec |
| OCF codecs (`ocf/codec.go`) | pooled compressors | Encode, Decode | compression libraries |
| Frozen configuration (`config.go`, `codec.go`, `resolver.go`, `typeconverter.go`) | pointer to the current generation; per generation: registrations, caches, pools | Register, RegisterTypeConverters, encode and decode, DecoderOf, EncoderOf | Reader, Writer, user converters |
| Schema compatibility and resolution (`schema_compatibility.go`, `schema_resolution.go`) | cache of decided pairs; per call: pairs being decided, records under construction | Compatible, Resolve | schema graph, codecs that follow what Resolve returns |
| Reader (`reader.go`, `reader_skip.go`) | buffer, pending error, sticky error | ReadX, SkipX, Peek, Read, Reset | `io.Reader` |
| Writer (`writer.go`) | buffer, sticky error | WriteX, WriteBlockCB, Flush, Reset | `io.Writer` |
| Arrays and maps (`codec_array.go`, `codec_map.go`, `codec_skip.go`, `reader_generic.go`) | per call: items so far, items left of the block | Decode, Encode, skip, callbacks | Reader, Writer |
| Schema parsing (`schema_parse.go`) and `SchemaCache` (`schema.go`) | names to schemas, shared by all goroutines; per call: a copy and the names seen | Parse, ParseWithCache, ... | the shared cache |
| Schema types, canonical form, fingerprints (`schema.go`, `schema_walk.go`, `pkg/crc64`) | lazily cached texts and fingerprints | String, Fingerprint, CacheFingerprint | |
| Native, fixed and decimal codecs (`codec_native.go`, `codec_fixed.go`, `converter.go`, `decimal.go`) | the Go variable | Decode, Encode | Reader, Writer |
| Record, union, enum and default codecs (`codec_record.go`, `codec_union.go`, `codec_enum.go`, `codec_skip.go`, `codec_default.go`, ...) | the Go variable, the cached codec of schema and type | Decode, Encode, skip | Reader, Writer, type resolver |
| Registry (`registry/*.go`) | caches by id and by GUID | GetSchema, GetSchemaByGUID, CreateSchema, ..., Decoder.Decode | HTTP service, schema parsing, API |
| Single-object encoding (`soe/*.go`) | schema store of the resolver | Encode, Decode | API |
| Protocols, generation, commands | none beyond a call | | schema parsing |

### What is hard, and what makes each part correct

*Failures in the middle.* The OCF encoder buffers twice (records, then bytes) and either buffer can
be left behind by an error, a short write, a Reset or a crash. Correct means: what was accepted and
what landed differ only where an error said so; nothing lands twice, out of order or in the wrong
file; the file stays readable.

*Damage.* The OCF decoder must tell the end of a file from a cut, a damaged or a miscounted block, and
give out nothing that is not in it.

*Goroutines.* Registrations race with each other, with running datums and with the building of
codecs. Correct means: no registration is lost or undone, a datum uses one set of registrations, no
codec of an old set gets into a new cache, and user code called on the way cannot deadlock.
Parses race on the shared schema cache; only schemas of whole texts may be seen by others, and names
that were there remain usable. Compatibility checks race on one cache of verdicts.

The registry's client keeps what it was told in two caches while others register and delete; what a
cache holds must be what the registry has under that number, and one lookup must not borrow another's names.

*Recursion.* A verdict on a recursive schema rests on assumptions about pairs still being decided.
Resolution walks the same graphs, and its result refers to records that it is still building.

*Two schemas at once.* Data laid out by one schema is read as another's: fields move, are skipped or
are set by default, symbols and branches have the writer's numbers, and a decoder is cached under a
fingerprint that has to tell all of this apart.

*Arbitrary pieces and boundaries.* A Reader gets its bytes in pieces that cut values anywhere, with
errors that come with the last bytes or after them, or empty reads for ever. Lengths of varints,
`MinInt64` as a count, limits counted over several blocks, and the move of a block behind its header
in the same memory are off-by-one territory. So are integers of every Go width and sign, instants
before the epoch, and decimals at powers of 256.

The list of hazards with their lines is `hazards` in `PROJECT.json`.

## 2. The modules

### Container files

`OcfFormat` is the format both sides share. A file is a sequence of *cells*: header, and for each
block count, size, data, sync; the last cell may be *torn* by a failed write. Record bytes are
abstracted to record numbers, compression to the format under which data decodes. `Landings` is what
may have reached an output when a Write fails: any number of whole cells and possibly part of one.

`RecordStream` is the promise: records are accepted one by one and are delivered all together, in
order, to the output they were accepted for, or an error says that they may not have been.

`OcfEncoder` is the encoder, one action for each exported method and each way it ends. An `Encoder`
is documented for use by one goroutine, so a method call is atomic; what interleaves are failures:
the one `Write` a flush makes succeeds, fails after any landing, or the process dies in it, and it
may die between calls. `files`, `wbuf`, `werr` are the outputs and `Writer.buf`, `Writer.Error`;
`count`, `buf`, `failed`, `closed`, `innerErr`, `header`, `fmt`, `sync` are the fields of
`ocf.Encoder` and its inner encoder. A new encoder may be constructed after Close or a crash, on the
same file (append) or the next. Constructing a second encoder while another is open on the file is
not modelled. A fresh sync marker is the number of the output: random markers are taken to differ.

`OcfDecoder` is the decoder; each turn of the loop in HasNext is an action. `OcfFile` joins encoder
and decoder: a reader opens an output of the encoder at any moment, or a foreign file from the family
in `MCOcfFile`. A Write to an output is seen whole once it succeeded, or as far as it landed when it
failed; a reader that sees half of a Write still in progress is not modelled (it would see what a
landing leaves).

### The frozen configuration

`ConfigGenerations`: `ngens`, `gens`, `current` are the generations (`frozenConfig`) and the atomic
pointer to the newest one; `mutex` is `regMu`; `stack` is where each registering goroutine is,
including a `Register` called from a converter's own `Type` or `LogicalType` method, which
RegisterTypeConverters calls before it locks. The steps between which another goroutine can run are
separate actions: Metadata, Lock, Clone, Store. Workers encode or decode: BeginDatum takes the
snapshot, Lookup, Miss, Build and Publish are the steps of getting a codec, Convert a call of a
converter at run time, Nest a value inside the datum. A codec is identified by the generation it was
built from.

### Schema compatibility

`SchemaCompat`: schemas are nodes of a graph, so recursion is a cycle. `Match` gives, for a pair, what
`match` asks and whether all or one of it must hold; Compatible, Enter/Assume/Load, AskNext, Store
and Return are the steps of the recursive walk with its cache, run by several goroutines. The
reference is `ReadablePairs`, Avro's rules for schema resolution written declaratively (`Readable`)
and taken as the greatest set of pairs closed under them. Fingerprints that key the cache are taken to be
injective. `MCSchemaCompat` holds the schema graphs.

### Resolution, and the codecs of records, unions, enums and defaults

`SchemaResolve` works on the same graphs. A *plan* is what Resolve returns for a pair: the reader's own
schema (`Self`), or a node built for data of the writer (`Pair`). The code builds a placeholder for a
recursive record and fills it in; a plan names its pair and computes its children (`Items`, `Branches`,
`PlanFields`), which is the same graph unrolled on demand. `Encode`, `Decode`, `Skip` are the codecs
over a wire of tokens, one for each number, text or block header; blocks and numbers in detail are the
business of other modules. `Decode` reads into an `any` through the cached decoders or with ReadNext,
`DecodeFields` also into a struct that has some of the fields, by name or alias. `TypedDefault`
is what parsing makes of a default, `DefaultValue` what is encoded of it when a decoder is built.
`CompatNode`, `CacheNode`, `Binding`, `CacheKey` are the fingerprints, as the values that are hashed.

The steps are Ask (Resolve), Write, Read and Done, by one caller over a cache of decoders that lives
on; interleavings over that cache are in `ConfigGenerations`. The reference is `ReadAs`, which says from
the two schemas alone what Avro's rules make of a value. Compatible is taken to be right here: the constant
`Resolvable` is what the rules of `SchemaCompat` make readable; when it is not, is the finding of
`compat_answers`.

### Native, fixed and decimal codecs

`GoNumbers` is Go's integers of a width, conversions that wrap, floats with a mantissa, instants and
their units; `Decimals` is `decimal.go`; `NativeCodec` is the choice of the codec for a schema and a Go type
and what each codec does to the variable, the wire and the error. Widths are scaled (an `int64` has ten bits),
keeping their order, so that TLC runs over every value there is. A behaviour starts from the
wire (Receive, Decode, Encode) or from a Go value (Assign, Encode, Decode).

### Registry

`RegistryClient`: goroutines over the two caches of one Client. A request is sent, served at some moment
(or fails before or after its effect) and its answer is handled: three steps, between which others run.
References of a GUID are fetched one by one, each such a request. The registry itself is external and
modelled by what the client relies on: ids and GUIDs are for ever, the latest version may change,
versions may be deleted. `Designation` is the choice of `Decoder.DecodeHeaders` among message headers and prefix.

### Bytes

`ByteStream` is the promise of the `Reader`: an operation's outcome is a function of the stream, the
position and the operation. Bytes are scaled: `GroupBits`, `IntBits`, `LongBits` stand for 7, 32
and 64, so that a byte has a last group with fewer usable bits as in the code. `ByteReader` is the
code: buffer, loadMore and its pending error, fast and slow paths, skips. `ByteWriter` writes varints,
with the code's special cases for one and two bytes; `WrittenNumbers` has any ints and longs written one
after the other and read or skipped with the operations that fit them, and `MCByteReader` takes pairs of them.

### Arrays and maps

Here a number is one cell. `BlockWriter` is the array and map encoders over WriteBlockCB, with the
memory behind `Writer.buf` as it is: stale cells beyond the length, room left for a header, the move
of the data behind the real one. An item's encoder is one step and may fail part-way. `BlockFormat`
says how blocks are framed. `BlockReader` is the decoders' loops, the callback loops and the skip
decoder over ReadBlockHeader; `op` says which. `Blocks` joins them: what an encoder left, what other
writers frame, whole or cut, and arbitrary streams are read. The array decoder has two limits
(`MaxSliceAllocSize` and one of the runtime); both are `MaxItems`. An item refused for its content
(text that is not UTF-8, a key its unmarshaler refuses) is not distinguished from other errors.

### Schema parsing

`SchemaParse`: a text is the sequence of its definitions and uses of names, in the order they are
parsed; parsing can fail at any of them. A call copies the shared `sync.Map` name by name, parses on
its copy, and stores the copy name by name. Definitions are identified by the call that made them.
A nil cache, and the private clone of the graph it makes, are local to a call and not modelled;
neither is `SchemaCache.Add` called directly by a user, which anybody may do at any time.

## 3. The runs

| Run | Question | Properties |
|---|---|---|
| `ocf_encoder` | Is any record lost, repeated or misfiled without an error, over failing and short writes, Reset, Close, crash and append? | NothingLostSilently, SuccessMeansDelivered, DeliveredOnceInOrder, OutputsAreContainers, FailureReturnedOnce, RejectionLeavesNoTrace, ImplementsRecordStream |
| `ocf_file` | Does a reader get what was accepted, at whatever moment it opens an output, end cleanly only on whole files, foreign ones too, and end at all? | ReaderGetsAccepted, CleanEndMeansAll, HealthyReadsClean, ReadLoopEnds |
| `config_generations` | Do racing registrations and datums keep apart, and does every registration return, also when a converter registers? | NoLostRegistration, OneSnapshotPerDatum, CachesOwnTheirBuilds, RegistrationReturns |
| `compat` | What holds of verdicts with two goroutines on one cache, and is the verdict exactly right without recursion? | ErrorsAreGenuine, AssumptionsConfirmed, ExactWithoutRecursion |
| `compat_answers` | Is the answer always right? No: see the findings. | AnswersAreRight (violated) |
| `byte_reader` | Does every operation do what it would do on the whole stream, return even when the source returns nothing for ever, and read and skip every number as written? | ImplementsByteStream, OperationsReturn, WrittenReadsBack |
| `blocks` | Are collections framed right, whatever the memory held? Do decoders, callbacks and skips agree on every framing, notice every cut, and keep the limit? | LimitHolds, FramedReadsBack, WrittenIsFramed |
| `schema_parse` | What can two goroutines that parse see of each other? | OnlyWholeTextsAreShared, EarlierNamesAreKnown, OwnDefinitionsWin, LoneCallReplaces |
| `native_codec` | Is what a native, fixed or decimal codec publishes what the wire means, does a refusal leave the variable, does a round trip keep wire and value, and is what can be represented encoded? | DecodedIsExact, RefusalsLeaveVariable, TripsPreserve, EncodesTheRepresentable |
| `registry_client` | Do caches and answers hold what the registry has, under races, lost answers, deletions and invalid references; is a message decoded by the schema it names; does every call return? | CachesAreTrue, AnswersAreRegistered, MessagesNameTheirSchema, EveryCallReturns |
| `schema_resolve` | Does Resolve succeed on compatible schemas, does decoding by its plan give what Avro's rules give, is what is skipped as long as what was written, does no plan get another's decoder? | CompatibleResolves, DecodingIsResolution, SkippingKeepsPlace, CacheSeparatesPlans |
| `resolved_defaults` | Can every written value be read with the resolved schema? No: see the findings. | ResolvedReads (violated) |

### Bounds

* `ocf_encoder`: two outputs, so that Reset has where to go and misfiling can happen; two formats, so
  that an append's format can differ from the configured one; blocks of two records or three bytes,
  records of zero or three bytes, so that either limit is met first, together with records of no
  bytes; three records, one more than a block. `MaxOutputs` and `MaxRecords` bound the run, the rest is
  configuration.
* `ocf_file`: of the encoder, two records, one in the first block and one in the next or in a second
  file. Foreign files have two blocks of up to three records around limits of two records and four
  bytes; one block is damaged in its count (-1 to 3), its marker, its format or a record, or the file
  is cut at any cell. Two blocks are enough to tell the end of a file from the end of a block.
* `config_generations`: two registering and two working goroutines, four generations, data nested two
  deep, all values under one cache key, where they can meet: one registration can overtake another,
  one can be made by the metadata of another, and a datum can meet three of them. `MaxGens` and
  `MaxDepth` are bounds on the run.
* `compat`, `compat_answers`: a pair of mutually recursive records that disagree in one field, self-recursive lists
  with an alias, a promotion and a default, and one pair for each rule and way to break it. `Rounds`
  bounds only the iteration of the reference sets; an ASSUME checks that they are fixed points. So it
  does in `MCSchemaResolve`, which takes `Resolvable` from there.
* `byte_reader`: two-bit groups, three-bit ints and five-bit longs: two and three bytes at most, the
  last one holding one bit. Streams of up to three of five byte values, with some longer ones. The
  buffer of four is larger than the longest varint, so the fast path is taken, and pieces make the
  slow one. `MaxStream` bounds the streams.
  The numbers written and read back are all pairs of four and five bits.
* `blocks`: written are blocks of two, up to four items of zero cells or more. The dummy header is
  two cells as in the code, where it is the longest header there is. Read are framings of up to four
  items (one more than `MaxItems`) in two blocks, each sized or not; every cut of them; every stream
  of four numbers of a small set that has the least long in it.
* `schema_parse`: two goroutines, three calls, two names, six texts: define, use, recursive with an
  alias, a redefinition, an unknown name.

* `native_codec`: every primitive and fixed schema with every logical type against every Go type the
  dispatch names, on a 64-bit platform, and Go's `int` also on a 32-bit one; all numbers of the ten bits that stand for 64.
  The lengths of seconds, days and years are chosen so that each overflow and each bound of
  the code lies inside the range, which `GoNumbersAssumption` states, and so that the lowest and highest
  timestamps lie within a second, as Go's do. Decimals have one or three digits and up to a
  few bytes, with lengths and limits on both sides of what fits.
* `registry_client`: two goroutines, three calls between them, of every kind; a name with two versions, used by
  different GUIDs; references that are missing, malformed, doubled, too many (`MaxReferences` is two)
  or do not match. With two calls they can race on one key, and the third looks at what is left.
* `schema_resolve`: pairs of schema documents, each there for one rule or a combination of them:
  promotion, alias, ignored and defaulted fields, reordered symbols and branches, recursion, collections
  that are skipped; two pairs share a reader, so that their decoders could be confused. `CacheBound` bounds the
  decoders cached.

Deadlock is checked except where the system stops: a decoder that was refused and an encoder that
has used its bounds (`ocf_file`), a call that has returned (`blocks`), runs that end after their calls
(`schema_parse`, `registry_client`), behaviours of one trip (`native_codec`), and the resolving runs,
which stop when `CacheBound` decoders are cached.

### Fairness

* `ocf_file`: of the reader only, none of the encoder: a call that began runs on (weak fairness of
  Open, which is NewDecoder, of ReadBlock and of HasNextReturn), and the caller keeps calling HasNext and Decode, as the documented
  loop does; these two are strongly fair because a call of one disables the other for a while.
* `config_generations`: a goroutine that can take a step takes it; Lock is strongly fair, since
  `sync.Mutex` hands over to a waiter that has starved for a millisecond. Workers need no fairness:
  registration does not wait for them.
* `byte_reader`: the operation in progress runs on. The source may return nothing for ever.

* `registry_client`: a goroutine that has its answer handles it, and every request ends, with an answer or
  an error: `defaultClient` in `registry/client.go` has a timeout. A client without one, passed by the
  user, may wait for ever.

### The findings

`compat_answers` (`code_bug`, `src/schema_compatibility.go:185`). The doc of Compatible says that it
"determines whether the reader can read the writer schema". For recursive schemas it may answer yes
wrongly on a second call: while A is being decided, B, which contains A, is decided on the
assumption that A is compatible, and this verdict is cached; then A is rejected, and B's verdict
stays. `AssumptionsConfirmed` says that nothing but this makes answers wrong, and `ErrorsAreGenuine`
that rejections are always right; both are proved for every graph (section 4).

`resolved_defaults` (`code_bug`, `src/codec_record.go:212`). The README of the library says that Resolve
preserves "nested promotions, defaults and references". A reader's own field whose default is a record
with a null for a field of type `["null", "int"]` is accepted by the parser and by Resolve, but no
data can be read with the result: "decode default". Parsing types the inner null as the sentinel
`nullDefault`, Field.Default undoes that only at the top, `recordUnionDefault` names the branch only
of a field that is itself a union, and the encoder of the inner union knows no branch for the
sentinel. `schema_resolve` leaves such defaults out, and there everything is read right.

### Where the library's documentation contradicts itself

The notes below the table of types (`src/README.md:115-122`) say that a Go `int` encoded as an Avro `int`
"can result in an integer overflow causing misinterpretation of the data", and that an Avro `int = -100`
"would be interpreted as `uint16 = 65,436`", `int = 256` as `uint8 = 0`. The section on numeric compatibility
(`src/README.md:361-362`) says that integer codecs "reject values outside the destination's width or
signedness instead of wrapping", and `src/CHANGELOG.md:77` announces it. The code does the latter: setInteger
(`src/codec_native.go:441`) and intCodec.Encode (`:379`) report an error, the variable keeps its value and nothing is written.
So the notes are stale for every value they are about. `DecodedIsExact`, `RefusalsLeaveVariable` and
`EncodesTheRepresentable` state what the later section says, over every value of every width of the instance, and that
they hold is what refutes the notes: the mutant of `DecodedIsExact` (SetIntegerWraps) is the code as the notes have it.

## 4. The proofs

Each theorem is for every value of the constants under the named ASSUMEs of its module. An assumption
says what the Go types guarantee: `ShapeAssumption` (the children of a schema are schemas, its fields a list),
`CallsAssumption` (headers and references are lists, a message's data bytes), `ForeignAssumption` (a file is a
sequence of cells, whose counts may be any number), `BadAssumption` (the encoder writes no undecodable record),
`WriterAssumption` and `FramingAssumption` (see `Blocks_proofs` below).
`RoundsAssumption` is not about the code: it says that `Rounds` is large enough for the two sets
to be the fixed points they are iterated towards, and TLC evaluates it for every instance.

`OcfFile_proofs`, first part, about the encoder. `TypeCorrect` is proved first and gives the types to the rest.
`NoRecordIsLostSilently` and `FailureIsConsistent` follow from

    EncoderInv == TypeOK /\ FailedMatchesWriter /\ OutputsInOrder /\ NothingLostSilently

NothingLostSilently alone is not inductive: that a flush moves exactly `buf` to the output needs
that the writer holds nothing from before (FailedMatchesWriter), and that outputs after the current one are
untouched (OutputsInOrder), or Reset could attach to one with records on it. Each action ends in one of a few
shapes (a block was written, nothing was, the encoder moved on, a new one was constructed), one lemma each.
The next three theorems are about steps. `SuccessDelivers` says of Flush, Close and Reset what they leave on the output they were
called on, which for Reset is not the current one afterwards. It needs HealthyOutput, that no error was returned for the output of a sound
encoder: with EncoderInv what such an encoder accepted is then landed or in `buf` (HealthyHolds), and a call that succeeds
writes `buf` or found it empty (FlushDelivers, ResetDelivers). `FailuresReturnedOnce` rests on EncoderInv alone;
`RejectionsLeaveNoTrace` needs RejectionInv, that no error is ever left in the inner encoder.
`EncoderImplementsRecordStream`: under the mapping in `OcfEncoder` every step is a step of `RecordStream`
or leaves it unchanged. A flush maps to Deliver when all of it landed, even if the call fails, and to Lose otherwise.

The rest of `OcfFile_proofs` is about the files. First comes what RecordsOf, IsContainer and SkipToEnd, which
run along a file, return for a file with one more cell or block (RecordsByCell, SkipFindsBlocks, BlockLands).
`OutputsAlwaysContainers` and `DeliveredOnceAndInOrder` rest on

    ContainerInv == FilesInv /\ OpenFileInv         OrderInv == LandedInv /\ PendingInv

A file is whole, or an error was returned for it and it is cut; the file of a sound encoder is whole
and begins with the format and marker the encoder uses. The difficult steps are the failing flush (BlockOrCut: any
landing of a block is all of it or a cut) and the append, whose SkipToEnd must refuse every cut file (CutIsRefused). In order
of acceptance are then the landed records of each output, those of the next output and the pending ones.

The reader's theorems are for every output at every moment, and for every file from elsewhere at all:

    ReaderInv == TargetInv /\ PlaceInv /\ HandedInv /\ BlocksInv /\ EndInv /\ PromiseInv /\ ErrorInv

While no error is set, what was handed out and the rest of the block are the records before the reader's place
(HandedInv), and the blocks it passed are as declared, the last one but for the shortage that its own
records will show (BlocksInv). At the end of the file these say that it was a container. The encoder's steps keep all of this because
outputs only grow, and only where they are whole (OutputsGrow). They give `ReaderAlwaysGetsAccepted` and `CleanEndsMeanAll`.
`HealthyReadsAreClean` has the hypothesis LimitsFit, that the reader's limits, where there are any, admit the
largest block the encoder's options allow; without it the property is false, as it should be. LimitInv
carries this from the pending records to the cells of every file.

`ConfigGenerations_proofs`. `RegistrationInv` says that the holder of the mutex is at the top of its
stack and cloned what is still current, and that what `current` knows is `last`; from it come
`NoRegistrationIsLost`, `RegistrationsExclude` and `RegistrationsGrow`. `DatumInv` says that a worker's
snapshot is the generation its datum began with, that caches hold their own builds, and that a codec
looked up or built belongs to the snapshot; from it come `DatumHasOneSnapshot` and
`CachesAreGenerational`.

`SchemaCompat_proofs`. `MatchFollowsTheRules`: for every pair, what match asks about, and whether all or one of it must
hold, is what the declarative rules of Readable need. Record fields are folded over a list, with a check for ambiguous names, hence the
lemmas FieldAsksAre and AmbiguousIs. `ReadablePairs` and `FlatPairs`, iterated from above and from below,
are shown to be the greatest and the least set of their kind (ReadableGreatest, FlatLeast). The invariant

    CompatInv(G) == CallTypes /\ IdleInv /\ CacheInv(G) /\ AcceptedInv(G) /\ AssumedInv /\ StacksInv(G)

holds for some set G of pairs, those ever accepted. It is existential because the cache alone does not tell:
of two goroutines that decide one pair the later one overwrites the verdict, and may reject what the
earlier accepted on an assumption. StacksInv says of each pair being decided that what match has been through is
settled. From it come `RejectionsAreGenuine`; `ConfirmedMeansRight`, since G and the
assumed pairs are then closed under the rules; and `FlatPairsAreExact`, since an assumed pair lies on a
cycle of the graph, and a pair with a cycle below it is not flat (CycleIsNotFlat).

`Blocks_proofs`. `LimitInv` is TypeOK with LimitHolds and the fact that items are left only
inside a block; it gives `LimitAlwaysHolds` and `ReaderTypes`, for every stream whatsoever. That `pos` stays
within the stream is part of TypeOK and the reason for the lemmas on NumberAt, HeaderAt, StringAt and ItemAt.
`WrittenAlwaysFramed` and `FramedAlwaysReadsBack` rest on

    BlocksInv == (writing: WriterInv and a reader that has not begun) /\ (reading framed blocks: ReaderInv)

WriterInv says what the memory holds in each phase: between blocks, what was there before and the first
blocks, framed; inside a block also, behind the room for a header, the cells of its items so far. The difficult step
is the end of a block (MovedHolds): the header is written over the room and the data is read, after that, from
where it lay. It is not overwritten because a header is never longer than the room, which `WriterAssumption`
states (`Room >= 2`, a cell a number: in the code 18 bytes for a header of at most 18). ReaderInv places the
reader: before block k, or before item i of it, at the cell where that is in the framed stream, with the items before that
place read and those of the blocks entered counted. It fails only where the stream is cut or the items
exceed the limit. Skipping a block by its size keeps the place because the size is the length of the items' cells.
That partial sums of cells begin the whole comes from `Induction`, since FlattenSeq is recursive.
`FramingAssumption` is what the format says of other writers: a block has items, of the schema's width.

`SchemaParse_proofs`. `SharedInv`: everything shared is accepted, and so is everything a call has
copied and not defined itself; while a call publishes its own definitions are accepted too.
`KnownInv`: the names shared when a call began are still shared, and those its copy has visited are
in the copy. They give `OnlyWholeTextsAreEverShared`, `EarlierNamesAreAlwaysKnown` and `NamesAlwaysStay`.
`OriginInv`: until a call stores its copy, its definitions are in that copy alone, under the names it has
seen; so a use is marked as its own exactly if the call defined it. It gives `OwnDefinitionsAlwaysWin`
and, while no other call is under way, `LoneCallsReplace`.

`RegistryClient_proofs`. `ClientInv` is about requests under way: an answer that has arrived is true of
the registry and stays so, because ids and versions are never given to something else (`Grows`,
`TaskStaysTrue`), and a GUID lookup following its references has collected only names that they bind
(`Collecting`). So what its end stores is what the GUID means (`ParsedIsMeant`; that it binds each used name
exactly once needs that uses are finite, `GuidsAssumption`), and `CachesAreAlwaysTrue` follows for any
number of goroutines, calls and references, and any registry. A call is warm only while it makes no request.
`AnswersInv` is about the call a request serves: it asks for what the call wants, and a result is what the
call may return. With ClientInv it gives `AnswersAlwaysRegistered`, and with the arithmetic of the prefix (an id
in four bytes, a GUID in sixteen) `MessagesAlwaysNameTheirSchema`.

`ByteReader_proofs`. That powers of two are numbers, grow and multiply is counted on sets: `2 ^ n` is the number of
subsets of `1 .. n`, which is what the library knows of it. `ReaderInv` is

    BufferInv /\ JobTypes /\ (IF err = "nil" THEN Progress ELSE Refused)

BufferInv says that what is buffered and what is undelivered are the stream behind what was consumed. Progress
says how far the operation is: a varint that is partly read has the value of its groups so far, all of
them flagged; a length or a count that was read is the number that stands there; bytes taken are those
behind it. It is needed because an operation is many steps and the stream's outcome is one: only where
the operation ends, the invariant gives the outcome of the whole (FinishStep). Where the operation runs out of
bytes, Progress tells that the stream does too. Both paths of a varint are one lemma, ScanReaches: the
loop over the buffered bytes, wherever in the varint it starts, is too large, done or not done exactly as
the stream says. `ReaderImplements` follows, step by step; `BitsAssumption`, `BufferAssumption` and `OpsAssumption` ask
only that widths and sizes are positive numbers and that operations have one of the names.
For `WrittenNumbersReadBack` the groups of a number are divided out of it one by one: all branches of AppendVarint
write the same groups (WritesVarint), the sum of the groups is the number again (GroupsOfDigits), the last byte
keeps within the width (VarintFits), and zigzag is undone (ZigZagBack). `WrittenInv` places the reader behind the first k
numbers, with an operation in progress that fits the next one; that these places differ (EndsApart) makes k unique.

`Induction` states induction on numbers for sets, so that a proof names the set of numbers for which
its claim holds, and `Recursion`: a function that is defined by recursion on an initial segment exists and follows
its definition step by step. All that is proved of RecordsOf, SkipToEnd, ReadablePairs, FlatPairs, FieldAsks, FlattenSeq, Groups, Scan and Encoded rests on it.

FailedMatchesWriter, RegistrationExclusive, RegistrationsOnlyGrow, NamesStay and the TypeOKs (`ReaderTypes` of the bytes among them) are
proved and in no run of their own: the runs check what rests on them.

Model-checked only:

* Liveness (ReadLoopEnds, RegistrationReturns, OperationsReturn, EveryCallReturns): fairness and ENABLED are beyond the prover.
* `SchemaResolve`: values, plans, codecs and fingerprints are recursive over a schema's structure, with RECURSIVE
  operators, which the prover does not accept.
* `NativeCodec`: what remains is arithmetic of powers and divisions at each width, which TLC exhausts at the scaled
  widths.

## 5. Not modelled

* Compression, Go memory layout, unsafe pointers, reflection, pools, the slab strings are cut from.
* The value in Go that a failed decode leaves behind, and elements of a slice decoded into again.
* Errors of `codec.Close`, codecs that are not registered, Reset to a file that is not empty.
* JSON, names and defaults of schemas, formatting, logging.
* Hashes: two schemas with one fingerprint hash the same value. A schema document is taken to define
  a full name once. The schema cache can lead a program to hold two definitions of one name in one
  graph, and `codecCacheNode` (`schema.go:366`), which expands a name once, then leaves the second out.
* Embedded structs, pointers and nullable destinations, UnionConverter and text marshalers, the
  bits of floats: conversions of memory, one Go type at a time, with no state to relate.
* Concurrent Resolve calls: they share Compatible's cache, which `SchemaCompat` models, and nothing else.
* Of the registry client: request options, authentication, listings and compatibility levels, each one
  request and its answer.
* Single-object encoding: a frame of ten bytes round a datum, with a map of schemas behind a lock.
* The components marked `not_modelled` in `PROJECT.json`, with the reason there.

## 6. Plan

1. Done: container files (`OcfFormat`, `RecordStream`, `OcfEncoder`, `OcfDecoder`, `OcfFile`),
   `ConfigGenerations`, `SchemaCompat`, `SchemaResolve`, `ByteStream`/`ByteReader`/`ByteWriter`/`WrittenNumbers`,
   `BlockFormat`/`BlockWriter`/`BlockReader`/`Blocks`, `SchemaParse`, `GoNumbers`/`Decimals`/`NativeCodec`,
   `RegistryClient`, with the proofs above.
2. Decoding into values that hold something already (slices, maps, pointers, nullable unions), and fields of
   embedded structs. A slice decoded into again is grown over old elements that are not cleared
   (`codec_array.go:73`), so a map among them keeps old keys; no doc says whether it may.
3. Single-object encoding over the resolver's store, with the registry decoder's promise.
4. Proofs: what of `NativeCodec` can be said without computing (a refusal
   leaves the variable); the recursions of `SchemaResolve`, which would have to be written
   as functions first.
