# A TLA+ model of UbjsonCpp

UbjsonCpp is a C++14 header-and-one-source library that reads and writes
UBJSON through a `Value` union type. This directory models its reader, its
writer, the two of them on one stream, and `Value` itself: who owns what, how
Values are converted, compared, searched and iterated over, and how they are
printed. TLC checks small instances; TLAPS proves for every instance the safety
invariants of the reader, the writer's count of bytes, that the reader gets back
what the writer wrote, and the ownership invariants of `Value`.

## The system

| Part | Source | State it keeps | Operations | Correct when |
|---|---|---|---|---|
| `StreamReader` | `include/stream_reader.hpp` | `peeked_byte`, `bytes_so_far`, `recursive_depth`, `last_error`, the call stack of `extract_nextValue` with a header, an item count, a key and a local `Value` per container | `getNextValue`, `getBytesRead`, `getLastError` | what is encoded is read as the Value it encodes and the stream is left at the next one; limits hold; every call ends; a failure leaves whole elements |
| `StreamWriter` | `include/stream_writer.hpp` | none but the call stack of `append_array`/`append_object` | `writeValue` | the pair it returns counts the bytes it handed to the stream; what it writes can be read back |
| Markers, byte order | `include/types.hpp`, `include/stream_helpers.hpp` | none | predicates, conversions | both ends use the same code |
| `Value` | `include/value.hpp`, `src/value.cpp` | `vtype` and the union member it names; the children it owns | construction, assignment, `push_back`, `operator[]`, `remove`, `find`, `swap`, casts, `as...`, `==` | the tag names the constructed member; each Value is destroyed once; equal means equal |
| `value_iterator` | `include/iterator.hpp` | parent and two positions | `++`, `*`, `==` | it stays within its parent |
| `to_ostream` | `src/value.cpp:865-934` | indentation | `<<` | the output is JSON |
| Demo | `main.cpp` | none | write a Value to a file, read it back | both are the same |

**How they interact.** There are no threads in the library. A caller calls
`writeValue` and `getNextValue`; both recurse over a `Value` and call the
stream synchronously. The stream is shared state between the two ends: what
the writer hands over is what the reader is given, unless the stream fails or
ends. The reader passes `Value&` down its recursion and moves each finished
element into its container, so an exception unwinds through half-built Values
and leaves the caller's own one as it is at that moment. A reader and the
caller's `Value` both live on after a call, and the next call may find either
of them used.

**What is hard in it.** Not concurrency, but the order of small steps: a peek
that is a read on some streams; short reads whose result is not looked at; two
counters (`bytes_so_far`, `recursive_depth`) that must stay in step with the
work over every way out, exceptions included; optimized headers parsed with one
variable `b` that several statements overwrite; sizes taken from the wire; a
`Value` reused from an earlier call; verdicts of parts that are combined; and,
in `Value`, operands that alias. `PROJECT.json` lists these under "hazards",
each at its line with the property that looks at it.

## Modules

| Module | What it is |
|---|---|
| `UbjsonTypes` | marker codes, the predicates the code applies to them, payload widths, big-endian conversion (`Unsigned`, `Signed`, `BigEndian` and the shifts it is made of, `Shifted`) |
| `UbjsonValue` | a `Value` as a record of its `vtype` and the member it names; `PushBack`, `Indexable`, `AssignKey` are `push_back`, the check of `operator[](string)`, and `v[k] = x` |
| `ValueStore` | the abstract promise of `Value`: what each operation does to the values at two places of a tree, which may be one place or one inside the other |
| `ValueHeap` | `Value` as cells with a tag and a constructed member, calls as the statements of `value.cpp` |
| `ValueHeapStore` | the refinement mapping from the cells to the values; implements `ValueStore` |
| `ValueConversions` | the types of a `Value` and its conversions, with the rounding of doubles |
| `ValueEquality` | `operator==` |
| `ValueSearch` | `find`, `contains`, `remove`, and a range `for` that changes what it runs over, with any comparison for `operator==` (`IsEqual`) |
| `ValuePrinter` | `to_ostream`, as tokens of JSON text, with a JSON reader as its reference |
| `StreamReader` | one reader on one stream, called again and again |
| `StreamWriter` | one writer on one stream, called again and again |
| `ValueChannel` | the abstract promise: Values arrive whole, unchanged, in order, with their size |
| `RoundTrip` | a writer and a reader on the two ends of one stream; implements `ValueChannel` |
| `RoundTripInvariant` | the places in a Value that writer and reader go through, and the invariant `RTInv` of the two: where each of them is, and what is on the stream between them |
| `MCStreamReader`, `MCStreamWriter`, `MCRoundTrip`, `MCValueHeap`, `MCValueSearch` | instances for TLC: inputs, sample Values, the wire grammar as a reference definition |
| `StreamReaderProofs`, `StreamWriterProofs`, `RoundTripProofs`, `ValueHeapProofs`, `ValueReferenceProofs`, `ValueLossProofs`, `ValueSearchProofs` | the proofs |
| `SequenceLemmas` | facts about sequences and least elements that the proofs share |

### `StreamReader` and the code

The recursion of `extract_nextValue` is a sequence `frames`, one record per
open container (`type`, the header's `is_valid`, `item_count` and `marker`, and
`km.key`), next to `vals`, the Value that each container fills: the caller's
first, and last the local `value` of the element being read. `pc` names the
statement that comes next. Every read, every peek and every check that can throw
is a step.

| Code | Actions |
|---|---|
| `getNextValue` (110-136) | `Call`, `Return`; `Throw` is its catch clause, `Escape` an exception it does not catch |
| `read_from_stream`, both variants (159-208), `peekNextByte` | `Read`, `Fits`, `ReadBuffer`, `Peek`, and `PolicyViolation` when the check fails |
| `extract_singleValueTo`, `extract_containerValueTo` | `ReadMarker` with `Dispatch`, `ReadPayload` with `Decode` |
| `extract_Integer`, `extract_itemCount`, `extract_String`, `extract_Binary` | `ReadInteger`, `ReadNoInteger`, `InvalidCount`, `ReadDigits`, `ReadBytes`, `BadAlloc` |
| `extract_Object`, `extract_Array`, `extract_optimized_container_headers` | `PeekContainer`, `ReadHeader`, `PeekCount`, `ReadType` |
| `extract_nextValue` (218-269) | `Enter`, `DepthExceeded`, `NextCounted`, `PeekEnd`, `Peel`, `LeaveCounted`, `StoreKey`, `StoreElement`, `IndexError` |

A byte that the stream did not deliver is uninitialised: the model takes any
element of `Junk` for it. So is the marker that a typed container would use,
`km.marker`. `taken` and `missing` are history variables: the bytes a call got,
and how many more it asked for. Integers on the wire keep their width
(`Width32`, `Width64`), and a `size_t` wraps at `SizeMod`. What a stream other
than `std::istream` does at its end is not written down anywhere
(`README.md:158` of the repository says that its requirements are not defined);
the model lets it deliver less, as `std::istream` does. `is_istream` is the template
argument, as far as the reader asks about it; it is chosen from `StreamTypes` at the start.

### `StreamWriter` and the code

`append_value` is `AppendScalar`, `AppendNothing`, `AppendArray` or
`AppendObject`; the loops of the last two are `NextItem`, `NextKey`,
`Collect` (which is `update`), `EndArray` and `EndObject`. Keys come in any
order, as from an `unordered_map`. The stream takes `Capacity` bytes and then
fails; `write` says true either way. `offered`, `start`, `skipped` and
`written` are history.

A double is known by the marker and bytes of its shortest exact encoding. Those
that lie in the range of `float` but are rounded by it are the domain of
`Rounded`, those `in_range` refuses are `NotFinite`.

### `RoundTrip`

One thread (`main.cpp`) calls both ends, so a call runs to its end before the
next starts, but the calls may come in any order and several Values may lie on
the stream. Under the mapping of `sent` and `received`, `RTSpec` implements
`ValueChannel`: `DeliversInOrder` is `Channel!Spec`.

Not every Value comes back, and `Exchangeable` says which do (`GivenBack`). No part of
them may be one that the writer leaves out (a Binary, a double `in_range` refuses)
or rounds; an unsigned integer above 255 is written as a signed one, and read as
one; an empty container is read as a Null; integers and lengths have to be those of
an `int64_t`. The stream is a `std::istream` that starts out empty, and what the policy
allows for a Value is less than what an allocation is granted. `WithinPolicy` is about
the writer, which has no limits of its own: that it makes of no Value more bytes, or
more levels, than the reader's policy allows, and that its stream takes all of
them.

### `ValueHeap` and the code

A cell is a Value: a variable of the caller (`Roots`), an element on the heap
(`Heap`), a local of the call in progress (`Tmp`: the `tmp` of `push_back`, the
`vt` of `swap`, a temporary of the caller), or the container that
`unique_ptr_copy` is filling (`Copied`). `tag` is `vtype`, `member` the union
member that is really constructed; the two are apart, for the code sets them at
different times and a destructor goes by the tag. An element of a container is
the cell it owns, a `unique_ptr`.

A call is a program of instructions (`todo`), one for each statement that can
change or read a cell; the operators that give the programs have the names of
the functions. Destruction and copying of what a container holds are steps of
their own (`DestroyElements`, `CopyValue`), so a program that reads its operand
in between finds it as it is then.

| Code | Definitions |
|---|---|
| `operator =`, `copy_from`, `move_from` (148-160, 563-639) | `CopyAssign`, `MoveAssign`, `DoDestruct`, `DoTake`, `DoCopy` with `CopyValue` |
| both `push_back` (232-274) | `push_back_copy`, `push_back_move`, `DoBuild`, `DoSetTag`, `DoEmplace` |
| `operator [] (string)` (199-217) | `operator_index`, `DoEmplaceKey` |
| `v = {a}`, `v = {a, b}` (117-130) | `AssignList`; the copies the language makes of a listed Value are one copy here |
| `swap` (811-817), `remove` (276-292) | `swap`, `RemoveElement` |
| `destruct`, `~Value` (641-668) | `Unwind`, `DestroyElements` |
| `operator new` failing, or a vector that cannot grow | `BadAlloc`: the locals are destructed, the call ends |

`Undefined` is a step that reads a freed cell or adds to a container that is not
there. Nothing is said about what follows it.

`ValueStore` says the same without cells: a call names two places (a variable
and the indices and keys that lead on from it) and has a set of results,
one for success and one for each state in which running out of memory can leave
the values. The set is empty where the code is undefined. `ValueHeapStore` maps
a variable to the tree it owns, and keeps the tree a call began with until it
returns; `StoreImplemented` is that every call has one of the results promised.
So `PushBack` and `AssignKey`, with which the reader and the writer are
modelled, are what the cells do. The results are worth reading: `v = v[0]` is
undefined, `v.push_back(v)` works for a copy, `swap(v, v[0])` loses the old `v`.

### `ValueConversions`, `ValueEquality`, `ValueSearch` and the code

`long long`, `int` and `double` have few bits, with the relations the code relies
on kept: a `double` cannot hold every `long long` and holds every `int`. Doubles
are integers in units of `epsilon()`, and every conversion to `double` rounds to
nearest, ties to even (`Rounded`, from its unit in the last place, `Ulp`), so
the bounds `in_range` compares with are rounded as
the compiler does it. A cast of a double that does not fit is undefined (`Cast`); the
builds give the nearest bound or a fixed pattern (`cast`). `Equal` is the only
definition of the three that calls itself, so it stands in a module of its own, and
`ValueSearch` takes it as the constant `IsEqual`: what is said of the loops and of
`remove` does not depend on which Values compare equal.

A range `for` is `Begin`, `Test`, a body, `Advance`. The body may leave the Value
alone, replace it, `push_back`, or `remove`. `ahead` is where the iterator is,
`valid` whether the container it was taken from is still there; `Dangle` is the
use of an iterator that is not. A `remove` from a map keeps the iterators to
other elements, one from a vector none, as the standard says.

### `ValuePrinter` and the code

`print_value`, `print_array` and `print_object` are functions of the printer (its
`addendum` and what it has printed) as in the code. A scalar is one token. Strings,
characters and keys are printed unescaped, NaN and infinity as words, a Binary
as a phrase: `Spelled` tells the scalars JSON can read back.

## Runs

| Run | Module, cfg | What it shows |
|---|---|---|
| `reader_exhaustive` | `MCReaderExhaustive` | two calls on every input of up to four of 13 bytes (every marker that steers the reader, the digits 0 and -1), on a `std::istream` and on a stream that is none: `TypeOK`, `DepthGuard`, `Budget`, `TypedHeaderDead`, `EscapeOnlyOnReuse`, `ReuseOnlyAdds`, and `Termination` |
| `reader_encodings` | `MCReaderEncodings` | every form, of those the reader knows, of some 90 Values, nested, counted and empty ones included, under a budget that many of them exceed: `ReadsKnownForms`, `FailureKeepsWholeElements` |
| `writer_count` | `MCWriterCount` | every sample Value, with parts the writer skips and a stream that fails: `WTypeOK`, `CountExact` |
| `round_trip` | `MCRoundTrip` | two Values of every shape, the largest and the deepest exactly at the reader's limits: `NeverRefused`, `NothingLeft`, `WithinPolicy`, `DeliversInOrder` |
| `value_heap` | `MCValueHeap` | every operation on every pair of Values of a tree, with memory running out anywhere: `HTypeOK`, `OwnedOnce`, `TagTellsTruth`, `UndefinedOnlyFromInside`, `ReferencesSurvive`, `NothingLost`, and the refinement `StoreImplemented` |
| `value_search` | `MCValueSearch` | every pair of Values: `ConvertsWhatFits`, `EqualNumbers`, `EqualIsSymmetric`, `RemoveAgreesWithContains`; every loop over them: `LoopSeesAll`, `LoopDefined`; what is left printed: `PunctuatedAsJson`, `IndentIsDepth`; and `SearchTypeOK` |

Some of these leave out, or name, what the code does otherwise, since a caller should
know: `NothingLost` lists the calls that lose Values, `UndefinedOnlyFromInside`
those that read freed memory. Where a text of the repository says otherwise than
the code, the property covers the rest and a run of its own shows the
disagreement: `ReadsKnownForms` is about the lengths and counts the reader knows and
an empty container as a Null (`ReadsDraft12` about the others), `ConvertsWhatFits`
names the numbers at the edge and `EqualNumbers` leaves out negative integers
(`ConversionsDocumented` about both),
`PunctuatedAsJson` scalars that are not spelled as JSON (`AlwaysJson`).

`FailureKeepsWholeElements` says of the bytes a failed call has taken that they
start with the elements the caller is left (`Begun`), and that no further element is
complete in what follows. `ReuseOnlyAdds` says what becomes of a Value that is
passed in again.

Six runs end in a violation, each of one or more disagreements of the code with a text
of the repository (see "findings" in `PROJECT.json`):

| Run | Text | What the code does |
|---|---|---|
| `custom_stream_loses_bytes` | README.md:10, streams "can seamless be plugged in" | a peek on such a stream takes the byte off it, and a read never looks at it again |
| `draft12` | README.md:4, "implements UBJSON Draft 12"; README.md:157, "already handles Strongly typed containers" | in one array: `[]` is read as Null; a length of type uint8 makes the string empty; a no-op becomes an element; the count behind a type is never read, and the type is dropped; a count of type int8 is taken for the first element |
| `truncated_success` | main.cpp:94-96, true means "Successfully READ" | a stream that ends inside a string makes the call return true |
| `success_means_written` | README.md:118-119, `result.second` means "Successfully wrote" | `update` overwrites the verdict with that of the last part, and `write` does not look at the state of the stream |
| `conversions` | value.hpp:353-354, 365-366, 377-378: `asInt64`, `asUint64` and `asFloat` return a number "if it fits", otherwise 0 | the number above the greatest `long long` becomes the least, and a double above the greatest `unsigned long long` is cast, which is undefined: the bounds they are compared with are rounded up to them; each negative integer becomes 0.0, and `operator==` finds them all equal |
| `always_json` | README.md:123, "always outputs a valid json document" | characters, strings and keys are not escaped, NaN, infinity and Binary are words |

`draft12` and `conversions` put several forms, or numbers, into one Value, so that one
counterexample shows what becomes of each. That the document of `draft12` is one of
Draft 12 is an assumption TLC evaluates (`SendingsAreDraft12`), with the grammar that
gives `reader_encodings` its documents. `ConversionsDocumented` asks that of
three numbers at least one be converted as documented, and not even that is so.

### Bounds, and why they are enough

- Words: TLC counts in 32 bits, so `int32_t` and `float` have 3 bytes and
  `int64_t` and `double` 3 or 4. The code treats the widths alike but for their
  length; `int8` and `int16` keep theirs. With equal widths for 32 and 64 bits
  the reader still tells the markers apart.
- `SizeMod` is larger than every sum that occurs. In `MCReader...` it is 2^24,
  so that a negative count becomes a size no allocation grants (`MaxAlloc`), as
  in the code.
- Four bytes over the alphabet reach every action of the reader but the last
  one of a typed read, which is dead (`TypedHeaderDead`): a container in a
  container needs two, a counted one four. Longer, deeper documents are in
  `reader_encodings`.
- `MaxDepth` 2 and `MaxObjectSize` 6 in `reader_exhaustive` make both limits
  bite, at every statement that can meet them. 15 in `reader_encodings` cuts
  the longer half of the documents off at every point.
- `MaxCalls` 2: a second call is the first to meet what a call left behind,
  and a third meets nothing new, for a call resets all but the stream,
  `peeked_byte.first` and the caller's Value.
- `MaxWrites` 2: order needs two Values.
- `round_trip`: `MaxObjectSize` 211 and `MaxDepth` 3 are the size of the largest and the
  levels of the deepest Value that is written, so each limit is reached and not
  exceeded (with 210, or 2, `WithinPolicy` fails). The Values have both ends of the range
  of every width of an integer, every type that is given back, strings of length 0 and of
  more than a byte can count, and bytes that look like markers. That the instance
  meets `Exchangeable` is an assumption TLC evaluates (`MCAssumption`).
- `Junk` has two bytes, one that means nothing and one that is a marker.

- `value_heap`: one variable and three cells. Two operands are related in four
  ways (the same, inside, around, apart), all within one tree of three
  elements; a container of two that is copied needs three more than
  there are, which is how memory runs out in every statement. A second
  variable would add no other relation. One key and one content of a String:
  the code does not compare them. The caller stops when a Value is lost
  (`Operands`), or there would be no cells left to go on with. `Symmetry`
  permutes the cells, which no property tells apart (`Fresh` and the `CHOOSE` of
  `CopyValue` pick any); the run was done without it as well, over 1.2 million
  states, with the same result.
- `value_search`: `long long` of 5 bits, `int` of 3, `double` of 3, `to_string` to
  every second unit. Every integer of both kinds and every double up to twice
  the largest integer, so every value at, next to and beyond each bound; NaN and
  both infinities. Containers of up to three elements with equal, unequal and
  nested ones: a loop body can remove the element it is at, one before, and one
  after.

As a check on the translation, the reader model was compared with the compiled
reader: every input of up to four bytes over the same alphabet, on a
`std::istream` and on a stream that is none, under several policies, two calls
on each, the second with a fresh Value and with the one the first left. Built
with automatic variables and heap arrays zeroed (`Junk` is {0}) and with
`operator new[]` refusing more than `MaxAlloc` bytes, the program and the model
have the same set of outcomes: the Value, how the call ended, `bytes_so_far`,
`recursive_depth`, the kind of `last_error`, and what is left on the stream.

`CHECK_DEADLOCK FALSE` stands in every cfg, because a caller may stop calling
(`MaxCalls`, `MaxWrites`, a lost Value, a finished search). That a call itself never stops half-way is
`Termination`.

### Fairness

`FairSpec` adds `WF_vars(Step)`: a thread that is inside `getNextValue` runs on.
Nothing in the code waits for another, so this is no more than the scheduler of
any system gives. No fairness is assumed of the caller. Termination then rests
on the code: each turn of the loop in `extract_nextValue` spends budget, also
when the stream has ended and delivers nothing.

## Proofs

`StreamReaderProofs` proves, for every stream, policy, word width, `size_t`
and number of calls:

- `TypeCorrect`, `DepthBounded`, `BudgetKept`, `TypedHeaderIsDead`,
  `EscapesOnlyOnReuse`: the invariants of `reader_exhaustive` but for `ReuseOnlyAdds`.
- `Invariance`: the inductive invariant `IndInv` they follow from.

`IndInv` adds to them what makes them inductive: `InContainer` (the statements
that look at the innermost frame run only when there is one, and no frame
outlives a call), `HeaderSound` (while a header is read, it has no type until
it can no longer get a count, which is why a typed, counted header never
enters a container), `ElementFresh` (until its own bytes are decoded, an element is
a Null or, at the top, what the caller passed in), and `ObjectsIndexable` (so
an object always fills a Null or a Map, unless the caller passed in something
else, which is why `value_exception` escapes only then).

The proof has one lemma per action; `ContainersKept` serves those that leave the
open containers alone, `UnwindKeeps` those that end a call, `StoreKeeps` the two
that store an element, `LeaveKeeps` the two that close a container.
`FitsExact` is the argument for the budget: the sum in front of each read
cannot wrap, as either the allocation bound or the eight bytes of the
largest payload keep it under `SizeMod`. `NumberType` shows that the conversion
of any one to eight bytes is an integer.

Assumptions (`WidthAssumption`, `ReaderAssumption`): widths of one to eight
bytes; `MaxAlloc + MaxObjectSize < SizeMod`, that is, a granted allocation and
the budget together stay below 2^64, which the address space and the default
policy guarantee; junk and inputs are bytes.

`StreamWriterProofs` proves, for every set of Values, word width, capacity of the
stream and number of calls:

- `WriterTypeCorrect`, `CountsEveryByte`: `WTypeOK` and `CountExact` of
  `writer_count`. However deep a Value is, whatever parts of it are left out and
  wherever the stream fails, `writeValue` returns the number of bytes it handed over.
- `WriterInvariant`: the inductive invariant `WInv` they follow from.

`CountExact` speaks of the end of a call only. `WInv` says what holds on the way:
`InnerCounted`, that the pair of the innermost open call, with what is just
being returned to it, is what was offered since that call began; `OuterCounted`,
that the pair of each other one is what was offered until the next began;
`OutermostCounted`, that the first began with the call of `writeValue`. An array is
one `Ahead` all along, since `append_array` counts both brackets when it has
written one. `Open` and `InPlace` say that what is still to be written are elements
of the container.

There is one lemma per action, or per pair of actions that open or close a
container; `FrameOpens` and `TopChanges` serve those that push a frame or change
the innermost one. Under them is `ScalarBytesSize`: each append function reports as
many bytes as it writes (`BigEndianBytes` for the numbers, `KeyBytesSize` for the
keys). The assumptions are `WidthAssumption`, widths of one to eight bytes, and
`WriterAssumption`: a Value's member is the one its type names, and a
rounded double has the bytes of a float, `Width32` of them.

`RoundTripProofs` proves of the two of them on one stream, for every set of Values, word
width, policy and number of calls:

- `ApartInvariant`: whatever is written and read, `IndInv` and `WInv` hold of the pair,
  so all of the above does. The stream grows under the reader between its calls, and
  neither end disturbs the other.
- `ReadsNeverRefused`, `EveryByteRead`, `IsChannel`: `NeverRefused`, `NothingLeft` and
  `DeliversInOrder` of `round_trip`. `getNextValue` never refuses what `writeValue` wrote;
  it returns each Value, in the order written and unchanged, having read as many bytes as
  `writeValue` returned; and it leaves nothing on the stream.
- `RoundTripInvariance`: the inductive invariant `Sound` they follow from.

The last four are about a pair that is `Exchangeable` and behaviours in which
`WithinPolicy` always holds, both explained above; `round_trip` is such an instance, with every
behaviour of it. The reader's steps in which a call fails are actions of the pair like any
other: that none of them is ever enabled is what is proved.

The usual statement would compare the stream with an encoding of the Value, which is
recursive, and so out of the provers' reach. `RTInv` does without. A place in a Value
(`Placed`) is the containers entered, how far each of them is, and whether the item
is next, under way or done; `Emits` leads from a place to the next with the bytes written
in between. `Ways` is a set of places, each with the bytes left to write from there, that is
closed under `Emits` until the root is done; `Continues(p, bs)` says that there is
such a set. It takes the place of an induction over the Value: it is shown by giving a
closed set (`ContinuesFrom`), and used by taking one step in it (`ContinuesOn`). `Carries`
does the same for the messages that wait on the stream (`CarriesHead`,
`CarriesOneMore`).

`WriterAt` says that the writer is at a place, and that whatever leads on from there to the
end makes, put behind what has been written of the Value, an encoding of it
(`LeadsTo`). So when the writer arrives at the end, what it has written is an
encoding, without anyone having said in advance which of them: the keys of a map
come in any order. There is one lemma per step of the writer (`StartWriteKeeps`,
`RunWriterKeeps` put them together).

`ReaderAt` says that the reader has a place too, but is behind it: it may have only part of
the bytes that led there. `Midway` says for each statement how far it is, and which bytes
(`tok`) it will still take; from the place on, the stream leads to the end of
the Value (`Continues`), and then `Carries` the others. `FramesFollow` says that each
container under construction holds (`Held`) the items the place has passed, as they were
written. Every step of the reader then takes bytes that are there (`DemandMet`), knows
from the first of them which step of the writer made them, and arrives at the next place:
one lemma per action, `...Lands`. `SignedBack` is the arithmetic under it, that an integer
written in any number of bytes is read back. What cannot happen follows:
`NoPolicyViolation` (what is left of the Value is counted in the size the writer returned,
and that is within the budget), `NoBadAlloc` (a length that is read is one of bytes that
follow), `NoDepthExceeded`, `NoHeaderRead` (no item starts like an optimized header), `NoBadCount`,
`NoIndexError`. `ReturnsHead` is that a call returns the oldest message, and
`IsChannelStep` that each step is one of the channel or changes none of its variables.
The assumptions are those of the reader and the writer.

`RTInv` itself is not checked by TLC, since the sets of places it speaks of are
infinite; what follows from it is, on `round_trip`.

`ValueHeapProofs` proves, for every set of variables, cells, keys and contents,
and every sequence of calls:

- `HeapTypeCorrect`, `OwnedByOne`, `TagsTrue`: `HTypeOK`, `OwnedOnce`,
  `TagTellsTruth` of `value_heap`. No Value is destroyed twice, none that a
  container holds is gone, and a destructor never meets a member that is not
  constructed, however operands overlap and wherever memory runs out.
- `HeapInvariant`: the inductive invariant `HInv` they follow from.

The three are not inductive, because a step depends on what is still to be done.
Constructing a container over a Value that owns something would lose or
share it: `BuildsInNull` says that the call in progress constructs one only where
there is a Null, or where the instruction just before takes what is there. A
Value that stayed in a local would be destroyed at the end of the scope:
`TmpHeld` and `EmptiesTmp` say that the call still has the instruction that moves it
out. `Settled` says that nothing is left to do between calls, and `CopiesApart`
that copying never writes to `tmp`. Each call's program is `Sound` (one lemma per
operation), each instruction keeps the cells (`TakeCells`, `UnwindCells`,
`EmplaceCells`, `CopyValueCells`...: `Cells` is the part of the invariant about the
cells alone), and `Proceeding` carries the rest of the program over.
`MovedFacts` and `Replaced` are the two ways ownership changes: all elements of
a member go to another cell, or one cell gets another member. The only assumption
is `HeapAssumption`: the heap is finite, and the kinds of cells are apart.

`ValueReferenceProofs` goes on from there, with the same assumption:

- `UndefinedFromInside`, `ReferencesKept`: `UndefinedOnlyFromInside` and
  `ReferencesSurvive` of `value_heap`. Which calls use a Value that is gone, and
  which leave a caller's references valid, with any number of Values, nested in
  any way.
- `ReferenceInvariant`: the inductive invariant `RInv` they follow from.

A reference dangles many steps after the mistake: the call frees a cell, and a
later instruction reads it. So `RInv` speaks of the whole program that is left.
`Planned` says of each instruction that its operands will be as they were when
the call began: a source that the call reads is a cell it may not free, or is
still allocated with nothing destructed before it (`ReadOK`); an array that is
added to is there, or an instruction before makes it and none after that takes
it away (`GrowOK`, `BuiltAt`); and what is destructed is the target of a call that may
free, or is Null by then (`StepOK`, `EmptyAt`), which is why `swap` destroys no
element. `LooseClosed` says that the cells the call may free are closed under ownership,
and what is about to be destroyed is among them: a destructor that starts there never
leaves.

That the closure holds when a call begins is where reachability comes in. `Below`
is the least set closed under `Holds`, so a set is shown to contain it by being
closed (`BelowFacts`), and what owns an element in reach is itself in reach
(`OwnersInReach`). While every Value is in reach, none is inside itself
(`NoCircle`, `NotBelowItself`), so the target of an assignment survives the
destruction of what it holds. Per operation there is a lemma that its program is
a plan (`CopyPlan`, `PushMovePlan`, `SwapPlan`...), per kind of instruction one
about what it does to the cells (`MovedEffect`, `EmplaceEffect`...), and
`PlanTail` with `PlanStays` carry the rest of a program over a step.

`ValueLossProofs` rests on both, again with no other assumption:

- `NoValueLost`: `NothingLost` of `value_heap`. A call leaks only where it moves a
  Value into one inside it, or where `push_back` runs out of memory while it makes
  an array of a Value that was none.
- `LossInvariant`: the inductive invariant `LInv` it follows from.

A Value is lost in two ways: it is part of a circle of owners that no variable is
in, or its owner has a tag that does not tell the destructor of it. `Anchored`
excludes the first: every set of allocated cells has a member that is about to be
destroyed or is owned from outside the set. Stated for all sets at once it
needs no induction over the tree, and a step that moves nothing keeps it
(`AnchoredStays`). A step that moves a Value keeps it when the Value goes to
something outside of what it holds (`AnchoredStep`), and that has to be known when
the call begins: `Apart` says that there is a closed set of cells with all that the
rest of the program moves and none of the cells it changes. For `operator =` that set is what is below
the source, which does not have the target in it just when the call is none of the
excepted ones (`KinFacts`). `Untagged` excludes the second way: only the Value
`push_back` works on may own elements without a tag, and then the instruction that
sets it is still to come, so it is lost only if an exception removes it.
`Lossless` says of each instruction that it constructs a container or moves a Value only
where nothing is owned (`FillOK`, `EmptiedAt`), and adds elements only where the tag is
set or will be (`TagOK`); `CopyHeld` and `CopiedOnce` say the same of a copy in
progress. Each operation has a lemma that its program is lossless, and `LosslessTail` and
`LosslessStays` carry the rest of a program over a step.

`ValueSearchProofs` proves, for every relation in the place of `operator==`, every
set of Values, every body of a loop and every width of the types:

- `LoopsSeeAll`, `LoopsDefined`, `RemoveAgrees`: `LoopSeesAll`, `LoopDefined` and
  `RemoveAgreesWithContains` of `value_search`.
- `SearchInvariant`: the inductive invariant `SearchInv` they follow from.
- `ConversionsFit`: `ConvertsWhatFits` of `value_search`, so that it holds of the
  64-bit `long long`, the 32-bit `int` and the 53-bit `double` of the program and
  not only of the scaled ones.

`LoopSeesAll` speaks of the end of a loop. `SearchInv` says what holds on the way:
an iterator that is `Good` (its container is there, of the type it was made for) is
`OnItsWay`: what it has passed and what it has ahead, put together (`Path`), are all
the elements there are, each once, and of an array in order. A step of the iterator
does not change that sequence, it only moves the place in it. `remove` from a map
takes one key out of both (`OnItsWayWithout`), and since an iterator in a map is only
ever at a key the map still has, the key is not the one it is at unless the body
`removed` that one. An iterator that is not good was spoiled by
something the body did (`Spoiled`). `Shaped` carries along that `v` is a Value: an Array
holds a sequence, a Map finitely many keys (`ValuesAssumption` for what the caller
passes in). That the orders a map may be passed in have each key is where
finiteness comes in (`OrdersPassAll`), and `MinFacts` is that `find_if` finds a
first element (`Min`).

`ConversionsFit` is about arithmetic, not about steps: the Value that is converted
never changes (`LookedForStays`), and each number of each type has a lemma
(`FloatToLong`, `FloatToUlong`, `UnsignedToLong`, `SignedToUlong`). `TwoTo` and `Ulp` are
recursive functions, whose unfolding is proved first, with a function that solves
their equation (`TwoToUnfolds`, `UlpUnfolds`); the few facts that need an induction
take a least counterexample (`AllNumbers`, `UlpPower`).
From there on: every number has one exponent (`ScaledExists`, `ScaledOnce`), rounding keeps
the order and passes no multiple of the scale, across scales too (`UpMonotone`,
`UpBounds`); powers of two and what has few bits are doubles (`UpPower`, `UpExact`), the
limits that are one below a power are not and are rounded up to it (`UpAlmostPower`,
`OfLimits`). Three facts decide the cases that are easy to get wrong. A double
below the least `long long` is below it by more than a cast drops (`DoubleBelowLong`, by
`DoublesApart`), so `in_range` never turns away a number that fits. An unsigned
number that `in_range` lets through although it does not fit wraps round to one below
every `int` (`NextToLong`), as the other results at the edge are, so `asInt` and `asUint` have
no such edge. And `in_range` is exact for the limits of `int` (`IntsInRange`). The
assumptions are `WidthsAssumption`, an `int` of at least two bits that a `double` holds and a
`long long` that it does not, and that a number is one of its type (`InType`).

Only model-checked:

- `Termination`: liveness.
- `ReadsKnownForms`, `FailureKeepsWholeElements`: stated with a recursive grammar.
- `ReuseOnlyAdds`: the invariant of the reader does not say that the elements of an
  Array are a sequence.
- `WithinPolicy`: the hypothesis of the theorems about the round trip. How many bytes and
  levels a Value takes is a recursive function of it; the run computes them for its Values.
- `StoreImplemented`: the refinement mapping reads a tree out of the cells, recursively.
- `EqualNumbers`, `EqualIsSymmetric`, `PunctuatedAsJson`, `IndentIsDepth`: `operator==` and
  the printer call themselves on the elements.
- `SearchTypeOK`: it takes the size of a container for a `long long`, and nothing in
  the model bounds how often a loop pushes.

## Not modelled

- The bits of floating-point numbers on the wire: a payload is carried from one
  end to the other, rounding is given by a constant. (`ValueSearch` does compute
  with doubles, at its scale.)
- `append_binary`, which nothing calls; the limits of `ValueSizePolicy` that no
  code reads; `asBinary`, which copies a member's bytes as the machine has them.
- How `to_ostream` spells a number, beyond whether it is one; files; the tests and
  build files.
- `operator[](int)` does not check its index: a caller that passes a wrong one is
  outside of what the model's callers do.
- That a call on a Value ends: there is no loop in `ValueHeap` but over the
  elements of finite trees, and moving a Value into its own child, which makes a
  cycle, puts it out of the caller's reach.

## Plan

The reader came first: it has most of the state, all of the untrusted sizes and
every exception. Then `Value`, whose operands alias, then the two ends together.
The safety invariants of all the state machines and the refinement of
`ValueChannel` are proved. What is left to model checking are the properties whose
reference is recursive, termination, and `ReuseOnlyAdds`. Three of them may still be
within reach:

1. `ReuseOnlyAdds`, from an invariant of its own that each Array in `vals` holds a
   sequence.
2. `StoreImplemented`, with the tree that a variable owns given by a closed set of
   cells and values, as `Continues` gives the bytes of a Value.
3. `ReadsKnownForms` in the same way, which would extend `RTInv` to counted
   containers, which the writer does not write.
