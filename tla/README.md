# TLA+ models of tensile

tensile is a small C library, the beginning of a language runtime. This
directory holds TLA+ models of its code, the TLC runs that check them on small
instances and TLAPS proofs about them. Line numbers refer to the sources beside
this directory, in `src/`.

## The system

The library is single-threaded and keeps nothing on disk. What makes it hard is
control that jumps (`siglongjmp`), static variables shared by nested calls,
clients that call back into it, streams whose callbacks fail or whose data is
cut short, and the arithmetic of sizes.

| part | files | state | operations | here |
|---|---|---|---|---|
| status | `status.c`, `status.h` | the static `exception_code`, `exception_origin`, `exception_details`, `exception_handler`; `tn_verbosity_level`, which clients set; the frames of guarded calls | report, fatal error, throw, guard (`tn_with_exception`) | modelled, proved |
| xdr | `xdr.c`, `xdr.h` | a stream (`data`, `pos`, `limit` and two callbacks) | encode and decode words, wide and small integers, floating point, lengths, bytes, C strings, arrays, structures, unions | modelled, proved |
| dstring | `dstring.c`, `dstring.h` | none of its own: values are (length, pointer) slices of collected buffers; the tokenizer advances the slice it is given | copies, slices, search, concatenation, tokens, edit distance, formatting, scanning | modelled, proved |
| memory | `utils.h` | the collector's | allocation that asserts | in `Xdr` and `DString`, as far as it is seen there |
| compiler | `compiler.h` | - | attributes; assertions that are always on (46-48) | the "assert" state of `Status` |
| language types | `vmtypes.h`, `ast.h`, `sequence.h` | - | declarations without functions | not modelled |
| lexer, parser | `tensile.l`, `tensile.y` | flex and bison automata | no build rule makes them; the grammar is unfinished | not modelled |
| build | `Makefile.generic`, `setup.sh`, `setup/` | - | - | not modelled |

How they interact: xdr and dstring return `tn_status` values, whose meaning
(0 is success, `status.h:42`) status defines; both allocate through memory. A
guarded call runs two callbacks of its client, the action and the handler, which
may call every function of status again. A stream calls its reader and writer;
arrays, structures and unions call the encoders and decoders of their elements.

### What makes each part correct

* status: an exception reaches the innermost guarded call in progress, exactly
  as thrown, and no other; the saved `exception_handler` never points to a frame
  that has returned; the process is aborted only for a reason, which is printed;
  the library's assertions hold.
* xdr: calls stay within the array, and store within the memory they were given or
  have allocated, pointers only where the collector looks for them; they return;
  what has been encoded is not changed by what follows; a decoder that returns 0 returns what was encoded, whatever happened
  to the message on the way; what was encoded and arrives whole is decoded.
* dstring: a slice lies within its buffer; `tn_str2cstr` returns a terminated
  string; tokens and separators partition the source; the edit distance is one;
  formatting returns what was formatted, and returns.

The hazards behind these, each at its line, are in `PROJECT.json`.

## Modules

| module | what it is |
|---|---|
| `ExceptionGuards` | abstract: structured exceptions, without globals or jumps |
| `Status` | `status.c` |
| `StatusProofs` | invariants of `Status`, proved |
| `StatusRefinement` | the proof that `Status` implements `ExceptionGuards` |
| `MCStatus` | symmetry for TLC |
| `XdrWire` | the types of xdr, their values in memory and on the wire: pure operators |
| `TypedChannel` | abstract: a channel that delivers whole items, in order |
| `Xdr` | `xdr.c` and `xdr.h`, a writer and a reader composed through the stream |
| `MCXdr` | the types there are and the messages TLC encodes |
| `XdrProofs` | words and halves survive the wire, the stream stays in bounds and is written once, proved |
| `DestinationProofs` | decoders store where they may, proved |
| `DeliveryProofs` | the proof that `Xdr` implements `TypedChannel`, and that what is encoded can be decoded |
| `StringValues` | abstract: strings are values |
| `DString` | `dstring.c` and `dstring.h`: slices of shared buffers |
| `MCDString` | the texts, times and callbacks TLC calls it with |
| `DStringProofs` | slices stay in their buffers, writes too, proved |
| `DStringRefinement` | the proof that `DString` implements `StringValues` |
| `SequenceLemmas` | facts about naturals, minima, loops and sequences that the proofs share |

### Status

The k-th element of `guards` is the k-th frame of `tn_with_exception()` in
progress, with its local `previous_handler` and whether it was given a handler;
`exception_handler` is the number of the frame whose `sigjmp_buf` it points to,
0 for NULL. A frame is cut where user code runs: `tn_with_exception` is the call
up to `action(data)` (154-166), `ActionReturns` the normal path (166, 187-189),
`CallHandler` the second return of `sigsetjmp` up to `handler(...)` (167-173),
`ReturnCaught` the same without a handler, `HandlerReturns` what follows the
handler, EAGAIN included (174-189). `Throw` is `tn_report_statusv` for an
exception (48-71); the jump drops the frames above the one it lands in, and the
step after it runs with `pc = "landed"`. `abort()` and a failed `assert()` are
final states. While `pc = "user"` any user code may run: what TLC explores is
every sequence of calls and returns clients can make, nested up to `MaxDepth`.

Clients are assumed to throw non-zero statuses (the assertion at line 61 says
so). An origin is a pointer, and one of `Modules` may be the null one. A message is
a model value, what a format and its arguments come to, and `exception_details` has
256 bytes for it: `Kept[m]` is what `vsnprintf` leaves of message `m` there
(`Formatted`), 255 characters of a longer one. An exception is what was thrown with
its message so cut; a rethrow formats what had been cut before, and the copy it makes
(176-178) has the same size, so that nothing more is lost. `report` records the last report and whether
`com_err()` got it; `result`, `caught`, `nested` and `thrown` are history, the last
the exception on its way from a throw to its landing, as the thrower meant it.

Two constants choose the clients. If `NestedRethrow` is FALSE, a handler that has
made guarded calls of its own does not ask for a rethrow. If `QuoteMessage` is
TRUE, a handler, or what it calls, may throw with the message it was given as an
argument (`ThrowQuoting`). The message is a pointer to `exception_details`, which
`vsnprintf` then reads and writes at once: the behaviour is undefined, and what is
left there is any message.

That a handler that returns EAGAIN has no status to return is not said at
`status.h:126`, "The status code of the handler is returned"; the model has what
the code does.

`ExceptionGuards` states what callers may rely on: an exception in flight goes
to the innermost call, which handles it, declines it (what it was told goes on,
unchanged) or returns its code. `Status` implements it for disciplined clients,
with `calls` the frames without their pointers and `inflight` what was thrown: from
a throw to its landing the static variables have to hold it, at any other time
what they hold does not matter, which is the point.

### Xdr

Bytes are digits in base `Base` and all widths are in bytes, so that `Base = 2`
gives words of 16 values with the same structure as the real ones: sign,
halves, overflow of a length, ranges of small types. A stream is `pos`, `limit`
and `data`, the last an offset into the array `mem`: `pos` is moved by `xdr.c`
and `data` by the callbacks of `xdr.h`.

`Types` are the types that the client describes with `tn_xdr_element_descr`, closed
under their elements (a tree of descriptors is finite), and `Values[type]` the values
it has of each. `TypesAssumption` is what a C program gives by declaring its
descriptors after its structures: the size of an array is that of its elements times
their number, a structure has room for all of its elements, a union for each arm. A
value of an integer type is one that its width and sign can hold (`IsValue`).

A call is a stack `todo` of pending calls. Every encoder or decoder of `xdr.c`
calls others in sequence and returns the first status that is not 0; one action
replaces the pending call by those it makes (`Becomes`), and a failure empties
the stack (`Fails`). `tn_xdr_decode_var_array`, which does not look at the
status of its first call, has an action that says so: the length is then whatever
the variable happened to hold, any `size_t` (`0 .. SizeMod - 1`).
`tn_xdr_write_to_stream` and the decoders' reads move bytes; each may fail for want of room or data or,
with `CallbacksFail`, because the callback does. `EncodeSmall` encodes the word
found at the address of a small value, as a little-endian machine has it: the
value and unspecified bytes of its neighbours.

A decoder is called with a place to store to. `objects` are those of the call in
progress: the client's variable, and what the call has allocated, with their sizes
and whether the collector scans them (`tn_alloc`) or not (`tn_alloc_blob`). A place
is an object and an offset, and the decoders of arrays, structures and unions
compute those of their elements as the code does, from `elsize`. Encoders are
given values, which have no address: where `xdr.c` adds `elsize` to go from one
element to the next (480, 558), `Elements` goes from one value to the next, which is
the same because `TypesAssumption` makes `elsize` the size of an element. Sizes are
modulo `SizeMod`, and so is the product that `xdr.c:532` allocates. Allocations
succeed. An object whose size is of a length that was never read is marked `unread`,
which is history: such a decoder may store beyond it, and the model then goes on as
if the memory overwritten had been nobody's (what really follows is undefined). The
stores that follow a call that decodes (a terminator, a pointer) are
pending calls of their own, "nul" and "pointer". What is not modelled is what a
failed call leaves in the client's variable.

`PadSize` is the code's `len % 4` (`xdr.c:358`, `372`), by which both sides agree; the
standard has `(4 - len % 4) % 4`, so that byte arrays whose length is 1 or 3 modulo 4
are neither written nor read as another implementation of XDR does it. No property here
is about the standard.

The writer encodes up to `MaxItems` messages of `Messages`, each with the type as
which the peer decodes it (usually the same; a narrower integer or a union with
fewer arms in some). `HandOver` turns the bytes written, or any prefix of them
with `Truncation`, into the stream of the reader, which decodes the script of
types. A client goes on after a failure only if the failed call moved no bytes:
`xdr.c` has no way to undo the others. Callbacks move all bytes or none.

`script`, `sent`, `received`, `acked`, `wire`, `start`, `peer` and `part` are
history. `sent` holds the values of each item and the position after it, an item
whose encoder failed after writing something being the last; `received` the same
of what decoders returned with 0. `TypedChannel` over these two is what a stream
promises.

### DString

A string of the library is a pointer and a length; copies, substrings, tokens and
some concatenations share the buffer of the string they came from. `heap` holds
the buffers that calls have allocated, for ever (the collector frees only what
nothing refers to), and `strs` the `tn_string` values of the client: slices of a
buffer, an offset and a length. Buffer 0 is NULL. Every function of `dstring.c`
and `dstring.h` that makes a string, or asks something of one, is an action over
slices that the client has, with the client's own texts, characters, sizes and
callbacks as arguments (`Sizes` those of type `size_t`, `Counts` those of type
`unsigned`). `Text` is what a slice holds.

`Builds` is what a function does with a new buffer: it has the size the code
computes, the characters the code writes, and unspecified contents (`Junk`)
after them. `tn_strmap` and `tn_strcut` write no NUL after what they return. The
comment of `tn_str2cstr` (108-110), "any data in tn_string is either
NUL-terminated or a substring of another tn_string", is not true of them; the
byte it reads is nevertheless in their buffer, and whatever it holds the C
string is right. The model finds that, because both of its branches are taken
for either content: `SlicesInBounds` says that the byte is there and
`ValueSemantics` that the result is right.

A loop that builds up a result (the length and then the characters of `tn_strcats`,
what `tn_strfilter` keeps, the rows of `tn_strdistance`) is a function of the number
of turns, each in terms of the one before. `tn_strcats` takes up to `MaxJoined`
strings, any of those there are and each as often as it likes. Sums and products of
sizes are modulo `SizeMod`. `BuildsCounted` is for the two functions that compute the
size of a buffer from several lengths, `tn_strcats` and `tn_strrepeat`: it has the
size modulo `SizeMod` and the characters in full, so that a size that wraps gives a
buffer too small for them. (`MaxText` bounds the texts whose size does not wrap.) A
write beyond a buffer is the final state "overrun", an allocation of more than
`Memory` the final state "assert". `tn_strftime` alone has a loop that need not end, and is cut at its
turns (`GrowBuffer`); all other calls are single steps, since nothing but
callbacks can run during them and those are functions on characters.

`call` and `answer` are history: the name and the arguments of the last call
that returned, and what it answered. `StringValues` states for each function what
the client may rely on, in terms of texts alone and by definitions of their own:
a prefix is the longest common one, the edit distance is the recursive one, a
token is delimited by separators or the ends. `DString` implements it with
`texts` the texts of the slices, so that a call that wrote to a shared buffer or
advanced the wrong slice would change a string it should not.

`vsnprintf`, `strftime` and `vsscanf` are external. Of the first two the model has
the text that results and whether it fits (`vsnprintf` may fail as well); a short
text goes through a C string and so ends at the first NUL formatted into it, a
long one does not, and `StringValues` allows both. Of `vsscanf` it has the number of
conversions, for formats of `%c`, of the C string that `tn_str2cstr` gives: that is
the part `dstring.c` has in it.

Not modelled: a literal with a length that is not that of its text; callbacks with
effects; a NULL `char *` given to `tn_cstr2str` or `tn_strdup`.

## Runs

| run | clients | checks | result |
|---|---|---|---|
| `status_disciplined` | handlers that nested a guarded call do not rethrow, none throws with its message | `AssertionsHold`, `StructuredExceptions` (refinement of `ExceptionGuards`) | hold |
| `status_any` | any | `TypeOK`, `HandlerChain`, `AbortJustified`, `MessageStable` | hold |
| `status_rethrow` | handlers that may rethrow at any time | `AssertionsHold` | violated: finding 1 |
| `status_quoted` | handlers that may throw with their message | `HandlerToldMessage` | violated: finding 2 |
| `xdr_whole` | whole messages; all types but small integers and variable arrays of void elements | `Decodable`, `Delivery` (refinement of `TypedChannel`) | hold |
| `xdr_truncated` | messages cut anywhere, failing callbacks, peers with other types; all types but variable arrays | `TypeOK`, `StreamInBounds`, `WrittenOnce`, `Delivery` | hold |
| `xdr_arrays` | variable arrays and strings, in messages cut anywhere, with failing callbacks and peers that take other data for a length | `DestinationsInBounds`, `PointersScanned`, `CallsReturn` | hold |
| `xdr_unread_length` | a variable array in cut messages | `StoresInBounds` | violated: finding 3 |
| `xdr_small` | small integers in whole messages | `Decodable` | violated: finding 4 |
| `dstring_values` | sizes that do not wrap; times with a text and without | `TypeOK`, `SlicesInBounds`, `ValueSemantics` (refinement of `StringValues`), `FormattingEnds` | hold |
| `dstring_wrap` | a count for which length times count exceeds SIZE_MAX, and a size of SIZE_MAX | `SlicesInBounds` | violated: finding 5 |
| `dstring_no_time` | as `dstring_values` | `AllocationsSucceed` | violated: finding 6 |

Variable arrays are left out of `xdr_truncated` and small integers out of
`xdr_whole` because findings 3 and 4 break the properties there; each has its
own runs, so that the other types are still checked for both. Variable arrays of void
elements are in none of the messages: `tn_xdr_encode_length` and
`tn_xdr_decode_length` want a byte of room for each element (`xdr.c:321`, `338`), of
which these take none, so that the decoder may refuse the length its encoder wrote,
take no notice (finding 3) and return 0 with another. `Decodable` and `Delivery` do
not hold of them, and no theorem says so (`Solid`, below).

`DestinationsInBounds` and `StoresInBounds` divide the question whether a decoder
stores where it may. The first is about every pending store but those into arrays of a
length that was never read, whatever lengths were: it holds, and TLC finds a wrong
size in it (a mutant allocates `declen` bytes). The second is about the stores that are
made, all of them: `elsize * declen` wraps for a `declen` that is any `size_t`, and it
is violated. For that it takes a length that is there and is refused, because the
stream must still have what the first element takes, here a word; when the message ends
before the length, there is none.

### Bounds

* `MaxDepth = 3` guarded calls: a throw can come from a handler nested in a
  handler and be declined twice. Two origins, three messages, of which one is
  cut and then equals another (`CutLong`), and two statuses (one
  is EAGAIN) are enough to tell a right exception from a wrong one; verbosity 0
  and 5 silence or print exceptions.
* `Base = 2`: a word holds 0..15, so a length of 16 is the least that overflows.
  `Limit = 14` or `16` bytes are fewer than most sequences of messages take, so
  every encoder meets a full array at each of its writes; `MaxItems` is 3 or 2,
  an item, one before and (in whole messages) one after it. `Stale = 1`
  makes the initial contents of the array differ from padding. `SizeMod = 256` is
  to a word's 16 as the 64-bit `size_t` is to 32-bit lengths: wider than the product
  of a length that was read and the size of an element, not than that of one that
  was not.
* `xdr_arrays` has one message of at most 12 bytes, which is a length and two words,
  or an array inside a structure with a string after it, and `SizeMod = 80`: still
  more than 8 bytes (the largest element) for each of the lengths that a
  stream of 12 bytes lets pass, so that only lengths that were never read wrap, and
  every one of the 80 is tried. In `xdr_unread_length` the array has five elements and
  the stream 24 bytes, so that a cut leaves the length and a word after it, and
  `SizeMod` is 256.

* Strings: up to three at a time, the first two from the client's texts
  (`MaxSources`), so that a call has two different strings to work on and one of
  its results is worked on again. A call that leaves every string alone is the
  last (`pc = "done"`): what can follow it can follow the state before it. The
  texts have a NUL, a repeated character, and a pair of them every kind of edit;
  `Sizes = {0, 1, 3}` reach before, at and beyond the ends of strings of up to
  `MaxText = 5` characters, `Counts` repeat one not at all, once and three times;
  `tn_strcats` joins up to `MaxJoined = 3`, so that its loop turns twice. `ShortBuf = 2`
  makes two formatted texts short, one of them a NUL, and one long with a NUL in it,
  and the longest time takes two turns of the loop; `Memory = 12` is enough for every
  string and `SizeMod = 32` for no size to wrap but by SIZE_MAX or a count of 12. Both
  are in `dstring_wrap`: what TLC reports there is the repetition, and with the `Counts`
  of `dstring_values` a substring.

Deadlock is not checked: `abort()`, a failed assertion or the last call ends the process, and a reader that has
decoded its script, or met a failure it cannot recover from, stops.

Fairness is assumed of what a single thread does between two instants of user code,
never of clients: weak fairness of `GrowBuffer`, a turn of a plain C loop, and of
the steps of an encode or decode call that has been made. With them `tn_strftime`
returns whenever the time has a text (`FormattingEnds`), and every call of xdr
returns, whatever it finds in the stream (`CallsReturn`). The one loop whose length is
not the caller's is that of a variable array, which the messages of `xdr_arrays` have
with lengths read, misread and never read. Whether a handler that throws ever stops is the
client's affair (`status.h:127`).

## Findings

1. `status.c:178`: a rethrow after a nested guarded call throws what that call
   left in the static variables; with code 0 the assertion at line 61 fails.
2. `status.c:64`: a throw with the message that a handler was given formats the
   buffer of messages into itself; the next handler is not told what was thrown,
   against `status.h:124`. The library's own rethrow (176-182) copies the message
   first.
3. `xdr.c:529`: `tn_xdr_decode_var_array` ignores the failure of
   `tn_xdr_decode_length`; the status is assigned and overwritten, so that
   `warn_unused_result` (`xdr.h:242`) is silent. The length may then be any `size_t`:
   its product with the size of an element wraps (532), and elements are stored beyond
   the block. Or it is 0, and a message that was cut is decoded with status 0.
4. `xdr.h:382`: the encoders of small integers read beyond the value.
5. `dstring.c:714`: `str.len * n + 1` wraps, and the copies (717-718) run past the
   buffer; with a `size_t` of 64 bits it takes a string of 2^32 characters, since `n` is
   `unsigned`. `tn_strcats` (258-262) adds lengths likewise. `dstring.c:307`: `pos + len`
   wraps; a substring with a length near SIZE_MAX is longer than the string, where one
   of 1000 is cut (the test at 324). `tn_strcut` (338) wraps as well and then returns
   more than it was given.
6. `dstring.c:954`: `tn_strftime` never stops asking for a larger buffer if there is
   nothing to format, until the assertion of `utils.h:68` fails.

## Proofs

### Status

For any statuses, origins, messages, levels and depth, `StatusProofs` proves

* `TypeCorrect`, `HandlerNeverDangles`, `AbortsAreJustified` and
  `MessageUndisturbed`: `TypeOK`, `HandlerChain`, `AbortJustified` and `MessageStable`
  are invariants, whatever handlers return and throw;
* `DisciplinedClients`: with `NestedRethrow = FALSE`, so is `AssertionsHold`;

and `StatusRefinement` proves `Refinement`: with `QuoteMessage` FALSE as well, `Status`
implements `ExceptionGuards`.

They rest on `StatusAssumption` only: 0 is not in `Statuses`, EAGAIN is, NULL (not
set yet) is no origin, no message and no exception, and what is kept of a message is
a message. `HandlerChain` is not inductive without
the shape of the stack: when a frame returns, `exception_handler` becomes what
*that* frame saved. The invariant `IInv` adds to three of the properties that a
frame executing its handler was told a whole exception, that the static origin and
details are then set, and that it is marked `nested` if it is not the innermost one
(`HandlersBelow`), and that a jump lands with a whole exception (`Landing`): a
rethrow needs that to throw something well typed. `MessageStable` is inductive
given `IInv`: the frame that a return uncovers is marked. It is what a disciplined
handler declines with, so that the rethrow has a code that is not 0, and what it
throws is what it was told. The refinement adds `InFlight`, the static variables
hold what was thrown until it lands, and needs of each step that popping, pushing
and marking frames are popping and pushing calls (`CallsOfNonEmpty`,
`WithExceptionEnters`, `CallHandlerHandles`). Each action has a lemma of its own;
operations that push or pop frames rest on lemmas on sequences (`Prefix`,
`FrontLast`, `PopStacked`), and the theorems combine the steps with PTL.

### Xdr

`XdrProofs` proves, for every base, that a word, signed or not, is what its decoder
makes of its encoding (`WordsSurvive`), and that a 64-bit integer is put together
again from its halves (`WidesSurvive`): the arithmetic by which four digits are
taken apart and added up, in which TLC only tries base 2.

It proves for any types, values, messages, array size and cuts, failing
callbacks and expectations of the peer

* `XdrTypeCorrect`: `TypeOK`;
* `StreamStaysInBounds`: `StreamInBounds`;
* `WritesOnce`: `WrittenOnce`.

The invariant `IInv` adds to `TypeOK` and `StreamInBounds` what a pending call may
be: in the writer one of `WriterCalls`, whose value is one of its type, in the
reader one of `ReaderCalls`, whose place is an object there is. It is needed because
a call decides how many bytes the next one writes: that `tn_xdr_write_to_stream`
has tested the room for exactly the bytes its callback copies says nothing if those
are not bytes. Each encoder and decoder has a lemma of its own; those that replace a
call by others rest on `Becomes` keeping the stack a sequence of such calls
(`Replaced`).

`DestinationProofs` proves `DestinationsStayInBounds` (`DestinationsInBounds`) and
`PointersAreScanned` (`PointersScanned`), by a second invariant, `AllFit`: every
pending decoder has room for a value of its type where it is to store it, in memory
that the collector scans if the value has pointers. It is kept by arrays because
`elsize * (i + 1) <= elsize * n`, by structures because the offsets at which
`tn_xdr_decode_struct` goes through them (`Offset`) are apart (`OffsetsApart`), by
unions because an arm is one of those there are, by `tn_xdr_decode_var_array`
for every length that it reads.

`PointersAreScanned` has no hypothesis. That of `DestinationsStayInBounds` is
`ArraysFit`: the size of a variable array of a length that fits both in a word and in
the stream is one that `size_t` can count. That is what the product at `xdr.c:532`
relies on and does not test; with a 64-bit `size_t` and 32-bit lengths it holds of
elements of less than 2^32 bytes. Nothing is assumed of lengths that were never read:
they are any `size_t`, the invariant asks no room of their arrays (`Room`), and the
theorem says nothing of stores into them, which finding 3 is about. It does say that
everything else a decode call does, before and after such an array and in any nesting
with it, stays in bounds.

`DeliveryProofs` proves what encoders and decoders promise together, for any types
(however nested), values, array size and place where the message is cut:

* `ChannelRefinement`: `Xdr` implements `TypedChannel`, that is `Delivery`;
* `EncodedIsDecodable`: `Decodable`, what was encoded and arrives whole is decoded, if
  no integers smaller than a word are encoded (`OnlyWords`; finding 4 is what happens
  with them).

Both assume `Faithful`:

* no callback fails, as those of a memory stream (`xdr.h:68-88`) never do when
  `xdr.c` has found that there is room. If one fails as it is given no bytes, the
  item whose encoder failed may yet be complete on the wire, with values the encoder
  had not come to, so that what was sent is a matter of definition;
* the peer decodes the types that were encoded;
* there are no variable arrays in messages that may be cut, which is finding 3, nor of
  elements that may take no bytes (`Solid` are the types whose values take one at
  least): `tn_xdr_decode_length` wants a byte of the stream for each element
  (`xdr.c:338`), so a whole message may be refused and finding 3 does the rest.

With messages in which callbacks fail or the peer expects other types, `Delivery` is
model-checked (`xdr_truncated`).

The invariant is about the tree of calls of an item, of which neither the encoder nor
the decoder has more at any time than the stack of what is left to do. `Expands` says
what a pending call comes to: bytes it puts on the wire, values it deals with, and
the calls it leaves. A stage of an item (`Stages`) is the calls left and the values
and bytes so far, and a `Run` is a set of stages from the first to the last with for
each but the last the next one (`Goes`): it is what stands for the recursion, which
the provers cannot do induction on. Of every item in the array there is a run whose
last stage has the bytes that are there (`Told`, `Ledger`); the encoder at work is at
the last stage of a run, but for one or two writes or a length that it is checking
(`Leads`), and extends it (`Progress`); a decoder is at some stage of the run of the
item it decodes, and its stack corresponds to that stage's, call by call, with the
stores that only it has left out (`Follows`, `Match`). So each step of a decoder has
one stage to go to, and each lemma about one shows that what it reads of the bytes of
that stage is the value the encoder had: words by `WordsSurvive` (`WordFollows`,
`HighFollows`, `LowFollows`), small integers where the word's other bytes were the
neighbours' (`SmallFollows`), bytes and their padding (`BytesFollow`, `PadFollows`),
lengths (`VarBytesFollow`, `CStringFollows`, `VarArrayFollows`), discriminants
(`UnionFollows`).

Two things make the rest of the argument. An item whose encoder failed is the last
one, and it failed either where it had more bytes to write or at a length for which
it wanted more room than there was (`Counted`): a decoder that gets that far finds
less than it needs and fails too, so that it never returns 0 for it (`Delivered`).
And a decoder compares a length with the rest of the stream, which is more than the
item's own bytes: that it never refuses a length it should accept needs that every
element still to come takes at least a byte, which `Weight` counts and `Stepping`
keeps.

### DString

`DStringProofs` proves for any alphabet, texts, callbacks, junk, sizes of buffers and
number of strings

* `DStringTypeCorrect` and `SlicesStayInBounds`: `TypeOK` and `SlicesInBounds`, if
  `NoWrap`: no position plus length, no length times count and no sum of the lengths
  of `MaxJoined` strings with their separators, terminator included, reaches
  `SizeMod`. Finding 5 is what happens without it, and a call that wraps gets a
  string with a length out of all bounds, so that it is needed for `TypeOK` too;
* `FormattingFindsRoom`: `AllocationsSucceed`, if `TimesFit`: no time is formatted to
  nothing, and the collector can give twice what it is formatted to. Finding 6 is
  the first half of that hypothesis negated.

The invariant for the first two says of each slice that it lies in its buffer with a
character to spare (`LiesIn`). That is kept by every function because what it returns
is part of a string it was given (`PartLies`) or a buffer in which what is written
fits and the length is less than the size (`BuildsInv`), and the lemma of each
function has that to show: for `tn_strcats` that the loop that copies writes as many
characters as the loop that counts has counted, for any number of strings
(`LoopsAgree`), and that neither this number nor that of `tn_strrepeat` wraps
(`JoinedFit`, `Counted`), for `tn_strfilter`
that it keeps no more than there is (`KeptIs`), for `tn_str2cstr` that a C string ends
no later than the NUL that was found after the slice (`CStringIs`). For the third, a
size that is tried is at most twice `sizeof(buf)` or twice the length of the text, for
the one before was too small (`RoomAsked`).

What a loop computes is a recursive function, of which the prover knows nothing until
it is shown to exist: `LoopComputes` builds it turn by turn and `Along` carries a fact
from each turn to the next. Both are inductions on a set of naturals, which a
well-founded order gives without an operator as parameter (`LeastNatural`).

`DStringRefinement` proves `StringsAreValues`: under `NoWrap`, `DString` implements
`StringValues`, that is `ValueSemantics`. With the invariant of `DStringProofs`, what
there is to show of each call is of three kinds.

* What a call leaves alone keeps its text: buffers are only added (`NewText`,
  `TextAdded`), so that a slice of one has the text it had, and the tokenizer replaces
  the slice it was given and no other (`StrtokTokens`).
* What a slice or a buffer holds is what it should be: a part of a buffer is a part of
  the text of a slice of it (`TextOfPart`), what is built is what was written
  (`Built`), and a C string is the text up to its first NUL wherever it is read from,
  whether the byte after the slice is a terminator or a character of another string
  (`CStringUpToNul`): that is the question the comment at `dstring.c:108` answers wrongly.
* What a loop computes is what `StringValues` defines: the copies of
  `tn_strrepeat`, counted by a remainder, and the characters of `tn_strcats` are
  concatenations (`CopiesFlatten`, `JoinedIs`), what `tn_strfilter` keeps is what
  passes (`FilterIs`), where two loops over two texts stop is where their longest
  common prefix ends (`LongestCommonPrefixIs`), a token lies between separators
  (`TokenIs`), the first difference orders two texts (`BeforeIs`), a search finds the
  first place or the last (`PlacesOfText`, `LastOf`), and two rows of numbers that take
  turns compute the recursive distance (`DistanceIs`), of which the shortcuts for equal
  and empty strings are cases (`EqualAreNear`).

### Not proved

`CallsReturn` and `FormattingEnds` are liveness properties, which with ENABLED are out
of the prover's reach, and stay with TLC. So does `Delivery` without `Faithful`, where
it is not false. `StoresInBounds`, and `Decodable` with small integers, are false, as the
runs show, and so is `HandlerToldMessage` where `QuoteMessage` is TRUE; where it is FALSE
it follows from the definitions, and what happens to an exception on its way is the
matter of `StructuredExceptions`.

## Plan

Done, in this order: `Status` and its theorems, `Xdr`, `DString`, the proof of the
refinement of `ExceptionGuards`, the safety of memory of `Xdr` and `DString`, the
refinement of `StringValues`, and last that of `TypedChannel`, for which decoders read
exactly what encoders wrote. Every safety property that holds is now proved for all
values of the constants; what could be added is `Delivery` for streams whose callbacks
fail, with a definition of what a failed encoder has sent.

Nothing else of the repository has behaviour to model: the grammar is unfinished
and built by nothing, the remaining headers only declare.
