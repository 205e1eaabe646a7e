# A TLA+ verification of capnp-janet

capnp-janet is a C library for Cap'n Proto with bindings for Janet: a message
builder and reader, the packed and canonical encodings, and a small RPC vat.
This directory models the RPC vat (`src/src/capnp_rpc.c`), the message library
(`capnp_builder.c`, `capnp_message.c`, `capnp_canonical.c`), the packed codec
(`capnp_packed.c`), the Janet module (`janet_mod.c`) and the accessors that the
schema compiler (`src/app/capnpc_janet.c`) generates. TLC checks them, and TLAPS
proves nearly all that is checked of the vat and of streams, for every table size,
every queue length and every number of connections, all that is checked of the packed
codec, and that the builder's arena keeps its objects apart.

## Inventory

| Component | State | Operations | What is hard |
|---|---|---|---|
| Answering half of a connection (`capnp_rpc.c`, levels 1 and 4) | export table with reference counts, answers kept until Finish, incomplete Join sets, bootstrap object | handlers for Bootstrap, Call, Finish, Release, Join, Disembargo, Resolve, unknown types; `capnp_rpc_set_bootstrap` | Release crossing a Return, ids that are reused, Finish before Return, parts of a Join that arrive far apart, full tables |
| Asking half | question table, next question id | `capnp_rpc_send_bootstrap`, `_call`, `_provide`, `_accept`, `_finish`, `_release`, `_disembargo_provide`; `handle_return` | Returns matched by id alone, late and oversized Returns, sends that fail |
| Three-party handoff (level 3) | provisions of a vat, shared by its connections; introductions of a connection | `handle_provide`, `handle_accept`, `release_provide_embargo`, `note_introductions`, `capnp_rpc_introduction_done`, `capnp_rpc_write_third_party_cap` | one arrangement, two connections; embargo against Accept; vine against pickup |
| Stream flow control | window of outstanding calls, first failure | `capnp_rpc_stream_init`, `_send`, `_finish` | calls retired before they are answered |
| Packed codec (`capnp_packed.c`) | output buffer and its capacity | `capnp_pack`, `capnp_unpack` | runs at their limit, truncated input, buffer growth |
| Message builder (`capnp_builder.c`) | segments with used words and capacity, the limit of a segment, `force_single` | `capnp_builder_root`, `_struct`, `_set_*`, `_clear_ptr`, `_set_max_seg_words`, `_serialize` | a pointer and its object in different segments, no room for a landing pad, a limit that changes, a list of texts that fails half-way |
| Message reader (`capnp_message.c`) | traversal words left | `parse_flat`, `capnp_root`, `capnp_getp`, `capnp_list_getp`, fields and elements, `capnp_list_get_struct`, texts | far and double-far pointers, padding of the segment table, frames that were cut, views of a list by another element size, one counter for all reads |
| Canonical form and copy (`capnp_canonical.c`) | output builder | `capnp_canonicalize`, `capnp_builder_copy_ptr` | element sizes of struct lists, trailing zeros and nulls, a slot outside the last segment |
| Janet bindings (`janet_mod.c`) | objects of a garbage-collected heap: buffers, messages, pointers, builders, handles of structs and lists | `cfun_*`: reading, building, finishing; marking and freeing; the protocols of lists | what a handle rests on must outlive it, 64-bit integers and doubles, defaults folded into the bits |
| Schema compiler plugin (`capnpc_janet.c`) | the request it compiles | `emit_struct`, `emit_union_select`, `emit_group_clear` | arms of a union share bits and pointers; an accessor that panics half-way |
| Interop programs, tests | a socket, one request at a time | drive the API | not modelled |

The halves of a connection interact through frames only: the library owns no
transport, it calls a send callback and is fed whole frames through
`capnp_rpc_handle`. Connections of one vat share its provisions. A stream sits
on top of the asking half and shares its question table with ordinary calls.
Everything is synchronous; the concurrency is that of two or three vats whose
frames cross on the wire, and of applications that act at any time.

What makes each part correct: an export is never freed under a peer that holds
it, and an id always stands for one object; a question gets its own answer and
gets one; a Join says the truth; a nonce is claimed once, an embargo holds and
is lifted; a stream reports success only if all its calls succeeded; what was
built is what is read, in every layout, and a copy or the canonical form says the
same; unpacking inverts packing; no handle of a script dangles, a script reads
back what it set, and a union shows nothing of the arm it had before. The hazards behind these are listed, line by line, in
`PROJECT.json`.

## Modules

| Module | Models |
|---|---|
| `RpcWire` | messages of rpc.capnp as far as the vat reads them; FIFO transport per connection |
| `RpcServer` (extends `RpcWire`) | the answering half: `capnp_rpc_export`, target resolution, answers, Join |
| `RpcHandoff` (extends `RpcServer`) | provisions, embargoes, introductions |
| `RpcClient` (extends `RpcWire`) | the asking half and the application's ledger of imports |
| `RpcConn` (extends both) | `capnp_rpc_handle`, one action per message type; the operations of applications; `Spec`, `FairSpec` |
| `RpcProps` | the properties of connections |
| `RpcQuestions` | abstract: the life of a question, as an application sees it |
| `RpcRefine` (extends `RpcProps`) | the refinement mapping from connections to `RpcQuestions` |
| `RpcStream` (extends `RpcProps`) | the stream API on top of `RpcConn` |
| `WireWords` | the words of a message: pointers by their fields, data by value; objects as a reader sees them |
| `Builder` (extends `WireWords`) | the arena, pointers and every setter of the builder, as actions |
| `Reader` (extends `WireWords`) | framing and pointer resolution, as operators on a sequence of segments |
| `Message` (extends both) | what would be read if the message were serialized now |
| `Canonical` (extends `Message`) | trimming, deep copy and canonical form; `CopySpec`, which adds copies to the builder's steps |
| `Views` (extends `Reader`) | fields, elements and texts by their bits; the views of a list |
| `JanetMod` (extends `Message` and `Views`) | the Janet heap and its collector; one action per function of the module |
| `Capnpc` (extends `JanetMod`) | the generated accessors as sequences of calls of the module; `CapnpcSpec` |
| `Packed` | one action per iteration of the loops of `capnp_pack` and `capnp_unpack` |
| `MC*` | instances for TLC |
| `RpcProofs` | theorems: type correctness, one id per object, the nonce ledger, routing of Returns, the order of loopback embargoes and calls |
| `RpcFlowProofs` | theorems: a question is in one place; replies match, embargoes hold; connections implement `RpcQuestions` |
| `RpcRefProofs`, `RpcLedgerProofs` | theorems: references by double entry; no early free, ids keep their objects, Joins say the truth |
| `RpcAnswerProofs` | theorems: kept answers are finished, and name their object until then |
| `RpcStreamProofs` | theorems: the stream API |
| `PackedProofs` | theorems: buffers hold, unpack inverts pack, what was cut yields a prefix |
| `BuilderProofs` | theorems: the words given to an application are words of the arena, segments keep to their allocation, objects share no word |

A handler `Handle...(e, m)` is the whole C function of that name on connection
`e`: its early returns are the branches of an IF, its writes the primed
variables, and what it sends is appended to the peer's queue in the same step.
`Recv...` in `RpcConn` is the case of the switch in `capnp_rpc_handle`, and adds
what the function does besides (`note_introductions`). A table is a function
from slot numbers; an unused slot holds a model value; a loop that takes the
first slot that fits is `First` of the slots that fit. The C arrays `server`,
`refcount` and so on are variables of their own, indexed by connection.

Fields marked as ghosts (`Return.for`, `.to`, `.obj`, `Part.obj`,
`Provision.from`, `.by`, `provided`, `claims`, `vain`, `sent`, `replied`) are read by no
handler; they let properties speak of what a frame was meant for. `vain` holds the
questions that an end finished without effect: the Finish could not be sent, or it
came while an embargo held the answer back. The code keeps no trace of either, and the
answer keeps its slot; the properties about kept answers except exactly these.

Data that is abstracted: text, offsets, interface and method ids; the frame of
an answer is its capability, whether it holds results and whether it fits the
8192 bytes of a slot. What a dispatch function does is a choice among results
that fit, results that do not, and failure (`Outcomes`). A capability descriptor
knows whether its host name fits. Abort and the obsolete messages are handled
like Unimplemented, which stands for them. An Unimplemented message counts how often it
has been wrapped: `send_unimplemented` copies what it did not understand one level
deeper, and a copy that would be nested more than 64 deep fails (`MaxWraps`), so two
vats of this library do not echo a message for ever.

`SendMayFail` is the set of connections whose send callback may fail an application. A
request that could not be sent is taken back (`question_claim` is undone); a Finish
(`capnp_rpc_send_finish`, also when a stream retires its calls) has forgotten the
question by then, and `capnp_rpc_introduction_done` drops the introduction though the
vine was not released. A Release that fails changes nothing, and the application is
told. Later sends may succeed.

In the message modules a word is a record, so offsets, sizes and segment numbers
are exact. A data word is zero or a payload. In the `message` run the payload is
opaque; in `Views` and above it is a number, byte 0 the lowest, and fields and
elements are its bits. `ByteBits` is the number of bits of a byte: a word always has eight
bytes and the numeric types their 1, 2, 4 and 8, and what is scaled down is the
byte, since TLC's integers have 32 bits. `DoubleBits` scales the 53 bits of a
double in the same way.

The traversal counter is a parameter and a result of every read (`left`). A
message of `JanetMod` keeps it from call to call, as `capnp_message` does, and a copy
or a canonical form threads one counter through all its trimming and copying; the
properties of `Message` and `Canonical` each start with the full limit. The count in the
tag word of a list of structs is a signed field that the code casts to `uint32_t`:
`CountRange` stands for 2^32. Of a list the code checks only that its last word is in
the segment, and the model no more.

An operation that fails before it changes anything (no room, wrong argument) is a
step that is not enabled; `SetListText`, which may fail half-way, keeps what was
written. `built`, `vals` and `copies` are ghosts: what the application put into
every word it was given. `CopyAnywhere` says whether an application copies into
slots of any segment, or of the last one only. `capnp_copy_ptr_to_word` always
writes a near pointer and `alloc_local` always allocates in the last segment, so
the second is what the code supports. The run `copy_anywhere` has the first: TLC refutes
`CopyReadsBack` in four steps (a root in segment 0, a list in segment 1, and a copy of
it into the root), although `capnp_copy.h` promises a copy into any slot.

### The Janet module

`heap` is what the interpreter has allocated, `held` the objects a script still
refers to. `Collect` frees whatever the mark functions do not reach from `held`;
it may run at any time. `given` is a ghost: the last value set in every field and
slot, dropped when a field that overlaps it is set. A script is a sequence of
calls in any order, `MaxCalls` of them, forgetting an object included. A call
that panics before it changes anything is no step; `InitRootFails` and reads
that fail do change something, and are. `Capnpc` runs generated code: an accessor
is the list of calls the compiler writes, and one that panics ends there and
leaves what the earlier calls did.

The script is assumed to leave a buffer alone while it can reach a view of it
(the module cannot prevent the change, `capnp/message-view-buffer` shares the memory),
to write a struct either with its generated accessors or with plain functions,
and to use the fields of a group only while the group is selected.

Operators whose comment begins with "Mutant" belong to no specification: each
is the operator below it with a plausible mistake, and shows that a property is
able to fail.

## Applications

`Ops[e]` says which operations the application at `e` uses. They respect the
protocol where a peer is obliged to: it releases only references it was given
(`imports`) and finishes only questions it asked. `release` lets go of a
reference at any time; `releaseLate` waits until no open question names it, the
discipline under which Join and pipelining by id are safe. Pipelined calls,
Joins, Resolves and introductions in a Return have no function in the library
that sends them; a peer builds these frames, and they are marked external.

## Runs

| Run | Instance | Question and answer |
|---|---|---|
| `two_party` | one connection, 3 objects, 2 exports, 3 questions, 2 question slots, 1 answer slot, `release` at any time | Do references and ids stay consistent when Returns, Releases and Finishes cross, requests and Finishes cannot be sent and dispatches fail or return too much? They do, and a kept answer is one that will be finished or whose Finish was lost. |
| `join` | 2 objects, Join sets of 1 and 2 parts, 5 questions | Are verdicts true, references counted and kept answers good for the calls pipelined on them, incomplete and malformed sets included? Under `releaseLate` they are; `join_release` and `answer_release` are the counterparts. |
| `level3` | one connection, one nonce, 2 provisions, 1 export, stray ids, loopback embargoes, Resolves | Under fair delivery, is every question answered, does an embargo hold, does lifting it answer the Accept, is a nonce used once, do reflections follow the calls, and do questions live as `RpcQuestions` says? Yes, on one connection. |
| `handoff` | three vats, three connections, introductions in calls and Returns, the vine's Release may fail | Are references and the nonce consistent when Provide and Accept arrive on different connections? They are. |
| `stream` | windows 0, 1, 3 clamped to at most 2, 5 calls, introductions in Returns, calls and Finishes that cannot be sent, dispatches that fail, Returns that are too large | Does finish return success only if every call succeeded; is the first failure the first; do questions live as `RpcQuestions` says when calls are retired unanswered? Yes. |
| `packed` | words of 3 bytes, runs of at most 3 words more, every message of up to 5 words and long zero runs, cut anywhere | Does unpack invert pack, refuse or shorten what was cut, and stay in its buffer? Yes. |
| `message` | a first segment of 2 words, a ceiling of 4 words and limits of 2 and 5, structs, data, text and struct lists of 0 to 2 elements, building stops at 5 words, 4 segments readable | Does the reader find what was built and copied, do segments hold what is put in them, have objects their words to themselves, does framing invert, is the canonical form faithful and its own canonical form? Yes, with copies into the last segment. |
| `janet` | a script of 6 calls, one builder with a first segment of 2 words, a struct with a union of five arms, bytes of 2 bits, a traversal limit of 9 words, a message from outside with a double-far pointer | Do handles survive the collector, does what was set read back through getters, views and iteration, do integers survive, does the limit hold for all that is charged, is a union free of other arms' bits? Yes. |
| `embargoed_accept` | three vats | Violated: the answer to an embargoed Accept is sent on the connection of the Disembargo, to the introducer. |
| `join_release` | one connection, `release` | Violated: an export that is released and reused between two parts joins two objects. |
| `answer_release` | `two_party` with 2 objects and no failing sends | Violated: a capability that is released before the Finish is freed under the kept answer that names it. |
| `copy_anywhere` | `message` with `CopyAnywhere` | Violated: a copy into a slot that is not in the last segment does not read back. |

Bounds. Table sizes are constants and are one, two or three, so that every
table is full in some state and every reuse of a slot happens; with three
objects and two exports the export table overflows as well. `MaxAsks` bounds
the questions an end asks: three to five are what it takes to obtain two
capabilities, use them and let go of them. `MaxInFlight` bounds how many frames
an application adds to a queue; two in each direction are enough for every
crossing of a pair. `MaxWraps` is one or two in place of some sixty: a message is echoed
and wrapped again, and the last echo is not sent. `RoomToEcho` lets one
echoed notice be on a connection at a time. In
`packed`, a run limit of three is crossed by messages of five words. In
`message`, `MaxTotal` lets an application start a step while the arena has fewer
than five words, and one step adds up to eight; a struct in a far segment and a
child in a third are within that, and so are double-far pointers to structs and
lists, more segments than the reader takes (`MaxSegments` is 4 in place of 16), a
capacity at the ceiling and one above it, which `capnp_builder_set_max_seg_words` allows,
and a segment above a limit that was lowered. `TraversalLimit` 20 is enough to read and
copy most of these messages, and not all. One copy
is made in a behaviour; `DepthLimit` 2 is what a far pointer needs.
In `janet`, six calls are enough to make a builder, a root, set two arms of a union
and read the result, or to make a view, take two pointers, forget both the buffer
and the message and read on; the limit of nine words is used up by two or three reads of a
list. With bytes of two bits a word has 16 bits, `u64` crosses `DoubleBits` = 13,
and an element of every size has neighbours in its word. The frame a script is
given from outside (`Arrivals`) is one that the builder makes: it has a list of structs, a
text, and a list of data behind a double-far pointer, which `resolve_word` hands out
without a charge.
Deadlock is not checked: with its questions spent an application may stop, a
message is finished, and the codec ends. Symmetry is over objects, and only in runs without liveness.

Refinement. `RpcQuestions` allows a question to be asked, held by the peer, replied to,
answered, lost and finished, in that order and with one verdict. `Life` reads the
stage off the asking end's table, the frames in both queues and what the peer
keeps. `QuestionsImplemented` is then a property of every step of every handler:
a second reply, a verdict taken from another question's Return, or a Return that
reaches a question after its slot was used again, would be a step the abstract
specification does not have. "lost" is part of it: an oversized Return, a failing
dispatch function and a misdirected answer lead there. That nothing else does is
what `QuestionsAnswered` adds, in an instance without these.

Fairness. `FairSpec` is weak fairness of `Receive(e)` for each connection: the
program that owns the transport keeps pumping frames into `capnp_rpc_handle`,
as the harnesses of the repository do. No application is obliged to act.
The liveness runs leave out results that do not fit a slot, since
`handle_return` drops them and the question stays open, and dispatch functions
that fail, since `handle_call` answers those with nothing.

## Proofs

The theorems are about `RpcConn!Spec`, `RpcStream!StreamSpec`, `Packed!Spec` and
`Builder!Spec`.
The constants are restricted only by the named assumptions of the modules (table
sizes are naturals, `Peer` is a pairing without fixed points, NULL is not a
server, the value of an unused slot is no record, and so on) and by four
hypotheses that are stated in the theorems that need them:

| Hypothesis | Says | Needed, since |
|---|---|---|
| `Routed` | every vat has one connection, or no introducer lifts embargoes | `release_provide_embargo` answers on the connection of the Disembargo. `embargoed_accept` is the smallest system that is not routed, and `RepliesMatchQuestions` fails in it. |
| `JoinersHold` | a peer that asks Joins does not release what an open question names, nor finish a question that is not answered (`releaseLate` and `finish`, not `release` and `earlyFinish`) | `join_complete` compares ids that were recorded earlier. `join_release` has a peer that releases at once; `JoinVerdictsTrue` and `ImportsNameTheirObject` fail there, `NoEarlyFree` does not. |
| `ReleasedLate` | a condition on the behaviour, not on the constants: no capability is released while a question that addressed or brought it is open | a kept answer holds no reference of its own, and the code lets an application release at any time. `answer_release` is a behaviour without it, in which `KeptAnswersNameTheirObject` fails. |
| `StreamsFinishTheirCalls` | an application that streams leaves Finish to the stream | the stream finishes each call it retires. It asks for the Return by question id, and a question that was finished behind its back has none. |

What is proved:

* `TypeCorrect`: `Spec => []TypeOK`. `TypeOK` is not inductive, because lifting
  an embargo puts the question id recorded in the provision into a Return; the
  inductive invariant `TypeInv` adds that an embargoed provision has recorded
  the question and the connection of its Accept. There is one lemma per handler
  and operation.
* `OneIdPerObjectCorrect`: `Spec => []OneIdPerObject`. Inductive with `TypeInv`;
  the only steps that could break it are those that export, and
  `ExportKeepsOneId` covers them all.
* `NonceLedgerCorrect`: `Spec => []NonceLedger`. Inductive with `TypeInv`. A
  Provide adds one claimable provision and one to the count of Provides, an
  Accept moves one from claimable to claimed, and lifting an embargo drops a
  provision that was no longer claimable.
* `LoopbackOrderCorrect`: `Spec => []LoopbackFollowsCalls`. The property speaks
  of the reflection only. `OrderInv` adds what holds before there is one: ids on
  the wire are older than the next question (`SentBefore`), and calls behind an
  embargo in a queue are newer than it (`EmbargoesPrecedeCalls`). Then the step
  that reflects the embargo finds no older call left at the peer, and its Return
  in front.
* `RepliesMatchCorrect`, `EmbargoHoldsCorrect`: in a routed system. There `RouteInv` holds
  (lemma `RouteInvariant`): a claimed provision was claimed on a connection of its own
  vat, and no Disembargo.provide is on its way when nobody lifts embargoes. Neither property is
  inductive. `FlowInv` says that a question is in at most one place, among its
  request in a queue, a part of a Join set, an embargoed provision, a Return in a
  queue and the recorded answer (`OnePlace`); that it has one slot; that an id
  not yet spent is nowhere; and that where an open question is agrees with what
  it asked (`Matched`). A place is counted 0, 1 or more (`Tally`), and a step is
  either quiet, asks, moves a request to where the peer keeps or answers it, or
  takes a Return.
* `QuestionsCorrect`: in a routed system, `Spec => QuestionsImplemented`, that is,
  the connections implement `RpcQuestions`. By `FlowInv` the stage that the
  mapping `Life` computes is given by the one place that a question is in
  (`Lives`), so each kind of step moves each question along one edge of
  `Questions!Forward`, asks or ends it, or leaves it.
* `NoEarlyFreeCorrect`: in a routed system, `Spec => []NoEarlyFree`; with
  `JoinersHold`, `NamesCorrect` and `JoinVerdictsCorrect` for
  `ImportsNameTheirObject` and `JoinVerdictsTrue`. The argument is double entry.
  What a queue carries is a sum over its frames (`CarriedIn`, `GivenBackIn`),
  defined as the size of a set of tokens so that the sum of a concatenation is
  proved without induction. `RefInv` strengthens `NoEarlyFree` by the references
  that embargoed provisions pledge (`Counted`), says that unused slots count
  nothing and that pledged ids name their objects, and, with `JoinersHold`, that
  each part of a Join, on the wire or recorded, belongs to an open question about
  an import that is held (`JoinsStand`), so its slot cannot have been reused. A
  step is `Balanced` when what the end sends or newly pledges has been counted by
  it, and what it holds or gives back it had or was just handed. That each of the
  handlers and operations is balanced is one lemma each; that a balanced step
  keeps `RefInv` is `BalancedKeeps`. `handle_return` needs `FlowInv`: a question
  whose Return arrives has no part of a Join waiting, so answering it lets no part
  stand alone.
* `KeptAnswersFinished`: in a routed system, `Spec => []KeptAnswersWillBeFinished`,
  with Finishes that cannot be sent and Finishes that overtake the lifting of an embargo.
  `AnswerInv` adds what makes it inductive: the peer keeps one answer to a question and
  only once it is done with it (`KeptOnce`), and when the asker has forgotten a question,
  and not in vain, its Finish is queued behind the request, if that is still queued, and
  for as long as the answer is kept or held back by an embargo (`EndsFollow`). A handler
  either leaves the table, keeps the answer it has just sent, or drops the answer of the
  Finish it was given (`AnswersMove`); a Finish that is handled too early is in vain
  (`FinishDrops`, `DropsEarly`), and a question in vain stays so (`VainStays`). `Serves`
  is what all handlers have in common, and `ActsOn` what the operations have.
* `KeptAnswersCorrect`: in a routed system, `Spec /\ [][ReleasedLate]_vars =>
  []KeptAnswersNameTheirObject`: it speaks of the behaviours in which no capability is
  released early, whatever the constants allow. Nothing at the vat that keeps an answer
  protects its export; the peer's references do, and they may all be given back
  right behind the Finish. So `KeptInv` says of a kept answer, unless its question was
  finished in vain, that the question is open and has brought the capability or is being
  sent it (`Brings`), or that a Finish
  is queued and the Releases *in front of it* leave the count above zero (`Leaves`);
  and that what an open question has brought is held (`BroughtIsHeld`). With `RefInv`
  the first implies that the Releases of the whole queue leave the count above zero
  (`BroughtCounts`), which is what `Leaves` needs at the moment the Finish is sent.
  Then a handler that takes a Release lowers the count by what leaves the queue
  (`CountsLast`), and what is sent later comes behind the Finish (`BeforeAppend`).
* `StreamTypeCorrect`, `StreamTracksCorrect`, `FinishOkCorrect`,
  `FirstFailureCorrect`: under `StreamsFinishTheirCalls`. `StreamInv` says of each
  end that its question table is in order, that the window lists open calls from
  the oldest on, that a call no longer listed has left the table and succeeded
  unless the stream has failed, and that the failure is the first. Retiring is
  done on values first (`Rest`, `Retires`), for any number of calls at once.
* `PackedTypeCorrect`, `BuffersHold`, `CutPackedYieldsPrefix`, `UnpackInverts`: all
  four invariants of `Packed`, for every message, every size of a word, every limit
  of a run and every numbering of the tags (`TagByte`: one byte value for each set
  of positions, 0 for the empty set). None is inductive. `PackedInv` says that the
  packed bytes are blocks laid end to end, one for each iteration of `capnp_pack`
  (`Layout`, with the places of the blocks as an existential witness, so that
  nothing is recursive), that what arrived is a prefix of them (`Received`), and that
  `capnp_unpack` stands at the start of a block with exactly the words in front of it
  unpacked (`ReadTo`). Packing appends a block (`LayoutGrows`); `BlockUnpacked` shows
  that an iteration of `capnp_unpack` at a block that is all there takes it whole and
  continues the prefix (`WordRead`, `RestRead`, `OutGrows`), and refuses one that is
  not. The bytes behind a tag are found by their rank, a bijection between the bytes
  that are not zero and the numbers from 1 up to how many they are (`NthFacts`).
* `TypeCorrect` (of `BuilderProofs`), `ArenaBounded`, `ObjectsStayApart`: the arena of a
  builder, for every size of its segments, every set of limits and every sequence of
  setters. `BuilderInv` says that the segments are good (within their allocation,
  and that within the ceiling or a limit), that what was given lies in them, and that objects consist of
  given words and share none. Each operation is a composition of `Grown`, `Extend`,
  `AllocWords`, `WritePtr`, `Fill`, and for each of these one lemma says that it
  keeps segments good and lets them only grow (`Grows`), also where it fails half-way. Limits
  are any naturals, so a segment is within the ceiling or one of the limits (`Allowed`). What
  `alloc_words` hands out lies behind the words used before (`New`), so no object
  had it. `ListTextOn` and `Grown` are recursive functions; that such a function
  exists is shown from its stages (`StagesExist`, `DoublesExist`), by the least
  natural number of a set (`Climb`), since the library's induction theorems cannot
  be used. The theorems are about building alone: `CopySpec` adds copies, which
  are recursive, and there `ArenaHolds` is checked by TLC.

Every invariant that is proved was first checked by TLC on the instances above.

Only model-checked: liveness (`QuestionsAnswered`, `LiftedEmbargoesAnswer`), which is
out of the prover's reach; reading (`FrameRoundTrip`, `ReadBack`), copies and the canonical
form (`ArenaHolds` with copies, `CopyReadsBack`, `CanonicalFaithful`), the Janet module and
the generated accessors, since what is read or copied is a tree and the operators that
walk it are recursive.

## Disagreements seen

Four are runs: `embargoed_accept`, `join_release`, `answer_release`, `copy_anywhere`. These
four have none, and no property of a run rests on the other side of them:

* `handle_call` returns the code of a dispatch function that fails and sends nothing
  (`capnp_rpc.c:586`), so the question is never answered. `capnp_rpc.h:67` promises "non-zero
  for an exception", and `capnp_rpc.c:365` says that a call which cannot be routed "still has to
  be answered, or the caller waits forever". `QuestionsAnswered` fails in `level3` when
  `Outcomes` has "fails" and the application calls what it holds.
* `capnp_rpc_stream_finish` (`capnp_rpc.c:1197`) retires what is unanswered as a failure;
  `capnp_rpc.h:321` says "Wait for every outstanding call." It never reports such a call as
  a success (`FinishOkMeansAllSucceeded`).
* `capnp_builder_set_max_seg_words` (`capnp_builder.c:240`) stores any value, and segments grow
  up to it; `capnp_builder.h:25` says "Hard ceiling per segment". `CapsAllowed` claims the larger
  of the two.
* A list of data or pointers behind a double-far pointer costs nothing (`capnp_message.c:198`),
  though `README.md:43` lists a "Traversal word budget". `BudgetHolds` excepts these lists
  (`Gratis`).

## Not modelled

* Allocation failure, and a send callback that fails inside a handler: the
  answer is then kept though it was not sent.
* A send callback that re-enters the connection: frames are queued.
* Wrap-around of question ids after 2^32 questions, and Release counts beyond
  `INT_MAX`.
* `capnp_rpc_set_vat` on a connection that has traffic.
* Messages that no builder wrote: the runs read only what `Builder` and `Canonical` write,
  and `Arrivals`, which a builder writes too. Resolution is modelled for the words a builder can
  write, with the errors they can lead to; undefined element sizes, sizes that wrap, and reads
  outside a segment (of a list that starts before it, or of content behind a double-far
  pointer, which is not checked) are not.
* A Disembargo that finds another introducer's provision (`release_provide_embargo` goes
  by the introducer's question id alone): the `handoff` run with a second introducer is
  out of TLC's reach.
* In the Janet module: floating-point values (fields and elements are modelled by
  their bits), `tostring`, the registration of functions, the texts of panics.
  A panic inside `build-message` leaks its arena; memory that nothing reaches is no
  state of the model. `ptr_get` and `each` panic on lists of values, so iteration is
  checked for lists of structs and of pointers.
* In the schema compiler: names and files (types of the same short name from two
  files, a group whose accessor has the name of a getter), enums and interfaces,
  which become constants, and the parsing of the request, which is the reader's.
  `emit_group_clear` does not reset the tag of a union inside the group; the
  schema of the run has no such union. After an accessor that panicked (the tag is
  set first, then the value is refused) the arm shows the bits of the one before;
  `NoStaleArm` excepts such a struct.
* The interop programs and the tests, which drive the library over a socket and
  keep no state of their own.

## Plan

1. Done: the connection (`RpcWire` to `RpcProps`), streams, the packed codec, the
   message library with its reader, the Janet module and the generated accessors;
   the abstract life of a question and its refinement.
2. Done: proofs of the safety properties of connections and streams, and of the
   refinement.
3. Done: proofs of the packed codec and of the builder's arena.
