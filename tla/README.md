# Fandango, verified

TLA+ models, model-checking runs and proofs for Fandango, a generator of
structured data from grammars and constraints that can also play parties of a
communication protocol. Paths below are relative to the repository (`src/` here
is the repository's own root, so its package is `src/src/fandango/`).

The models are written from the code. Each definition names in `PROJECT.json`
("map") the lines it stands for; the hazards of the code, with the properties
that address them, are listed there as well.

## The system

| Component | State | Operations | Talks to |
|---|---|---|---|
| `api.py` `Fandango` | the strategy | `fuzz`, `generate_solutions`, `init_population`, `parse` | creates a `FandangoStrategy`, consumes its generator with `islice` |
| `evolution/algorithm.py` `FandangoStrategy` | population, evaluation, rates | `generate`: `_generate_simple`, `_generate_io` | a coroutine: yields solutions from deep inside its phases |
| `evolution/evaluation.py` `Evaluator` | fitness cache, solution set | `evaluate_individual`, `flush_fitness_cache`, `compute_mutation_pool`, selection | yields each solution once, to whoever consumes the strategy |
| `evolution/population.py` | unique hashes | `refill_population`, `fix_individual`; IO variant mounts packets | evaluator, grammar |
| `evolution/adaptation.py` | rates, maximal repetitions and nodes | `update_parameters` | strategy, grammar |
| `io/__init__.py` `FandangoIO` | singleton: receive buffer, parties, lock | `add_receive`, `received_msg`, `get_received_msgs`, `clear_by_party`, `transmit` | listener threads write, the fuzzing thread polls |
| `io/__init__.py` `UdpTcpProtocolDecorator` | running flag, socket, connection, thread, remote address, lock | `start`, `stop`, `on_send`, `_listen` | the network; `FandangoIO` through its party |
| `io/__init__.py` `ProcessManager` | child process, reader | `set_command`, text mode | parties `In` and `Out` |
| `io/packetforecaster.py` | reduced grammar, parser | `predict` | grammar, iterative parser |
| `io/packetparser.py` | locals only | `parse_next_remote_packet` | `FandangoIO`, iterative parser |
| `language/grammar/parser` | Earley columns, cached between fragments | `new_parse`, `consume`, `can_continue` | grammar |
| `language/tree.py` | nodes with parents, cached hash and size, read-only flags | `append`, `set_children`, `replace_multiple`, `protocol_msgs` | everybody |
| `constraints/` | caches | `fitness`, `check` | tree, search expressions |
| front end, CLI, language server, converters | none that lasts | read, translate, print | the API |

What is hard here, and why tests hardly reach it:

* **Threads.** Each party has a listener thread. It appends to the buffer of
  `FandangoIO` while the fuzzing thread polls it, keeps positions in copies of
  it, and clears it by such positions. Two threads may establish the connection
  of a socket party, and one closes what the other uses.
* **Time.** Three timeouts (15 s for an answer, 10 s for an expected party, 1 s
  for the next fragment), each compared after a poll; answers race with them.
* **Fragments.** Messages arrive in pieces, from several parties, in one list;
  one message may be the beginning of another.
* **Coroutines.** `_generate_simple` yields from inside refilling, crossover,
  mutation, fixing and evaluating. Its consumer (`islice`) may drop it at any
  yield and start another generator on the same caches.
* **Caches.** Fitness is cached per constraint, per part and per individual, by
  hashes that nodes cache as well; Earley columns are kept between fragments.
* **Numbers as verdicts.** A tree is a solution if a quotient of counts, scaled
  in doubles, is at least 1.0.
* **State that outlives its user.** The `FandangoIO` singleton over sessions;
  the strategy's caches over generators; the remote address over restarts.

What makes each component correct:

* session: what is exchanged is forecast, or made of what is forecast, and meets
  the constraints; nothing is exchanged once the history has left the grammar; a
  success is a whole conversation, wherever the forecast is exact and no
  mutation loses a message; nothing received is lost, duplicated or reordered; a
  session ends;
* buffer and remote parser: positions stay valid; the longest message wins;
* socket party: one live listener, one connection, no failing assertion, calls
  return;
* strategy: solutions only, each once, none lost; progress; no exception;
* API: the first solutions desired, or an error or padding as asked; an end;
* iterative parser: it accepts the words of the grammar, however they are cut,
  and knows whether a longer one is possible;
* forecaster: exactly the messages the grammar can go on with;
* tree: cached hashes and sizes are those of what is below; trees do not share
  nodes; the exchanged part never changes;
* constraints: a check means what logic says; only what satisfies everything is
  a solution, and everything that does is one.

## Modules

| Module | Models |
|---|---|
| `Protocol` | what a session is given: parties, grammar as a set of conversations (`Language`) and of words per message nonterminal, constraints as `Fitness` |
| `Conversation` | **abstract**: what a session promises |
| `FandangoIO` | the operations of the receive buffer, each atomic under `receive_lock` |
| `ProtocolSession` | `_generate_io` with `parse_next_remote_packet`, interleaved with listeners; implements `Conversation` |
| `CompliantPeers` | `ProtocolSession` composed with parties that keep to the protocol |
| `SocketParty` | a party behind a socket: main thread, listeners, peer |
| `Evolution` | `_generate_simple`, `Evaluator`, `PopulationManager` as a coroutine with its consumer |
| `FuzzApi` | `Fandango.fuzz()` and `generate_solutions()` as consumers of `Evolution` |
| `Grammars` | nodes of grammars and, as the reference, the languages they stand for |
| `IterativeParser` | the Earley parser, fed by fragments |
| `Forecaster` | `GrammarReducer`, `PathFinder`, `PacketForecaster.predict`, mounting |
| `Exchange` | conversations message by message, composed of the three above |
| `DerivationTree` | the class of that name: methods as operators from heap to heap |
| `TreeEvolution` | the trees of a session: population, mutation, crossover, history |
| `Constraints` | constraints as objects that refer to their parts; the fitness of every class, with caches and scopes; inverses; **reference**: `Holds` |
| `Doubles` | addition, multiplication and division of doubles |
| `Scoring` | `evaluate_individual`: from constraints and bounds to a score |
| `Protocol_proofs`, `Conversation_proofs`, `ProtocolSession_proofs`, `ReceiveBuffer_proofs`, `CompliantPeers_proofs`, `SocketParty_proofs`, `FuzzApi_proofs`, `Scoring_proofs` | theorems |
| `MC*` | instances for TLC |

Operators commented "Mutant" stand before the definition they are a wrong
version of. No specification uses them; each shows that the property named in
`PROJECT.json` ("mutants") depends on the code it varies.

### Protocol and ProtocolSession

A word is a sequence of atoms, an atom an indivisible run of bytes. A
nonterminal is known by its complete words (`Words`), the inputs after which its
parser can continue (`Viable`, which may contain complete words) and the words
whose generator parameters cannot be derived (`Underivable`, where
`populate_sources` raises).

The forecast of a history that begins a conversation is any set of packets that
misses none of those with which a conversation goes on (`Predicted`,
`ForecastAssumption`): the code's forecast has these (`ForecastExact` of
`Exchange`) and, in the middle of an iteration of a loop, more. A history that
begins no conversation has no incomplete parse, and its forecast is empty. The
instance of the runs computes its predictions from its grammar, and
`ForecasterAgrees` compares them, and the nodes the mounting paths have anew,
with those of `Forecaster`.

What a packet adds to a history (`Additions`) is the packet with a word of its
nonterminal (`Fresh`) or, if it is Fandango's own, what mutations have made of it
(`Reworked`). A mutation regenerates a node that is not read-only: the message
node itself, which then has neither sender nor recipient (tree.py:767-785) and
which `protocol_msgs()` passes over; or a node above it that the mounting path
made anew, with all the messages its symbol derives. So an addition has the
messages that are said, which may be none or several, and those that are lost
(`lost`). `Evolved` is any such choice; in the instance, `talk` and `round` are
regenerated with every subset of their messages lost.

`pc` is where the main thread is. An action is the code between two accesses to
the buffer:

| `pc` | Code |
|---|---|
| `predict` | `forecaster.predict`, end of the conversation (algorithm.py:483-490) |
| `decide` | may Fandango speak, and has nothing been received (492-498) |
| `fuzz`, `recheck`, `transmit` | find a solution, poll again, send and record (499-550) |
| `wait`, `waiting` | poll for any message (552-558) |
| `expect`, `expecting`, `select` | poll for a party of the forecast, choose it (packetparser.py:38-84) |
| `fragment`, `refragment` | search the next fragment, feed all parsers (86-135) |
| `deliver` | best parse, clear the buffer, mount, evaluate (137-169; algorithm.py:564-583) |

The second state of a pair is the loop after a poll that found nothing; there
the clock may expire at any time, whatever has arrived since, because the code
compares it after polling. `receive` is the buffer; `arrived` and `taken` are
history variables. `reader` has the locals of `parse_next_remote_packet`;
`complete` keeps the insertion order of the dictionary, which breaks ties.
Mounting a received message and evaluating it are one step: they touch only the
fuzzing thread's own data. `ForecastingResults` lets the packet that is seen
first stand for all with its sender and nonterminal, as `add_packet` does.

Fuzzing a message is a choice among the solutions (`Candidates`) for the forecast
packets of Fandango's parties; a reworked one only if some fresh one fails, since
mutation needs a failing tree. What the evaluator has yielded for a history it
does not yield again (`solved`), so an addition that says nothing, which leaves
the forecast as it is, is not chosen for ever; the packet before it is sent once
more, or, without one, `protocol_msgs()[-1]` raises (`NothingToTransmit`). Fuzzing
may fail (`FuzzGivesUp`) only when generations are bounded. `NewSession` is
another `fuzz(mode=IO)` in the same process, which inherits the buffer.

### CompliantPeers

External parties speak when the conversation allows it and as grammar and
constraints allow, cut messages as they like, never join two, and answer before
a timeout. `wire` is the conversation as it happened; Fandango's history is
compared with it. Six assumptions say which protocols this is about, and each
is needed. The first two are conditions on Fandango's side:

* `ExactForecasts`: the forecast offers only what the grammar allows. This
  excludes loops whose iterations are of several messages, in the middle of which
  the code offers what follows (`forecast_extra`);
* `TameEvolution`: mutations replace Fandango's message by another forecast one
  at most. This holds if no constraint can fail at a message node of Fandango's
  or above it; otherwise a mutation may take the sender off a message;
* `TurnBased`: it is never both Fandango's and another party's turn, and what a
  party may say next tells its packet apart;
* `Spoken`: there is something to say, and no external party sends an empty
  message, which nobody could tell from silence;
* `Separable`: where a party speaks twice before it is answered, its first
  message is not continued to another one by the beginning of its second. The
  buffer is one list of fragments and shows no boundaries: with the words `1`
  and `12` next, and a message `2` after `1`, the parser takes the longer;
* `Answerable`: a party whose turn it is has something to say that the
  constraints accept.

### SocketParty

`main` and `listeners[i]` are program counters, `i` the number of the start that
spawned the listener. `lock` is held from `Acquire` to leaving `_wait_accept`;
`running` and `connection` are read without it, as in the code. The socket's
states are those the code can tell apart: a connection is up, closed by the peer
(reads as empty data, writes may fail) or reset (reads and writes raise).
`kind.sole` says whether the specification has exactly one external party, on
which `receive_msg(None, ...)` depends.

### Evolution and FuzzApi

An individual is a tree up to its hash. `phase` is where the generator is,
`todo` what its phase has still to evaluate, `suspended` the solution it is
suspended at. `Resume` and `Abandon` are the consumer's. Crossover, mutation and
the grammar may give any individual; selection and destruction any the code
could choose. A fitness is a constant of an individual, or one of several if
there are soft constraints. `FuzzApi` has the two consumers: `fuzz()` starts the
generator, takes solutions as `islice` does and pads or raises afterwards; the
caller of `generate_solutions()` (`call = "stream"`) may drop a generator at any
solution and start another one on the same strategy.

When the generator has ended, `_print_warnings_if_necessary_post_fuzz` takes one
of the actions `Complete` (nothing is missing), `Unconverged` (its branch for an
average fitness below the expected one, which raises, pads or goes on to the
next) and `TooFew` (the branch after it). Which of the two it takes is open: the
average contains the diversity bonuses, which the model leaves out.

### Grammars, IterativeParser, Forecaster and Exchange

`ProtocolSession` takes for granted what these compute: which words a message
has, whether a longer one is possible, and what may come next.

A grammar is a function from names to nodes; a node with a sender is a message.
`LanguageOf`, `WordsUpTo` and `Conversations` say what it means, as least solutions
cut off at a length; nothing in them is taken from the parser. `IterativeParser`
compiles nodes to rules and walks columns as `_consume` does: states are added
to a column while it is walked, a terminal that is cut stays in its column as an
incomplete state, loops take shortcuts, and the table is kept as it was before
the last column was completed. A column of the model stands for the eight the
code has for a byte. The order in which Python iterates over a set of rules is
open: either shorter or longer rules first.

`Forecaster` parses the names of the messages so far with the reduced grammar,
then walks along the last children of each parse (`Along`) and beyond it
(`Beyond`). `Exchange` runs them together: forecast, parser for one of the
forecast nonterminals, fragments while `can_continue`, mounting at one of the
paths of the packet. It has no time, threads or buffer; those are
`ProtocolSession`'s.

### DerivationTree and TreeEvolution

A heap is a sequence of nodes with children, parent, read-only flag, cached hash
and size. A hash identifies what it was computed from, so a stale one can be
seen. `TreeEvolution` makes the calls a session makes: a population entry is a
deep copy of the history with a packet appended at a hook-in path; evaluation
asks for hashes and takes slices; mutation and crossover replace subtrees; a
solution becomes the history and read-only. Unreachable nodes are forgotten
after each step (`Keep`), which is Python's garbage collection.

A slice is a node of its own that becomes the parent of the children it is made
of, without being their only parent (tree.py:987-989): `TreesAreDisjoint` and
`ReplacesGivenNode` say so, and except only nodes whose path leads into a slice.

### Constraints, Doubles and Scoring

A specification is a sequence of objects, in which each refers to its parts by
their positions and comes after them; which of them are the hard constraints is
a sequence of positions. So an object may be a part of several others, as the
antecedent of an implication is of its inverse. `Fitness`, `Holds` and
`ScopingOf` are tables over that sequence, made from those of the parts.

A tree is the sequence of the values of its items, a search finds the items or
what a quantifier has bound. A scope, with the local variables, gives each name
the node that is bound to it, or 0. The evaluation of an object maps a scope and
the caches to a fitness, a scope and caches: `Run` makes calls of parts one
after the other, lazily or not, and hands on what each has left behind. A cache
entry has the object, the tree and the values of what is bound for its key, as
the code's hashes do. Quantifiers write to the scope they are given, unless it
is empty, when they make a new one (exists.py:61, 69; `RunInstances`).
`Holds` is the meaning, without caches, numbers, laziness or shared scopes. A
comparison with several combinations holds if all that can be evaluated do.

What a quantifier binds remains in a scope that was not empty. This shows only
if a statement binds a name that it also uses outside of the quantifier: in
`all(any(<x> == 1 for <x> in *<item>) and <x> == 0 for <y> in *<item>)` the last
`<x>` is an item that the inner quantifier bound. `apart`, in `ScopingOf`, says
that this does not occur; the properties that speak of what holds assume it.

`Doubles` has a number as 53 bits and an exponent, since 1/6*5 + 1/6 is not one;
its sums, products and quotients were compared with Python's for several
hundred operands. `Scoring` divides and multiplies in the order of the code.

## Runs

| Run | Instance | Shows |
|---|---|---|
| `session` | 1 fuzzer and 2 external parties, 5 nonterminals, a loop of two messages (one iteration), mutations of messages and of the nodes above, 3 arrivals (empty ones among them), 2 sessions | type, `Conservation`, `PositionsStayValid`, `LongestParseKept`, `SenderStaysForecast`, `DoneMeansComplete`, refinement `KeepsPromise`, `NothingAfterStraying`, liveness `SessionEnds` |
| `session_forecast` | the same | **violated**: `EveryMessageForecast` |
| `peers` | 5 conversations of up to 4 packets, words of up to 3 atoms in any fragmentation, 2 sessions | `HistoryIsWhatHappened`, `NeverFails`, `NothingLeftBehind`, `Completes` |
| `socket` | every transport, endpoint and `sole`; 3 starts, 2 messages on the way | `ListenerIsJoined`, `OneConnectionPerRun`, `RunningMeansListening`, `AssertionsHold`, `CallsReturn` |
| `api` | 3 individuals, two of them solutions, population of 2, with and without soft constraints; limits, infinite, best effort and warnings as errors combined; any number of generators | `SolutionsDistinct`, `SolutionsNotLost`, `ElitesAreCached`, `ReturnsSolutions`, `FailsIffMissing`, `GeneratorProgresses`, `LimitedCallEnds` |
| `api_padding` | best effort | **violated**: `PaddedToDesired` |
| `evolution_resume` | soft constraints, `generate_solutions()` | **violated**: `NoKeyError` |
| `tree` | 2 exchanges of request and answer, population of 2, with and without a slice | `TreesAreDisjoint`, `CachesFresh`, `HistoryKept`, `ReplacesGivenNode` |
| `scoring` | 539 specifications: every class, nested up to three levels, lazy or not, alone; up to 2 constraints with up to 2 bounds; 14 trees, 2 of them evaluated in any order | `ChecksMeaning`, `PerfectMeansSatisfied`, `SolutionsSatisfy`, `FailureIsBlamed`, `InvertOpposes` |
| `score_rounding` | 5 constraints, 1 bound | **violated**: `SatisfiedIsSolution` |
| `exchange` | 4 grammars, 5 messages, words of 5 characters in fragments of 1 and 2, both orders of rules | `ParsesLanguage`, `ContinuesIffLonger`, `ForecastExact`, `MountsNext` |
| `forecast_extra` | the same | **violated**: `ForecastSound` |

Why the bounds are enough. In `session` three arrivals suffice for a message in
two fragments with a foreign one in between, for one left over to the next
session, and for every order of the three timeouts; that there are finitely many
arrivals matters to `SessionEnds` only (a party that sends for ever, as `Out`
does at the end of its process, keeps an open parser busy for ever); the grammar has a
message that begins another, an internal message, two parties with overlapping
turns, merged recipients, and a loop of two messages, in the middle of which both
Fandango and an external party may leave the grammar. One iteration shows that,
and the beginning of a second would be the same state of the forecaster. In `peers` the bound of 10 arrivals is never reached. Three
starts give a stale listener, a current one and a failed start. In `api`
the grammar has fewer individuals than refilling tries for, so every loop meets
its limit; the second generator meets the caches of a dropped one. In `tree` two
individuals are needed for crossover, and two equal exchanges for nodes that can
be mistaken for one another. In `scoring` the second tree meets the cache of the
first, and two bindings per quantifier those of one another. In `exchange` the
grammars have nested loops, bounded and optional ones, left and right recursion,
alternatives of which one begins the other, and a nullable beginning; the slack
of the reference languages is longer than any rest that can be awaited.

`CHECK_DEADLOCK FALSE`: sessions and calls end, and their bounds are used up.

**Fairness.** `ProtocolSession`: weak fairness of the main thread's steps; each
poll loop compares a clock that advances and nothing it calls there blocks.
Listeners and external parties owe nothing. `CompliantPeers`: also of parties
whose turn it is. `SocketParty`: of each thread, since the operating system
schedules them and `select` has a timeout of 0.1 s, and of a client connecting,
without which `on_send` of an open party waits for ever, by design.
`FuzzApi`: of the generator while it is not suspended, and of what `fuzz()` does
with its solutions; the caller of `generate_solutions()` owes nothing. The other
modules state no liveness.

## What the runs found

1. `session_forecast`: packets of one sender and nonterminal to different
   recipients share one forecast entry (packetforecaster.py:301), so one of the
   recipients is lost.
2. `evolution_resume`: with soft constraints, a generator dropped while its
   population is evaluated leaves `self.evaluation` older than the flushed
   cache; the next generator raises `KeyError` (evaluation.py:72).
3. `api_padding`: in best-effort mode the solutions are returned twice
   (api.py:372, 383, 433).
4. `forecast_extra`: a loop ends in the forecast as soon as it has its minimal
   number of iterations, although the last of them is not complete
   (packetforecaster.py:233): with `(m r)* k`, after `m` Fandango may send `k`.
   What is exchanged in that way leaves the grammar; then nothing can be
   forecast, and `_generate_io` takes this for the end and gives the incomplete
   conversation out as a success (algorithm.py:485-489). `ProtocolSession` has
   such forecasts, so `SuccessIsValid` does not hold of it: `session` does not
   check it, and TLC finds a violation there even without mutations.
5. `score_rounding`: with five constraints and one repetition bound (also one
   and five, two and five, and so on; or 49 constraints and no bound) every tree
   has a score below 1.0, and nothing is ever a solution (evaluation.py:197,
   210, 228). Six is the least number of constraints for which this happens.

Seen while modelling, without a run of their own:

* In infinite mode `fuzz()` keeps nothing, and counts what is missing from what
  it kept: with `desired_solutions` and warnings as errors it raises although all
  of them were found (api.py:358, 426). `FailsIffMissing` leaves this mode out.
* Session: a mutation of the message node itself loses its sender
  (mutation.py:86-91, tree.py:767-785). `_generate_io` then takes the packet
  before it for the new one and transmits it a second time; if there is none,
  `protocol_msgs()[-1]` raises `IndexError` (algorithm.py:537). Of several
  packets that a mutation above a message creates, all enter the history and
  only the last is transmitted, by `on_send` of its sender, whoever plays it.
* Socket party: `current_remote_addr` survives `stop()`; a restarted open UDP
  party sends to the peer of its former run (`io/__init__.py:328`).
  `ConnectParty` assigns the default port to `protocol` rather than to `port`
  (near line 367).
* API: the documented default of 500 generations does not apply when
  `desired_solutions` is given (api.py:327).
* Iterative parser: a nonterminal that is completed empty in the column in which
  it was predicted is not seen by states predicted later (`<start>::=<a><b>`,
  `<a>::=<x>`, `<b>::=<x>'b'`, `<x>::='x'?` rejects `b`); star, plus and
  repetition over a nullable body do not terminate. The grammars of the run have
  neither.
* `Parser.parse_forest` caches a forest that was consumed partly (parser.py:73-81).
* Forecaster: a loop without an upper bound is forecast for at most
  `MAX_REPETITIONS` iterations; `Conversations` is limited likewise.
* Constraints: bindings of a nested quantifier stay in the shared scope; the
  inverse of a comparison over several combinations is not its negation
  (nothing calls `invert`); quantifiers over Python identifiers give no failing
  trees; the front end does not create implications.
* Acceptance: a received message needs a score of 0.99 only (algorithm.py:580).

## Proofs

Checked by TLAPS, for every value of the constants.

* `Conversation_proofs`: `PromiseIsSafe`, `PromiseStops`. The invariant adds to
  `DoneMeansComplete` that an open conversation meets the constraints
  (`OpenIsAccepted`). A conversation that can be gone on with has a forecast, by
  `ForecastAssumption` (lemma `ForecastComplete` of `Protocol_proofs`), so one
  that is done is complete, or begins none.
* `ProtocolSession_proofs`: `TypeCorrect`, `SenderIsForecast`,
  `SessionKeepsPromise`, `SuccessIsComplete`, `NothingAfterItStrays`, for any
  forecast that misses nothing and any mutations. The inductive
  invariant `IInv` says that the forecast in use was made for the history as it
  is (`ForecastHolds`), that a candidate is made of a forecast packet and solves
  the constraints (`CandidateHolds`), that complete parses are words
  (`ParsesHold`) and that the sender found stays (`SenderStaysForecast`). None of
  these is visible in the promise, and each is needed: an addition is one of the
  forecast only because no step between `predict` and the append changes the
  history. With `IInv`, every step maps to a step of `Conversation` or to a
  stutter, so `Spec => KeepsPromise`, and what holds of `Conversation` carries
  over.

  `HistoryConforms` and `SuccessIsAConversation` say when a session keeps to its
  grammar: if the forecast is exact (`ForecastsExactly`) and mutations replace
  Fandango's message by another forecast one at most (`MessagesStay`), the
  history is always the beginning of a conversation, and a success a whole one.
  Both conditions are hypotheses of the theorems, not of the module: the run
  `session` has neither, and there a success need not be a conversation.
* `ReceiveBuffer_proofs`: `NothingIsLost` (`Conservation`), `PositionsAreValid`,
  `LongestParseIsKept`, for any arrivals whatsoever. `Heard(b, party, n)` joins
  what a party has in the first `n` fragments of a buffer, `Logged` what it has
  in a log. Lemmas say how both grow (`HeardSteps`, `HeardAppend`,
  `LoggedSteps`) and what `clear_by_party` makes of it
  (`ClearByPartyHeard`: the fragments cleared, followed by those left, are those
  that were there; those of other parties are as before). They rest on
  `FlattenSteps`, which unfolds the community modules' `FlattenSeq`, a function
  defined by recursion: that such a function exists, and is unique, is shown by
  taking the least counterexample (`LeastNat`, `Induction`), since the library's
  induction principles have operators for parameters. The invariant `BufferInv`
  adds to `IInv` that what the parser has read is what its sender has in the buffer up to the
  position it has reached (in `PositionsStayValid`), and that the parser of a
  nonterminal is open as long as all beginnings of that can be continued
  (`ParsersTracked`): without the last, a parser dropped too early could not be
  told from one that found nothing.
* `CompliantPeers_proofs`: `HistoryHappened`, `PeersNeverFail`, `NothingIsLeft`,
  for every protocol that meets the six assumptions of `CompliantPeers`, exact
  forecasts and tame mutations among them, any cutting of messages and any
  interleaving. With these two, what is transmitted is one forecast message
  (`TransmitsOne`), and what is forecast continues what took place
  (`ForecastContinues`). The invariant `PeersInv` adds to `BufferInv` and
  `HistoryIsWhatHappened`:
  * `Pending`: buffer and outbox together are the messages said since the
    history, in their order, each cut into fragments of its own (`Queued`, by the
    positions at which the messages end);
  * `WireLegal`: what is said conforms, and what is under way of it is accepted
    and not Fandango's;
  * `TurnHolds`: where the main thread is, given whose turn it is; with it, a
    poll finds nobody else, and Fandango sends only when nothing is under way,
    although it polled earlier;
  * `ParsesExpected`, `WholeMessageRead`: the parser reads the party whose
    message is due, and does not stop within that message.

  The core is `ParsesEndWithin`: no complete parse goes beyond the end of the
  message that is due, by `Separable`; and the message itself is parsed
  (`WholeIsParsed`), by `LongestParseKept`. So the best parse is the message, and
  clearing it leaves the others (`ClearPrefix`, `DeliverMountsDue`). A timeout
  can not come: if nothing is under way, somebody is due to speak
  (`SomeoneSpeaks`, by `Answerable`); and when the wait for another fragment
  ends, the whole message has been read.
* `SocketParty_proofs`: `PartyTypeCorrect`, `ListenersAreJoined`, `ConnectsOnce`,
  `RunningIsListening`, `NoAssertionFails`. The invariant relates the holder of
  the lock to the program counters, the existence of connection and socket to
  the listener, and what both threads may assume at each point: a listener that
  gives up without a connection does so only when the party is not running, and
  a party cannot stop running while `on_send` waits without a connection.
* `FuzzApi_proofs`: `TypeCorrectness`, `NoSolutionTwice`, `NoSolutionLost`,
  `MutationPoolLooksUp`, `FuzzReturnsSolutions`, `FuzzRaisesIffMissing`, for any
  finite set of individuals, any fitness, population size, elitism and number of
  calls. The invariant has four parts beside these properties. `InPhase`: what
  is suspended is the first individual still to evaluate, and a list that a
  phase reads from is not empty. `YieldedIsSolved`: the solution set is what was
  yielded, so that "not yet solved" means "not yet yielded". `EvaluatedIsCached`:
  at each phase, what the next lookup needs is in the cache or among what the
  phase still evaluates; it holds only while no flush can have hit a generator
  that was dropped (`Unflushed`), which is the exact limit of `ElitesAreCached`
  that the run `evolution_resume` shows. `SolutionsCollected`: the list of
  `fuzz()` with what is suspended is what was yielded, less than desired while
  the generator works. So what is missing from the list is what the generator did
  not yield (`MissingIsInsufficient`), on which both branches that may raise rest;
  and no other exception leaves the loop (`NeverRaises`, by `EvaluatedIsCached`).

* `Scoring_proofs`: `EvaluationIsRight`, `SuccessIsMeaning` (`ChecksMeaning`),
  `NumberIsVerdict` (`PerfectMeansSatisfied`), `FailuresAreBlamed`
  (`FailureIsBlamed`), `InversesOppose` (`InvertOpposes`), for constraints nested
  at will, any trees, any values and any order of evaluations.
  * `Right(os, i, tree, scope, fit)` says that a fitness is one that object `i`
    may have there: its numbers agree with its verdict (`WellCounted`), the
    verdict is the meaning if `apart` (`Clean`), and it counts something and
    blames somebody if the object can be evaluated (`Evaluates`). The invariant
    `EvaluationInv` says that the last fitnesses are right, and that the caches
    are `Sound`: each entry is right *in every scope that has the values of its
    key*. For this a meaning has to depend on the values of free names only
    (`AllStable`): two items with the same value share an entry.
  * `FitnessRight`: from sound caches, every object evaluates to a right fitness,
    sound caches and a scope that `Extends` the one given, by bindings of its own
    names at most. An induction over the objects, one lemma for each class
    (`ConjunctionRight` to `ForallRight`, `AtomicRight`), and in it one over the
    calls (`RunsWell`), in which the scopes that may be there are closed under
    what a call may leave. Lazy or not, the fitnesses at hand decide
    (`AllRight`, `AnyRight`). The numbers are sums, unfolded by `SumFacts`: a sum
    of solved is the sum of totals only if each is.
  * Inverses are objects after the others (`InversesOrdered`); what is right for
    the objects is right there (`SoundAmongInverses`), so their caches are sound
    for the inverses too; an inverse takes and binds the same names
    (`InverseScoping`) and means the opposite (`AllOpposed`, by De Morgan, and for
    an expression with one combination by the opposite operator).

  `WellFoundedInduction`'s principles take operators, so each recursive function
  is unfolded by the argument of `FlattenSteps` above (`FitnessUnfolds`,
  `HoldsUnfolds`, `ScopingUnfolds`, `SumUnfolds`, `RunUnfolds`).

Assumptions are those named in the modules (`PartyAssumption`,
`GrammarAssumption`, `LanguageAssumption`, `ViableAssumption`,
`ForecastAssumption`, `EvolvedAssumption`, `SessionAssumption`, `ExactForecasts`,
`TameEvolution`, `TurnBased`, `Spoken`, `Separable`, `Answerable`,
`SocketAssumption`, `EvolutionAssumption`, `SettingsAssumption`,
`ConstraintsAssumption`, `ScoringAssumption`); TLC evaluates each of them in the
runs of the modules that extend its own.

Only model-checked:

* liveness (`SessionEnds`, `Completes`, `CallsReturn`, `GeneratorProgresses`,
  `LimitedCallEnds`), which TLAPS does not do under fairness;
* `Exchange` and `TreeEvolution`, whose parsers and trees are recursive
  operators, beyond this prover;
* `SolutionsSatisfy`. It holds for the few constraints of the run and is no
  theorem: it is a matter of 53 bits, and with enough constraints, or combinations
  for one of them, rounding hides one that is nearly satisfied. What is proved is
  that the number of each single constraint is one only if it succeeds.

## Not modelled, and why

* Bytes, text and layout of messages; the formatting of errors; logging.
* `_initial_solutions` of the strategy, a list yielded before anything else.
* In a session, the evaluator's solution set has what was chosen, not the other
  solutions of a refill; those may be chosen later in the model, not in the code.
  Conversely, the model chooses an addition once, where another tree of the same
  content could be yielded again. Where among what is said a lost message stood
  makes no difference to `Fitness`.
* `Language` is that of one value of `MAX_REPETITIONS`, which the adaptive tuner
  may raise.
* Values of soft constraints, distances, diversity bonus, tournament, adaptive
  rates: they bias random choices the models leave open.
* What suggestions replace: `Fixed` in `Evolution` may be any individual.
* Generators, sources and converters of the grammar; bits, regular expressions
  and computed repetitions in the parser: a character of the model is a byte or
  a run of bytes.
* A party without a definition in the specification (`KeyError` in
  `io_instance.parties`): the front end rejects it.
* Process manager and adaptive tuner: their state is inside `Popen`, or only
  biases random choices.
* Front end, CLI, language server, converters, havoc, profiler: no lasting
  state, pure I/O, or generated code. The generated ANTLR parsers and lexers
  alone are about 82,000 of the 105,000 lines of the implementation.

## Plan

Done: all modules above, with proofs of all safety properties of the session, the
socket party, the generator and its consumers, and of the constraints.

What would come next: the heap of `TreeEvolution` as constraints are now, with
nodes after their children, so that `Grow`, `Content` and `ReplacedAt` are
tables over positions and not recursive operators; then that trees stay disjoint
and caches fresh, for trees of any size. More of the code that would be worth a
module: `populate_sources` and generators in trees, and the suggestions of
repetition bounds.
