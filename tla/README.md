# xnode in TLA+

xnode is a C++ library of thread-safe trees: nodes are maps or arrays of values,
a value may be another node, and a node knows its parent and its name there.
These modules model the part of it that keeps such a tree consistent while
several threads change it, check it with TLC on small instances, and prove the
central invariants with TLAPS for every instance.

Paths below are relative to the repository; `xnode_impl.cpp` is
`src/xnode/impl/xnode_impl.cpp`, and so on. Assertions are taken as compiled
out: what the code does when one would fail is part of the model.

## 1. The system

| Part | State | Operations | What is hard about it |
|---|---|---|---|
| Time stamps (`xvalue_rt.h`) | one process-wide atomic | `Timestamp` | lock-free loop, clock that steps back |
| Map container (`xcontainer_map*.cpp`) | `values_map_`, `erased_values_` | Set, Emplace, Erase, Clear, ForEach, access by index | an erased key stays as a tombstone; the size is a difference of two counts |
| Array container (`xcontainer_array.*`) | `values_deq_` | the same | special indexes, padding, indexes that move |
| Validators and key matching | none | FindDuplicates, RemoveDuplicates, ContainerKey | a node must not be in an array twice |
| Node tree (`xnode_impl.cpp`) | per node: container, parent, name | Set, Insert, Erase, CompareExchange, KeyChange, ParentSet, NameSet, Clear, bulk calls, ForEach | one call takes up to five critical sections on three nodes and holds nothing in between |
| Change callbacks (`xnode_callbacks.cpp`) | map from id to callback | OnChangeAdd, Remove, Reset, DoCallbacks | refusal with roll-back, callbacks that expire |
| Get or create (`insert_get.cpp`, `path.cpp`) | none of its own | NodeGetByKey, path walks | retry loop over CompareExchange |
| Clone, compare, patch, copy (`clone.cpp`, `compare.cpp`, `create.cpp`) | none of their own | Clone, Compare, PatchApply, CopyTo | recursion over trees, two nodes locked at once |
| Improper parents (`improper.cpp`) | none | ParentsCheck, ParentsFix | a repair that must find what the tree broke |
| Values (`xvalue.*`) | immutable | comparison, conversion | narrowing, rounding and clamping; maps and sets of values rest on the order |
| Keys and paths (`xkey.*`, `xpath.cpp`) | a queue of keys | adding, taking off, splitting, joining | delimiters that may stand inside keys |
| JSON (`json/`) | a stack of open nodes and a current key | the handler's callbacks, the writer | order of events, an insertion that is refused |
| XML (`xml/`) | stacks of open nodes and arrays, an order of items per node | the handler's callbacks, the writer | siblings that become an array afterwards |

How they meet. An `XNode` owns a container, a validator and its callbacks. Every
public call takes `container_rw_`, changes the container, which asks
`XNodeCallbacks::DoCallbacks` for permission from inside, releases the lock, and
then tells the children that came or went: their parent and name are under
`parent_n_name_rw_` of the *child*. The child's former parent is told last, by
`PrivateErase`, under its own `container_rw_`. No lock is held from one of these
sections to the next, and this is where the tree's consistency is decided.

What makes each part correct: stamps are unique and increase; a container is a
dictionary (or sequence) whose size is right and which changes only with
permission; a node is held exactly where its parent pointer and name say; there
are no cycles of parents; a refused change is undone for exactly those who had
accepted it; every call returns.

## 2. The modules

| Module | Models | Composed with |
|---|---|---|
| `StampSource` | the promise: each stamp is larger than all before; a count makes a repeated stamp a visible step | |
| `UniqueClock` | `UniqueClock::Timestamp`, `Monotonic::Next`: an action per atomic operation | refines `StampSource` |
| `KeyValueMap` | the promise: a dictionary and its size | |
| `MapWithErase` | `XContainerMapWithErase` on `XContainerMap`; ForEach one step per item | refines `KeyValueMap` |
| `NodeTree` | `XNode` over map nodes, several threads; an action per critical section | |
| `ArrayNode` | `XContainerArray`, its validator, and `XNode` over array nodes; an action per call | |
| `ChangeCallbacks` | `XNodeCallbacks`; an action per call of a callback and per critical section | |
| `GetOrCreate` | `NodeGetByKey`, `NodeGet` and the calls by path, several threads; an action per critical section | |
| `Values` | `XValue`: equality, order, conversions; operators only | |
| `StoredValue` | the value under one key, set, erased and counted up (`Increment`) | extends `Values` |
| `Documents` | `Compare`, `Clone` on whole documents; operators only | extends `Values` |
| `Merging` | `PatchApply` and `CopyTo` by several threads, with the locks they hold | extends `Documents` |
| `JsonText` | `ToJson` and the handler of `FromJson`, event by event | extends `Documents` |
| `Paths` | `XPath`: splitting, joining, adding and taking off keys | |
| `XmlText` | the handler of `FromXml`, event by event | |
| `ImproperParents` | `ParentsCheck`: a step per item of a node, the recursion a stack of calls | |
| `*_proofs` | theorems about the module of that name; `Operators_proofs` about `StoredValue`, `Paths` and `ImproperParents` | |
| `SequenceFacts` | lemmas the proofs share: induction up to a bound, the course of a loop or of a recursive function, what the library's operators on sequences do | |
| `MC*` | instances for TLC; each `MCx_Case.cfg` is a case of `MCx` | `MCDocuments` composes `Merging` and `JsonText`; `MCOperators` holds `StoredValue`, `Paths`, `XmlText` and `ImproperParents` side by side |

### UniqueClock
`prev` is the static atomic; `val` and `nextMin` are the two locals of
`Monotonic::Next`. `Timestamp` reads the clock, `FetchAdd` is line 30 to 34 of
`xvalue_rt.h`, the two `Exchange` actions are the outcomes of the
compare-exchange.

### MapWithErase
`values` is `values_map_` with `NoEntry` for what is not in it, `erased` is the
counter. `DetectErase` is what `DetectErase_` makes of the counter; `Store` is
`XContainerMap::Set` behind it. Three kinds of empty value matter and are kept
apart: the tombstone, a null or empty string with a stamp, and the empty value
without one. `visit` is a ForEach under way. `op`, `asked` and `result` record
the last operation for the properties.

### NodeTree
`entries[n][k]` is the container of map node `n`, `parent` and `name` are
`parent_wp_` and `name_p_`. `run[t]` is where thread `t` is in its call and the
locals it carries: `Begin` starts a call, and each further action is one
critical section. The walk over ancestors (`IsValidChild_`, `IsValidParent_`)
reads one parent per step, since each is read under its own lock. `Detach`
handles the removed nodes in any order; the code uses the container's order.
A container is what `MapWithErase` shows of it, with tombstones, since `Insert`
and `KeyChange` meet them. The answer of a callback is nondeterministic on the
nodes in `Watched`.

### ArrayNode
`items[a]` is `values_deq_`; `Find` and `Grown` are the two `DeqFind_`, and
`SetAt`, `EmplaceAt`, `EraseAt` the container's operations. The calls are
records (`Calls`), and an action models the whole call. A loop is `Through`: a
function of its rounds, with one operator for what a round does (`SetOne`,
`EraseOne`, `TreatOne`), so that it can be reasoned about. What a call does to parents is written as functions on a
state of items and parents (`Leave` for ParentDetach, `Adopt` for `SetAsChild_`),
because one call does it to several nodes in turn. `ByAddress` is the order of
the `std::map<INode::SPtr, ...>` the bulk calls collect nodes in. A bulk call
names no node twice (`NoNodeTwice`), and a ForEach callback assigns no nodes: for that the code
itself says "Do not allow" (`xnode_impl.cpp:285`).

### ChangeCallbacks
`callbacks_map` with `NoCallback` for no entry; `step`, `at`, `failed_uid` and
`expired` are where `DoCallbacks` is and its locals. `asked`, `undone` and
`gone` are histories. Changes of one node are serialised by its container lock,
so one change at a time is enough; registration goes on beside it. `map_rw_` is
`Locked`: shared while a change asks or rolls back, exclusive within each step
that changes the map. That a callback must not register callbacks on its own
node (its thread holds the lock shared) is a rule for callers and not modelled.

### GetOrCreate
`entry` and `list` are the containers of map and array nodes, `parent` and `name`
those of `NodeTree`; `run[t].pc` names the section a thread comes to next. A
thread looks at a key, makes a node of its own when there is none, and tries
`CompareExchange` with what it saw; a loser looks again. `NodeGet` repeats this
along a path. `handed` records every node that was returned, `succeeded` every
call that returned success. Whether a refused exchange ends in a repetition
depends on whether a value was there (`insert_get.cpp:91`), and the module has
both. Values that are set are scalars: what a node given by a caller does to
parents is `NodeTree`'s subject.

### Values and StoredValue
A value is its type and an integer. Integers are the two widths of the code with
their largest values as constants, so that wrapping and clamping happen at a
boundary the instance can reach. A double is a number of units, `Parts` of which make
one, and a member of `DoubleNumbers`, the numbers its mantissa can hold: a conversion
of an integer or a text, and a sum, is rounded to one of them (`Closest`; which of two
equally near ones is left open). `WrittenNumbers` are those of at most six decimals,
which is all that `std::to_string` writes. `LLRoundBeyond` is what `llround` gives where
int64 cannot hold the number: it is unspecified, and so the constant is any function. A text
is known by the number it begins with, which is all that `atof`, `strtoll` and `Bool`
look at; `strtoll` stops at the decimal point (`TextWhole`). An object is its address.
`AsInt64`, `AsUint32` and so on are the conversions with their defaults. NaN,
infinities, numbers in octal, hexadecimal or with an exponent, and blanks before a
number are left out (section 5).
`StoredValue` puts such a value under a key and lets callers set, erase and count
it up, each with the answer of the callback open; `added` records what the last
`Increment` added and returned.

### Documents, Merging and JsonText
A heap is a sequence of nodes, so that an operator can make new ones (`Clone`) and
return the heap they are in. An erased key of a map still has an item, `Empty`.
`Listed` is what `BulkGetAll` visits, `ListedSet` the same as a set: a map passes
over nulls and empty strings too. `Merging` takes a merge apart into its critical
sections: `Enter` takes the source's lock shared (`reading`), `Look` and `Put`
visit one key under the target's lock, `MakeClone` and `PlaceClone` clone after
the walk, `Nest` goes a level down, `Leave` releases. A clone is one step
here, although the code reads its original node by node: that another thread
changes the original meanwhile is left out. A JSON text is the sequence
of events the third-party lexer reports; the writer produces one and the handler
consumes one. `Inserts` is what INode::Insert takes: an array takes every key, and puts what is
no index at its end; a map refuses the blank key and one it has an entry for. A refused value stops the
parser; a refused node does not, and is filled and lost (`PutNode`).

### Paths
A text is a sequence of characters, since the splitting is about characters; only
the delimiter, the brackets, digits and letters are told apart. The loops of the code
are functions: `Joined` of the number of keys written, `Split` of how much of the
text is left.

### XmlText
The state is the handler's (`reader`), with a heap of its own; `open`, `closed`
and `count` say what the text has held so far. A value is its number in the text,
so that order and loss can be seen; the pieces the parser cuts a text into are
values of their own. Keys are numbers in the order of their strings.

### ImproperParents
A document is what each node holds, in the order of its keys, and each node's
parent; nobody changes it during the walk. `calls` is the stack of calls, each with the
node it was given (a pointer, perhaps const) and the next item to see; `improper` is
`_improper_map`, which goes from call to call. The values there compare by the node
they point to. `Begin` is the caller's call, with an empty map; `PassOver` and `WalkInto` are
the two ways a round of the loop goes, `Return` the end of the loop.

## 3. Careful callers

XNode keeps parents and entries in agreement only for calls that stay clear of
certain situations. `NodeTree` and `ArrayNode` have a constant `Careful`; when it
is TRUE, calls satisfy `IsCareful`, whose every clause stands for one thing the
code gets wrong:

In `NodeTree`:
- Set or Insert of a child that is already held by the same node under another
  key leaves both entries (`xnode_impl.cpp:782`).
- A child that moves under a name which its old parent has for another value
  takes that value out there (805-806): the old parent looks it up by the name
  the child has *now*.
- CompareExchange does not detach a node it replaces (461), does not look at the
  ancestors of the one it attaches, and attaches it even if the callback refused
  (480-487).
- ParentSet returns true although the container refused the child, and does not
  detach the node it replaces there (103).
- ParentSet with no parent and a new name makes the old parent look for the new name (791-792, 806).
- A rename to the empty name loses the value (178-179).

In `ArrayNode`:
- Set at `kIdxLast` of a node removes the node itself as its own duplicate
  (`xparent_validator_impl.cpp:35`).
- CompareExchange of a node that is in the array already leaves it in two places;
  one at an index beyond reach, or refused, is adopted but not held (480-487);
  replacing a node leaves its parent.
- KeyChange to an index beyond reach, or to the end, loses the value (178).
- BulkSet removes duplicates by indexes that earlier removals have moved (576),
  and detaches a replaced node after it got its new place (580-584). It takes
  `kIdxLast` for a key in line 575 as well: a node set at 0 and a scalar at
  `kIdxLast` of an empty array overwrite each other, and the node is adopted by an
  array that no longer holds it.
- ForEach detaches a node although the change was refused (279-293).

In `GetOrCreate` the assumption is about agreement: callers neither overwrite nor
erase the nodes under the keys in `Kept`, and ask for one type there (`Agrees`).
Under other keys they do as they like. In `XmlText` no element contains two
children of its own name (`NotAgainInItself`; section 5).

`ChangeCallbacks` has `Careful` too: ids are those `OnChangeAdd` gave out, and no
callback is replaced while expired ones are still to be dropped (which a caller
cannot know; section 5).

## 4. The runs

| Run | Instance | Shows |
|---|---|---|
| `stamps` | 3 threads, 4 calls, a clock that may repeat and step back | stamps increase, calls return |
| `container` | keys 0, 1, 2, one value and the three empty ones | exact count, access by index, a dictionary, permission for each change |
| `careful_caller` | 3 map nodes, 2 keys, 1 scalar, 1 thread, one node watched | parents, names and entries agree after every call |
| `attaching` | 4 map nodes, 1 key, careful or not, a callback that may refuse; one thread moves three of the nodes below each other, another climbs through them to attach the fourth | no cycle of parents; a call returns unless the tree is turned over ahead of it for ever |
| `two_threads` | 4 map nodes, 3 keys, 2 threads | parents and entries agree whenever both threads are idle, a node with a parent always has a name, ParentSet that succeeds has attached |
| `arrays` | 2 arrays up to length 3, 2 nodes, 1 scalar, padding by at most 2 | each node is held once, by its parent; a key change loses no value |
| `callbacks` | 3 ids, 2 functions | exact roll-back, harmless expiry, a decision for every change |
| `get_or_create` | 2 threads, 2 calls each out of 5 and 7, 5 keys, a callback that may refuse under one | one node for all, no set value lost, an emplaced value is in the array once, only refusals delay for ever |
| `documents` | 3 documents of two levels, maps or arrays; 2 threads, 2 calls each out of 4 and 5 | a merge that nobody disturbs has its documented result and leaves its source alone; calls return unless two merges cross; what arises compares, clones and passes through JSON |
| `operators` | `int64` of 4 bits and `int32` of 3; doubles with a mantissa of 2 bits, in quarters up to 16, of which halves are written; 21 texts of numbers and 4 words; objects at 4 addresses; texts of 2 of 5 characters, paths of 3 keys; XML of 4 elements of 2 names and one attribute, 3 deep, with 3 values; every document of 3 nodes with at most 3 pointers and any parents | an order of what is not far apart, conversions that clamp and cut or round, increments that are exact where the type can be, paths read back, no value of an XML text lost, all improper parents found |
| `cross_adoption` | 2 map nodes, 2 threads | fails: a cycle (section 5) |
| `copy_overrides` | one thread, one copy of depth 1 | fails: overriding lost below (section 5) |

Why the bounds are enough. Three keys give a tombstone before, between and after
visible entries, which is what counts and indexes depend on. Three nodes give a
child, its old and its new parent, and a chain of ancestors; nothing in the code
looks at more than three nodes in one call. Two threads meet in every pair of
critical sections; in `two_threads` each has a child and keys of its own and both
change the same two parents, because two threads that move the *same* child are
not consistent (section 5), and one of them makes only ParentSet and Erase to keep
the state space within minutes. Arrays of three places with padding by two
reach every case of `DeqFind_`: inside, at the end, within reach, beyond reach
(`max_size_increase` is 1000 in the code; the model's `MaxIncrease` is 2).
In `get_or_create` the two threads share a map under one key and an array under
another and get in each other's way under a third, so that a race for the same
missing node happens at every step of the path. In `documents` the first two
documents are merged both ways, into each other and from a third, while values
come and go; the first heap has a const reference from one into the other. A
width of 4 bits has every case of the conversions: negative, beyond the signed
maximum, beyond the unsigned one of the smaller width. A mantissa of two bits does not
have the integers 5, 7, 9 and more, as that of the code does not have 2^53 + 1;
quarters have a decimal that is cut and not rounded (`1.75` is read as 1), a sum that
falls between two doubles, and one that is too small to be written. The doubles 8, 12 and
16 are beyond `int64`. The addresses 1, 2, 4 and 9 are within the reach of `int32`
and beyond it. Three XML values are what
text, element, text in one element takes; four elements make an array inside a
mixed element, or an array with a foreign item. Three nodes with three pointers (or one
const and one other) have a node held twice, by its parent and by another, a chain below it,
and nodes that hold each other or themselves; every parent function without a cycle occurs.
`MaxLen`, `MaxCalls`, `MaxId`, `MaxDepth`, `MaxKeys`, `MaxText`, `MaxValues`,
`MaxElements` and `MaxOpen` are the bounds on growth. Symmetry is used in
`careful_caller` and, of the two nodes that are not the root, in `operators`; both check safety.

Fairness. Weak fairness of the steps a thread takes *within* a call (or a change,
in `ChangeCallbacks`): a critical section is finite and the operating system goes
on scheduling the thread. No fairness is assumed for beginning a call, nor that
a callback answers in any particular way. Lock acquisition is not starved
because each action is one whole section.

`EveryCallReturns` of `attaching` has an exception: the ancestor walk reads one parent at
a time, and if another thread goes on for ever taking the node it stands at from
the top and putting it below, it goes on for ever too. Without the exception TLC finds
this behaviour, with it there is no other. The thread that rearranges A, B and C is
alone in this, since two that do so may close a cycle (`cross_adoption`), after which the
walk of a third may never end; with a check that misses a cycle (the mutants of this run)
it does not end either.
`EveryCallReturns` of `documents` has an exception: two merges that go opposite ways
hold each other's target shared and wait for it exclusively (`Crossed`). That
wait is the code's, and the property says that nothing else holds a call up.
`OnlyRefusalsDelay` says of `get_or_create` that a call which never returns is
refused over and over: losing races cannot go on for ever, since each thread
makes two calls.

CHECK_DEADLOCK is off in `stamps`, `get_or_create` and the runs of `Merging`, where
the bound on calls ends every behaviour (and where two merges may wait for each
other), and in `operators`, where an XML text ends with its root.

## 5. Where the code and its documentation part

Checked as runs that must fail:

- `cross_adoption`: two threads make two nodes each other's parent. The ancestor
  walk and the linking are separate critical sections (`xnode_impl.cpp:776`).
- `copy_overrides`: CopyTo passes the remaining depth in the position of the
  override flag (`compare.cpp:165`): a copy of depth 1 that is to override does not
  do so in nested nodes, and a limited depth becomes unlimited one level down.

Seen while modelling, and in the modules as the code has it, without a run:

- Moving a child under a new name erases a sibling of that name from the parent
  it leaves (`xnode_impl.cpp:805-806`); `IsCareful` of `NodeTree` excludes it.
- A key that was erased cannot be inserted again (`xcontainer_map.cpp:147`).
- BulkSet that makes two children of an array change places leaves the array
  empty and itself the parent of both (`xnode_impl.cpp:580-584`).
- A callback that replaced an expired one in time is dropped in its stead
  (`xnode_callbacks.cpp:69-75`).
- A removal in ForEach asks the change callback twice (`xcontainer_map_w_erase.cpp:63`,
  `xcontainer_map.cpp:60`), so an allowed removal may not happen.
- BulkErase, Clear and the parent's clean-up change values without asking (`xnode_impl.cpp:227, 730, 806`).
- An empty value without a stamp cannot be erased (`xcontainer_map_w_erase.cpp:111`).
- An ancestor walk never ends on a cycle it does not pass through from its start (896-899).
- An array's Set pads before it asks, and stays padded when refused
  (`xcontainer_array.cpp:86-94`); its ForEach hands the change callback the index plus one
  (53, 58), and indexes from 0 whatever the starting key (24-26, 50-51).
- BulkErase of several indexes of an array looks each up after the earlier ones
  have gone, "for keep index" notwithstanding (`xnode_impl.cpp:722`).
- BulkSet that names one node twice steps its iterator past an element whose
  value it then sets, and past the end after the last (550-557).
- Two threads that move the same child may leave it in two containers or none.
- Return values: an `std::nullopt` answer to `ChangesNoDiscard` does remove the
  callback, although it "doesn't matter" (`xnode_interfaces.h:83`, `xnode_callbacks.cpp:53`).
- NodeGetByKey returns success for an absent key although a callback refused it
  and nothing is stored; where there is a value it tries again for ever
  (`insert_get.cpp:91`).
- At and Erase by path create the nodes that are missing on the way, although the
  documentation says they return null (`xnode_functions.h:201-212`).
- EmplaceToArray with a path of several keys creates the array under the root
  (`path.cpp:123`; documented otherwise, `xnode_functions.h:248-250`). Two threads
  that emplace at the same time may both put the value that was there into the
  array. On an existing map it moves the map into the new array, whereupon the
  map's old parent erases by name the array just created.
- Erase detaches the erased node later, by name: another thread's new node of
  that name may go with it.
- Compare of integers keeps the low 32 bits of the difference and reads unsigned
  numbers beyond the signed maximum as that maximum; addresses of objects are
  compared by a difference cut to 32 bits (`xvalue.cpp:54`). For values that far apart it is no
  order, although it is documented as one (`xvalue.h:207`) and the maps and sets of values, among them
  the map of improper parents and its keys, rest on it; a 64-bit process need not give
  objects near addresses. `ComparesInOrder` excepts those values (`Far`), and `ImproperParents`
  takes it that its keys are near. NaN is not equal to itself, and compares as greater both ways.
- Conversions: `llround` of a double beyond int64 has no defined result (`xvalue.cpp:188, 216`);
  `String` keeps six decimals (278), so that 1e-7 is written as 0.000000 and read
  back as 0; an integer above 2^53 that is read as a double is rounded (255-258), and
  so is what Increment by a double stores; `strtoll` with base 0 reads "010" as 8 and "1e3" as 1,
  where `atof` reads 10 and 1000; " -5" is not seen to be negative and wraps in
  `Uint64` (221-229), and ".5" has no integer.
- Increment of an absent key returns an empty value, although the documentation
  says the new one (`xnode_interfaces.h:339`); of an erased key it fails and does
  the same; refused, it returns the sum that is not stored. A negative value plus
  an unsigned step starts from zero. A sum equal to the old value keeps the old type.
- An array with an empty item is not equal to itself (`compare.cpp`), and Compare's
  callback form skips the left item after one only the right has.
- Clone and ToJson drop a map's nulls and empty strings; a copy that does not
  override is kept out by a null that no reader lists. A node in the source that
  may not become the target's child ends the merge's change there without notice.
- const nodes are shared by Clone, so that a clone can be shallow.
- FromJson of a text with a key twice, or blank: an assertion fails in debug builds
  (`xnode_json.cpp:72`); without assertions a second value ends the reading, and a second map or array
  is read and dropped.
- ToJson writes unsigned numbers as signed (`xnode_json.cpp`); FromJson's assertion
  of the member count fails for a map with a null (`EndObject`).
- ParentsCheck skips a node only when it is in the map of improper parents already. On nodes
  that hold each other and are each other's parents (`cross_adoption` makes two) it calls
  itself without end, although "if a cycle is detected, the function skips that node"
  (`xnode_functions.h:289-290`).
- ParentsFix takes the parent for the child (`improper.cpp:41`), asks each parent to
  become its own child, is refused, and repairs nothing.
- FromXml takes the end of an element with two children of its own name for the
  end of the array of those (`sax_handler.cpp:164`), so that the siblings after it
  go into it. A name given for the root is given to the nested elements, while
  the root keeps its own (`sax_handler.cpp:120-122`): the next end of an element
  then ends an array that is not there.
- In an array, FromXml makes a value of each piece of a text the parser cuts;
  elsewhere it joins them. An item with one value gives way to it, so that
  `<a><b>1</b></a>` and `<b>1</b>` among items named `a` read the same, and ToXml
  writes a text between repeated elements as such an element.

## 6. What is proved

All proofs are for every value of the constants under the named assumptions of
the modules (values, nodes and markers are distinct; key sets are finite where
sizes are counted).

`UniqueClock_proofs`: `TypeCorrect`; `ClaimsExclusive`; `StampsIncrease`, that the
loop implements `StampSource`. `ClaimsAreExclusive` is inductive together with
the types. It is needed because an exchange may succeed without changing `prev`:
the thread's own `fetch_add` must have made the value it returns nobody else's.

`MapWithErase_proofs`: `TypeCorrect`; `CountIsExact`; `ImplementsDictionary`;
`IndexesAlwaysReach`; `ForEachReturnsTruth`; `ApprovedChanges`. The
count is a natural number only because it is exact, so the inductive invariant
(`Counted`) has both; the lemma about `DetectErase` carries each write. The size
of the dictionary is the number of entries less the count, from the cardinality
theorems. Access by index counts the visible keys below a key (`Place`): there is
one key for each count, and it is the one the container's walk stops at. For
ForEach, `WalkSound` says that a walk which has found nothing yet has
passed tombstones only. It rests on the assumption that the marker for "no key" is
no key and that a walk may start at any key or at none.

`NodeTree_proofs`: `TypeCorrect` and `ChildrenAreNamed`, for any number of nodes
and threads, provided no caller renames an attached child to nothing
(`NamesGiven`). `NamedChild` is not inductive: that a thread in the middle of a
call carries a child, a parent and a name where it will use them (`Carries`), and
that its call is one of the calls (`InCall`), are what makes it so; `NamedInv` is
the conjunction.

For one thread (`OneThread`; with two it is false, section 5) any calls keep the
parents without a cycle: `AlwaysAcyclic`. `AcyclicInv` adds what a climb has
established. Acyclicity is stated over sets closed under parents, so a
climb in progress is a set of nodes that have been passed and do not contain the
child (`Climbing`), and a finished one a set closed under parents that contains
the new parent and not the child (`Away`); no induction along the path is needed.

For one thread whose calls are careful, `EntriesHoldChildren`,
`ChildrenAreHeld`, `OnlyTheChildIsErased` and `TrueMeansAttached`, for any nodes, names, values
and answers of callbacks. Between calls every node is `Placed`: the entries that hold
it are exactly the one under its name in its parent. Within a call this is false
at almost every point, and `PlacedInv` says for each point which nodes are out of place
and how (`AtOrphan`, `AtLink`, `AtEraseOld`, `AtDetach`, ...): the child that has
been entered and not adopted, the one adopted that its old parent still holds,
those taken out that do not know it yet. `Careful` is used where the call
takes its arguments (`Cautious`) and nowhere else.

`GetOrCreate_proofs`: `TypeCorrect`; `HandedStaysAlways`; `KeptIsAdoptedAlways`;
`SetsAreKeptAlways`; `EmplacedIsKeptAlways`, for any number of threads and any calls
that agree on the kept keys. `HandedStays` is
not inductive. It needs that the nodes a kept key stands for and those that
other keys stand for are `Apart` (otherwise erasing by name could reach them), that two
threads never carry the same fresh node (`FreshIsOwn`), that nodes under
a kept key have the agreed type (`Settled`, so that nobody replaces one), and what a
thread knows while it walks (`Knows`: the value it saw under a kept key, if a node, is
still there; a fresh node is nowhere yet).

`SetsAreKept` needs a second invariant (`Sure`) on top of that. Each Set or Insert under a key of
its own has a `Route`: nodes from the root to where the call is, each of them returned
by NodeGetByKey for the next key, so that by `HandedStays` they are still the way there.
No other thread is ever at such a key (`SoleAtKey`), and no node is named by it
(`Unnamed`), which is why the clean-up of a child that changes its parent, which
erases by name, does not reach the value. A value at a path is a recursive function
over the path; `ValueAtIs` compares it with the nodes of the route.

`EmplacedIsKept` counts, and needs a third invariant (`Tally`): the array under a kept key of the
root is a list of values in which each value has as many places as there are calls
that have emplaced it and returned, and no call has returned before there is an array
(`Counted`). The list changes by `Append` alone, because the nodes other threads fill,
move or take children from are none that a kept key stands for (`Filed`, `Writes`). The
value that was there before the array is in the list or `Brings` says who has it: the
thread whose node was put there, on its way from CompareExchange to `KeepOld`. That holds only
where nobody else asks for the array (`OnlyEmplaced`, a condition of the property): NodeGet
with conversion puts an array in the place of a value and drops the value.

`ArrayNode_proofs`: `TypeCorrect`; `AlwaysHeldOnceByParent` and
`OthersAlwaysOnlyLoseNodes`, for careful callers;
`KeyChangeAlwaysKeepsValues`, for all. Arrays, nodes, indexes, lengths of bulk
calls, `MaxIncrease` and the answers of the callback are arbitrary. The
inductive invariant (`Agreed`) is that an array holds a node
if and only if it is the node's parent, and holds it once. While a call is under way the
array it was called on may disagree and the others may not (`Around`); each operation has a
lemma that says what it leaves of both. A loop is a course of states, one
per round (`Rounds`), and each of its facts is carried along the course by
`InductionUpTo`. BulkSet is the hard case: after its first loop a node
that was there before and was set again is in the array twice, and after the loop over
duplicates once (`SetWell`, `OneTwice`, `TidyAllDoes`). That the length of an array
stays within `MaxLen` is part of the invariant because `HeldOnceByParent` counts
places up to there. For the other arrays the same lemmas say that each of them is what it
was before the call without the nodes that left it (`Shed`; `WithoutOneMore` adds one node to
those that are gone), and the call ends with at most one array of which this is not so
(`OneMayGrow`). For the key change the occurrences of a value before and after are
matched one to one (`MovedKeeps`).

`SequenceFacts`: `InductionUpTo`, induction over a set of numbers instead of an
operator, from the least element of a set of naturals (`MinOfNaturals`); `CourseExists`, that a
recursive function exists and has its equation when each value rests on an earlier one, whichever
(`RoundsExist`: on the one before); what `RemoveAt`, `InsertAt`,
`ReplaceAt`, `RemoveFirst` and the ends of a sequence are, place by place.

`ChangeCallbacks_proofs`: `TypeCorrect`; `RollbackExact` and `NoDiscardApproved`,
whatever callers do; `ExpiryIsHarmless` for careful callers. While the lock is
held the histories are initial segments of the map (`Segments`), which makes the
second loop meet exactly whom the first one asked. For expiry: registered ids and
those still to be dropped are at most the last uid (`IdsGiven`,
`ExpiredAnswered`), so a new id is none of them. That `xbase::NextUid` increases is
assumed; it is outside the repository.

`Operators_proofs`, for values: `ConvertsNearest`, `AddsExactly` and `ComparesInOrderAlways`, for
integers of every width (`WidthsAssumption`: the smaller maximum is at least 1), any
callers and any refusals. What a double can hold, what is written of it and what
`llround` gives beyond int64 are arbitrary, as are the texts that are stored and the
addresses of objects (`NumbersAssumption`: numbers are integers of units, and 0 and 1
are doubles); so the theorems hold for 64 bits with a mantissa of 53 as for the
instance. The specification there is the slot's alone. The
inductive invariant (`SlotInv`) is that the stored value is one of the values and that
a key without an entry has none. From it each theorem is about the operators. That
there is a closest number at all is an argument about the least distance
(`ClosestExists`, by `MinOfNaturals`), and a number that is in the set is the closest to itself
(`ClosestToItself`): from this, sums of doubles are exact where a double holds
them, and a double that is written in full is read back. A conversion is `Near` its number
before and after a clamp, or the nearest of those its digits reach; a sum modulo the
width is exact where it fits; the order is shown type by type, with no assumption on
addresses, for values that are not `Far` from each other.

For paths: `WrittenPathsAreReadBack`, that a path which a text can hold (`Writable`) is split from
the text it is written as, for paths and keys of any length and any characters, and from it
`PathsAreReadBack` for the paths a program can build. A written path is described place by place
(`Laid`): each key lies between two positions, in brackets or plain and then, unless it is the
first, behind a delimiter (`Lies`). A text that begins with a key in brackets, or with a plain
key that is bounded (`Bounded`: by the end, a bracket, or a delimiter no colon precedes), gives
that key and leaves what is behind it (`SplitsBracketed`, `SplitsPlain`). A plain key takes the
next delimiter with it, so the text that is left begins before the next key's delimiter or
after it, and both must give the same keys; this is the induction from the last key
to the first. `Writable` is needed as it stands: TLC finds a path that is not read back when any
part of it is dropped.

For improper parents: `ParentsCheckAlwaysFinds`, for any nodes, whatever they hold (themselves
and each other included), whatever their parents, and from any root. It is about calls that return:
a cycle of parents that hold each other has one that does not (section 5). What is found is right
at every step; that nothing is left out is the hard part, because a node that was found already
is not walked into again. The inductive invariant (`CheckInv`) has a set of nodes
whose walk has ended, and with those of the calls in progress it holds every node that was found
(`Explored`): each child of a node walked through, and each child the calls in progress
have passed, is among them and, if that node is not its parent, found (`Settled`). A node
found is among them because the step that notes it also walks into it. When no call is left,
the set is closed under children, and so it has all that is below the root.
Being below is stated over sets closed under children, as acyclicity is over parents, so that no
path needs to be followed.

The type invariants of these modules are proved and not run. Each was checked by TLC
before it was proved, as were the inductive invariants.

Only model-checked, and why:

- `Documents`, `Merging`, `JsonText`, `XmlText`: recursive operators over
  documents and texts. The provers have no SMT backend for a module that
  declares one, and the library's induction theorems take an operator as a parameter.
- `HeldIsChild`, `ChildIsHeld`, `NoCollateralErase` and `SuccessAttaches` for
  two threads, which hold only because the run gives each thread a child and keys of
  its own (section 4).
- Liveness under fairness (`EveryCallReturns`, `PendingCallsReturn`,
  `EveryChangeIsDecided`, `OnlyRefusalsDelay`): out of TLAPS's reach, as is ENABLED.

## 7. What is not modelled

- BulkSet, BulkInsert and ForEach of map nodes: loops over the critical sections
  `NodeTree` has. Append: to the tree it is what Set is.
- ParentsFix, which has no effect (section 5); NodeInsert, NodeConstInsert and
  NodeTypeGet, which are one call of INode each.
- The forms of Compare, Clone and CopyTo that ask a callback of the caller.
- ToXml, which does not undo FromXml: what it should satisfy is not written down.
  The process-wide initialisation of Xerces (`xml_helpers.cpp`) is one flag under
  one mutex.
- Strings and wording beyond what is told apart; the parsers of JSON and XML,
  which are third-party; `xbase`, a submodule whose sources are not here.
- The order of lock acquisition inside `std::shared_mutex`; data races on a
  container read without its lock (`Size`, `Empty`, `IsKeyValid` by key,
  `xnode_impl.cpp:210, 235-236`); expiry of weak parent pointers, since the modelled
  program keeps its nodes.

## 8. Plan

1. *Tree, completed.* BulkSet, BulkInsert and ForEach on map nodes in `NodeTree`, as
   further critical sections.
2. *Callbacks of callers.* Clone, Compare and CopyTo with the caller's function as
   a choice per item.
3. *ToXml*, with the documents it writes so that FromXml reads them back.
4. *Proofs.* The tree's agreement for several threads that keep to nodes of their own; documents,
   with their recursion as functions of the depth.
