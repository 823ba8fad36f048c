# ding-libs: a verification project

ding-libs is a set of C libraries that SSSD uses: a dynamic hash table
(`dhash`), a reference counted array (`refarray`), a growing byte buffer
(`basicobjects`), typed heterogeneous collections (`collection`), an INI
configuration library built on these (`ini`), and path functions (`path_utils`).
All of it is sequential code without locks. What is hard about it is ownership
and lifetime, state cached between calls, boundary cases that only long
sequences of calls reach, operations that fail halfway, and, in the parser,
meaning that is attached to a line only lines later.

The TLA+ modules here model the state machines of these libraries; TLC checks
them on small instances, and TLAPS proves the main properties of seven of them
for every value of the constants.

## 1. Inventory

| Component | State | Operations | How it interacts |
|---|---|---|---|
| dhash (`dhash/dhash.c`) | directory of segments of buckets, split pointer `p`, `maxp`, counters; an iterator | create, enter, lookup, get_default, delete, destroy, keys/values/entries, iterate | allocator and delete callback of the caller |
| refarray (`refarray/ref_array.c`) | storage, `size`, `len`, `grow_by`, reference count, cleanup callback | create, getref, destroy, append, insert, get, replace, remove, reset, swap, copy | used by ini value objects and comments |
| simple buffer (`basicobjects/simplebuffer.c`) | bytes, `size`, `length` | add raw/string/newline, grow, write, free | used to serialise configurations, written out by `ini_config_save_to_file` |
| collection items (`collection/collection.c`) | linked list that starts with its header item, `header->last`, `header->count` | insert with dispositions and duplicate flags, extract, remove, delete, modify, search | basis of queues, stacks, ini sections |
| collection nesting (`collection/collection.c`) | references between collections, reference counts | add by reference, embed, clone, get reference, copy, destroy | a section is a collection inside of the configuration's collection |
| collection traversal (`collection/collection.c`) | the path of the walk, the name of the reference it came by | traverse, find by path and act, delete by path, flat copies | a handler of the caller, called for each item |
| collection iterator (`collection_iter.c`) | stack of items, pin, flags | bind, iterate, up, pin, rewind, depth | the cached value search, the lists of names |
| collection comparison, queue, stack, typed calls (`collection_cmp.c`, `collection_queue.c`, `collection_stack.c`, `collection_cnv.c`) | a collection | compare, sort, enqueue, push, insert, update, modify | the parser's action queue |
| ini parser (`ini/ini_parse.c`) | parser object (open section, pending key, lines, comment, action queue), configuration object | parse | collections, value objects, comments |
| ini configuration object (`ini/ini_configobj.c`) | configuration, last comment, error list, cached search | create, merge, copy, get errors | parser, value search |
| ini validators (`ini/ini_configobj.c`) | an error object with a position | check a configuration against rules | two configuration objects and their cached searches |
| ini search and modification (`ini_get_valueobj.c`, `ini_configmod.c`, `ini_list_valueobj.c`) | cached search in the configuration object | first/next/last value, add, update, delete, rename, list | collections, value objects |
| ini conversions (`ini_get_*.c`, `ini_configmod.c`) | none between calls | numbers, Booleans, bytes and lists from and to text | strtoll and its kin, printf |
| ini value objects (`ini_valueobj.c`, `ini_comment.c`, `ini_serialize.c`) | text, folded lines, comment; lines of a comment | create, copy, update, fold, serialize, move comments | reference arrays and simple buffers |
| ini files (`ini_fileobj.c`) | stream, text, encoding, stats | open, reopen, back up, save, change access, close | the file system, other processes, iconv |
| ini snippets (`ini_augment.c`) | list of files, result, lists of errors and successes | augment | directory, file objects, parser, merge |
| deprecated reader, printing (`ini_config.c`, `ini_print.c`) | none of their own worth a model | | |
| path_utils (`path_utils/path_utils.c`) | none | pure functions on paths | |

What makes each correct:

* dhash: it is a map, through every split and merge of a bucket and every failed
  allocation; no freed segment is touched; the counters are exact.
* refarray: it is a sequence; each element is cleaned once; the array lives as
  long as it is held; storage is not overrun.
* simple buffer: contents, terminator and allocation agree; saves are complete.
* collection: list and header agree, items have one owner, duplicates are placed
  and found where the header file says; items hold what was put in; sorting
  permutes; whatever visits the items of a tree visits the right ones; nested
  collections are freed when, and only when, nothing refers to them; copies are
  independent.
* parser: the configuration is the meaning of the file as a whole under the
  collision modes; comments and continuation lines stay with their values; every
  error is reported at its line; parsing ends.
* configuration object: merging obeys the same modes; a merge that is refused
  leaves no trace; no value object is lost or destroyed twice; validators report
  what the rules say.
* search and modification: a search finds every value once, also when the
  configuration changes under it; a change does what its flag says and nothing
  else; no value is destroyed while it can be reached.
* conversions: a text is read as the number or list it says, what was stored
  comes back, buffers are large enough.
* value objects: a saved value reads back; a comment has one owner.
* files: a text survives every encoding and chunk; saves and backups write what
  they should and nothing else; the stats are those of the file; calls return.
* snippets: the result is the meaning of the base and all snippets that were
  merged, and the lists say which were and which were not.

The hard behaviours are listed one by one, at their lines, under `hazards` in
`PROJECT.json`.

## 2. Modules and their correspondence to the code

`map` in `PROJECT.json` names the lines of every definition. Definitions keep
the names of the C functions. Every `X_something` right before an `X` is a
mutant: a plausible bug that a named property must expose; no specification
uses it.

### DHash, DHashMap, DHashProofs (`dhash/dhash.c`)

`table` is the `hash_table_t`: `p`, `maxp`, the counts, the directory (each slot
never allocated, live or freed) and the chains, one set of elements per address.
The order within a chain is not kept, as no caller can rely on it. The hash code
of a key is a constant function, so that collisions are chosen by the instance;
`Bit` is the shift `1 << n` with the facts about it as assumptions (a power
written as `2^n` is beyond the prover). One action per call: a call that grows
or shrinks the table does so within its action, with `expand_table` and
`contract_table` as operators on tables. `UNDEF` is the value of an element that
was linked but never assigned. A failing allocation is a disjunct of the
actions, tried in tables of up to `FailUpTo` entries of which at most `MaxBlank`
were left without a value by an earlier failure.

`DHashMap` is the abstract specification: a set of entries with at most one
entry for each key, that calls change as their description says, and an
iteration that returns each entry once. `ImplementsMap` is the refinement: the
entries found by a walk over the live segments are the map. A `hash_enter` that
fails for lack of memory may leave the key behind without a value; that is in
the abstract specification, and listed in section 4.

### RefArray, RefArrayProofs (`refarray/ref_array.c`)

Two arrays at addresses of their own. Storage is kept slot by slot, past the
allocated size too, so that an overrun and a stale slot can be seen. An element
is a resource handed over once; `cleaned` counts callbacks. `ref_array_replace`
accepts the index `len`; the constant `ReplaceAtEnd` says whether callers pass
it. It is FALSE in the run, as no property holds of an array after that.
Callers keep elements fresh and do not change a shallow copy, which shares its
elements.

### SimpleBuffer, SimpleBufferProofs (`basicobjects/simplebuffer.c`)

`mem` is the memory behind `data->buffer`, `alloc` what `realloc` gave, beside
the `size` and `length` the code keeps. An addition takes several steps (one for
each growth) so that a failure may come between them; a save is the loop of
`ini_config_save_to_file` around `simplebuffer_write`, where `write` takes any
part of the rest. Arithmetic is modulo `M`, in place of 2^32.

### CollectionList, Collection, CollectionProofs (`collection/collection.c`)

The list is a sequence that begins with the header item, with `last` (the
identity of an item) and `count` beside it as in the header. `CollectionList` has
the calls as operators on such a list, for all modules that keep one; `Place` is
the switch over dispositions, `col_insert_item_into_current` the switch over
duplicate flags before it, `ExtractPosition` the switch of the extraction.
`GiveUpAt` and `DoneAt` describe `col_parent_traverse_handler`: where its walk
stops and where it gives up. Names compare as in the code: the search without
regard to case (`Alike`, from the constant `Respelled`), at full length; the test
that `col_get_dup_item` makes of its result with regard to case, and by a prefix
(the constant `PrefixOf`). So an item that is spelled in other case than was asked
for makes it return the item before, or the header. `Collection` is
the state machine over one list. An insertion named like the collection makes the
search of a duplicate start and end at the header: where that makes the code
follow a NULL pointer, the model's state is `crashed` and nothing follows.

### CollectionTyped, CollectionSort, CollectionIter, CollectionWalk, CollectionUse

Four layers of operators, and `CollectionUse`, a caller of all of them.

* `CollectionTyped` (`collection_cnv.c`, `collection_queue.c`,
  `collection_stack.c`): an item has data, a length and a type; strings are cut
  and terminated, data is replaced in place when the type stays. A stale byte, a
  missing zero or a length that no longer fits the data can be seen in `Reading`.
* `CollectionSort` (`collection_cmp.c`): comparison by each flag in the order of
  the code, with the difference it reports; the sort with its array, its passes
  and the linking in either direction, `header->last` at the end.
* `CollectionIter` (`collection_iter.c`): the stack of pointers, one for each
  level; one turn of the loop of `col_iterate_collection` after the other.
* `CollectionWalk` (`collection.c`): `col_walk_items` gives the sequence of the
  calls of a handler; `col_act_traverse_handler` and `col_copy_traverse_handler`
  are folded over it. `Compare` is the comparison of a path from its end, letter
  by letter, as `col_match_item` does it; the byte before the search string, which
  it reads, is taken to be zero.
* `CollectionUse`: items are put in by every call and type, changed, deleted by
  path, sorted and taken out, and ready-made collections embedded; then an
  iterator is bound, moved, pinned and rewound. `known` is what the caller should
  find, `owed` what the round of the iterator has still to visit; both are
  computed without the state of the program. `WalkMeans` asks of every state what
  every search, traversal and flat copy would give.

### CollectionRefs, CollectionRefsProofs (`collection/collection.c`)

Nested collections: a header's reference count, the sequence of collections its
items refer to, the handles callers hold. The items that point to a collection
are a set of places (`Items`), which the count in the header is compared with. Destroying and copying recurse in the
code; here `todo` and `copying` are their call stacks, one frame for each level,
and a copy may fail at each step, as `col_copy_collection_with_cb` does, where
only the collection of the level that failed is destroyed and others leak.
Callers do not build cycles or embed twice: `collection.h` forbids it, the code
does not check it.

### IniSections, IniParse (`ini/ini_parse.c`)

`IniSections` has what the parser and the merge share: sections, and what
becomes of a value offered to one (`Offer`).

The loop of `parser_run`, one action for each of its operations. A line is what
the handlers tell apart: leading blanks, kind, name. A value is identified by
its line, so a configuration shows which line each value, continuation and
comment came from. The reference meaning (`Inside`, `KeyLine`, `FoldOf`,
`CommentOf`, `BlockOf`, `Survivors`, ...) is defined over the whole file with
quantifiers, without the parser's state. An allocation failure ends the parsing
between handlers (`NoMemory`).

### IniMerge, IniSnippets, IniAugment (`ini/ini_configobj.c`, `ini/ini_augment.c`)

`IniMerge` has `ini_config_merge` as a function of two configurations, with an
operator for each of its handlers: what each returns, what it leaves in the
section or the configuration when it stops, and the number of value objects
allocated less those destroyed (`objs`). `IniSnippets` says which entries of a
directory are snippets: kind, pattern, permissions, and the order. `IniAugment`
lists the directory first (`ini_aug_preprare`, then one `ReadEntry` for each name
in any order, since `readdir` promises none, and the sort), and is then the loop of
`ini_aug_apply` on top of it: one action for each snippet, which is opened,
parsed, checked against the allowed sections and merged into the result so far.
What parsing makes of a file is part of the snippet (its `state` and its
sections), as IniParse is about that; after a parse that failed the object has no
section but keeps the comment at the end of the file, since `parser_post` stores
it first. The lists `ra_err` and `ra_ok` are a set and a sequence of snippet
numbers. Running out of memory ends the loop between two snippets (`NoMemory`),
and half-made copies leak up to `MaxLeak` values.

The reference meaning is global: `Survivors` says, from the base and all merged
snippets at once, which values a section has in the end; `Collides` says which
snippets must be reported. `Consistent` leaves out what the code says it does not
handle (files with duplicates that the merge flags do not allow, the note at
`ini_configobj.c:900`) and one mode listed in section 4.

### IniRules, IniAccess (`ini_get_valueobj.c`, `ini_configmod.c`, `ini_list_valueobj.c`, `ini_configobj.c`)

`cfg` and the sections in `secs` are lists of `CollectionList`, so the placement
of values among duplicates is that of the collection; `heap` has the value
objects that are allocated and, in place of their text and comment, which change
wrote each last and for what key. The keys of a file and of a call may differ in
case, so what `col_get_dup_item` hands to the insertion flags is what the code
hands to them; the header that it may return owns no value, and writing to it is a
`fault`. `search` is the section, name and iterator that
`ini_get_config_valueobj` keeps in the object, and the section it holds a
reference to lives on in `secs` when it is deleted from `cfg`. Each call of
`ini_configmod.c` is one action, with the outcome of a failing allocation as
another; what the code does in order (clean, choose, create, replace or insert)
are operators of their own. A search that stands on an item that was freed is
the `fault` of the model, after which nothing is called.

`IniRules` has the validators and the error object as operators over a
configuration and a file of rules. `RulesMean` states rule by rule what the
messages should be; `Validated`, a part of `FoundAll`, asks it of every
configuration that is reached.

### IniConvert (`ini_configmod.c`, `ini_get_valueobj.c`, `ini_get_array_valueobj.c`, `ini_get_value.c`, `ini_get_array.c`)

The text of one value, stored by a setter or read from a file, and one call that
reads it: one action for each getter, the splitting of lists character by
character within its buffer. Numbers have the base `Base` and the widths
`IntBits` and `LongBits`, so that every text around every limit is in the run.
`strtoll`, `strtoull`, `strtod` and the formatting of numbers are external.

### IniFold, IniValue, IniValueProofs (`ini_valueobj.c`, `ini_comment.c`, `ini_serialize.c`)

`IniFold` has `value_fold` and `value_unfold` on texts, with the unsigned
arithmetic of the first line. `IniValue` has the values (by slot) and comments
(by address) with their owners, one action for each call; what is saved is read again by the rule of the
parser that a line that begins with a blank continues the value (`SavedReads`).
A call that reads or frees what is not there sets `fault`.

### IniEncoding, IniFile, IniFileProofs (`ini_fileobj.c`, `ini_metadata.c`)

`IniEncoding` has the byte order marks, and the conversion with its buffer and
the bytes it carries over. `IniFile` has a file system of a few names, the file
object, and the call in progress as a program of system calls (`Step`), between
which another process writes, creates or changes files; between two calls a file
may be replaced by another inode or by a file of another device. Which system calls
fail, and how: opening, writing and giving away a file for want of permission or of
the file; writing for want of space; `fstat`, `fread`, `fdopen` and `fmemopen` for
any reason (`ReadFails`, `Converts`). `stat`, `chmod` and `chown` fail only where
the file or the permission is missing, and memory is never short. The user is in
two groups (`Groups`). Of `ini_metadata.c`, `collect_metadata` is what it does with
the flag that asks for the values, with its test of the device's range. A name
without a file has the entry `NoFile` (inode 0), and between calls `call` is `NoCall`. `behind` and `touched` say what others have done
meanwhile.

## 3. Runs

| Run | Properties | Bounds |
|---|---|---|
| dhash | `SegmentsLive`, `EntryInItsBucket`, `LoadBounded`, and the refinement `ImplementsMap` | 6 keys, two of which always collide; tables of 2 to 4 buckets in segments of 2, in directories with room for 4 (which fill up) and for 8, default arguments, arguments rejected; failures up to 3 entries |
| refarray | `ElementsSound` (storage, ownership, lifetime), `ContentIsSequence` (every call is the operation on a sequence) | 2 arrays, 3 slots, 4 elements, growth by 1 and 2 (0 is refused), every allocation and copy callback may fail |
| simplebuffer | `WithinAlloc`, `HoldsAdded`, `SaveComplete`, `EveryCallReturns` | 4 bytes in total, blocks of 0, 2 and 5, modulus 16 |
| collection | `ListSound`, `InsertMeans`, `SearchMeans` | 4 items, 3 names (two differ in case, the third is a prefix of one of them and the collection's own), 2 types, indexes -2..2 |
| collection_refs | `PointersSound`, `AllReclaimed` | 4 collections, 2 items each, one failed copy |
| collection_use | `ContentMeans`, `SortMeans`, `VisitsMean` | 6 classes of collections, 2 or 3 items, 4 collections to embed, of which one is empty and one has another inside, 8 sets of comparison flags, 4 of sort flags, 24 of iterator flags, 12 paths of up to 4 parts |
| ini_parse | `ConfigMeansFile`, `NothingMisattached`, `ErrorsReported`, `ParseReturns` | files of up to 5 lines of 2 sections and a key under all 200 combinations of collision modes; files of up to 3 lines of 12 kinds under 6 settings of error level and parse flags, with read and allocation failures |
| ini_augment | `ResultMeansMerged`, `NothingLost` | directories of 3 names of 4 kinds, patterns that match, do not match or do not compile; a base of 2 sections or the implicit default section, up to 3 of 8 snippets (4 that collide in different ways, an empty, a malformed, a refused and an unreadable one), all 40 combinations of merge flags, 2 error levels, with allowed sections and without |
| ini_access | `ValuesOwned`, `FoundAll`, `FlagsMean`, `OthersKept` | 2 sections, 2 keys, one of them also spelled in other case by a file, 2 changes, 5 addresses, 3 loaded files, 5 dispositions, any searches between; a file of 16 rules |
| ini_convert | `ReadMeans`, `RoundTrip`, `BuffersFit` | base 2, int of 2 and long of 3 bits, all texts of up to 4 or 5 characters over alphabets of digits, signs, blanks, letters and separators |
| ini_value | `FoldSound`, `SavedReads`, `OneOwner` | 2 values, 2 comments of up to 2 lines, 5 calls, failures; folding of all texts of up to 7 characters at all boundaries up to 9 |
| ini_file | `DecodeMeans`, `WritesMean`, `StatsCurrent`, `MetadataAgrees`, `BackupKeeps`, `Returns` | 3 calls, 1 change by another process, 3 files and 2 names for backups, 3 devices (one out of range), 2 groups, characters of one and three bytes in UTF-8, UTF-16LE and UTF-32LE, and a buffer of 5 bytes |

Why the bounds are enough: a table that grows from 2 buckets to 4 allocates a
segment, wraps its split pointer and doubles, and undoes all of it when it shrinks,
from a full directory too (an attempt to grow a full directory takes 8 entries: no
run makes one, and the theorems of DHashProofs, which hold for any size, are what
covers it); an
array of 3 slots grows twice and has a first, a middle and a last element; 4
items make a run of duplicates that is interrupted and resumed; 4 collections
make a diamond; 3 items are sorted in more than one pass, and the embedded
collections put an empty one, a nested one and an item before, between and after
each other; paths of 4 parts are longer than any that is there; 5 lines make a
section, another and the first again, with keys that collide within and across
them; 3 lines hold a key, a continuation and a comment in each order; 3 snippets
make a collision with the base, with another snippet, and one behind a snippet
that was refused halfway; 2 changes delete and add under a search that has begun
in a section with duplicates; widths of 2 and 3 bits have every number and every
overflow of the larger width into the smaller; a buffer of 5 bytes cuts
characters of two, three and four bytes; 3 calls open,
change or save, and look.

Deadlock is checked except where the program may stop: a collection that crashed
or is full, files at their end, bounded numbers of calls that are used up, and
collections that leaked after a failed copy until none of the bounded set is left.

Fairness. SimpleBuffer and IniParse have a `FairSpec`, IniFile a fair `Spec`:
weak fairness of the steps of a call that has begun. One thread runs the call and
nothing in it waits, so a step that is possible is taken. No fairness is assumed
of callers' next calls, of other processes, nor of failures; `write` makes
progress only in the sense that its successful outcome, of at least one byte, is
not put off for ever.

## 4. Disagreements of code and documents

Those that contradict a document, a comment or memory safety outright are under
`findings` in `PROJECT.json`. These and the following were met while modelling and
are written into the models as the code has them, with the properties stated so
as to leave them out:

* a `hash_enter` that cannot grow the table returns `HASH_ERROR_NO_MEMORY` and
  leaves the key in the table without a value; a later lookup finds it
  (`dhash.c:1005`, `dhash.h:307`);
* `ref_array_replace` accepts the index `len`: a slot that holds no element is
  cleaned and overwritten, and no element is replaced (`ref_array.c:340`,
  `ref_array.h:257`);
* extraction and search with `COL_DSP_LASTDUP` and a type: an item of the same
  name and another type returns early, before the test that ends the search, so
  a run of duplicates is not ended by it (`collection.c:1934`,
  `collection.h:2332`);
* a property named like its collection: the search begins at the header, so
  `COL_INSERT_DUPERROR` accepts a duplicate (`collection.c:558`,
  `collection.h:2446`), and with it `INI_MV1S_ERROR` a key named like its
  section (`ini_configobj.h:288`);
* `col_get_dup_item` compares with the length of the other name and so takes a
  prefix for the name; and it compares with regard to case what was found without:
  asked for `KEY` where the item is `key`, it returns the item before, or the header
  (`collection.c:464`, `collection.h:833`). Through it the insertion flags
  replace the value of another key or destroy what the header has for data
  (`ini_configmod.c:1012-1113`, `1167-1176`). `SearchMeans` and `FlagsMean` speak of
  items spelled as asked for, `OthersKept` excepts the value before one that is not,
  and no other;
* embedding a collection twice is not refused (`collection.c:2786`,
  `collection.h:207`);
* the number of errors is set only on the failing path, so it stays 0 for a
  parse that detected duplicates (`ini_parse.c:1739`, `ini_configobj.h:783`);
* while sections are merged, two values of the second section for one key
  collide with each other under the flags for two sections (`ini_parse.c:522`,
  `ini_configobj.h:304`);
* `INI_MS_OVERWRITE` with `INI_MV2S_DETECT`: a key that is twice in the second
  section ends the merge, and the result, without the sections that follow, is
  handed out all the same (`ini_configobj.c:593-601`, `920-929`);
* `INI_MS_ERROR` with `INI_MS_DETECT`: a merge that met a duplicate section
  hands out a result whose last comment was not merged and whose values were not
  wrapped anew (`ini_configobj.c:798-804`);
* a snippet without sections is skipped without a message where only some
  sections are allowed: `ini_get_section_list` returns an empty list and not
  NULL, so the message at `ini_augment.c:580` is not reached (`609-615`);
* a malformed snippet under `INI_STOP_ON_NONE` is to be processed "anyway"
  (`ini_augment.c:766`), but its configuration was dropped: what is merged, and
  listed as merged, is the comment at its end (`ini_parse.c:1440`, `1736-1742`);
* `*/` alone at the start of a line does not end a comment (`ini_parse.c:1319`;
  the file `ini/ini.d/comment.conf:5-10` has comments that end so).

Collections:

* after `col_iterate_up` by all levels the next iteration starts over at the top
  and returns no item only if the pin is there; the header promises a NULL item
  (`collection_iter.c:219`, `collection.h:3287`);
* a pin inside of a collection that is embedded twice ends the round at the first
  of the two it meets (`collection_iter.c:231`);
* the sort flag `COL_SORT_MYSUB` skips the collection that is passed, too, when it
  is referenced more than once (`collection_cmp.c:326`, `collection.h:861`);
* `col_compare_items` without comparison flags returns before it sets
  `*out_flags`, and `col_sort_collection` then decides on a variable that was never
  set (`collection_cmp.c:72`, `380`);
* modifying a binary item with length 0 keeps its old data, so it cannot be
  emptied (`collection.c:3118`).

Configurations:

* `INI_VA_CLEAN` deletes the old values before it makes the new one; if that
  fails, both are gone (`ini_configmod.c:1114`);
* the attribute list of a configuration's implicit default section omits its
  first key, which is taken for the item that stands for the section
  (`ini_list_valueobj.c:121`);
* a search that stands on a value which is then deleted goes on from freed memory
  (`ini_get_valueobj.c:203`); a section that is deleted under a search is freed
  with the search, but its values are not destroyed (`ini_configmod.c:1602`);
* the rules of validators count their values by the exact spelling of the key and
  fetch them without regard to case, so a key in other letters shifts them
  (`ini_configobj.c:1187`, `1249`); the comment at `ini_configobj.c:1654` expects
  that a validator can set the caller's pointer to NULL, which is passed by value;
* where all patterns of `ini_config_augment` fail to compile, no pattern is left
  and every file of the directory is a snippet (`ini_augment.c:191`, `224`).

Values and files:

* the older `get_bin_config_value` does not add 10 to a first digit above 9 that a
  digit up to 9 follows (`ini_get_value.c:569`);
* `value_create_from_refarray` destroys a value whose `unfolded` was never set when
  unfolding fails
  (`ini_valueobj.c:423`);
* saving an object that has no stats under a new name fails with ENOENT, as it is
  the new file whose owner and mode are looked up (`ini_fileobj.c:754`);
* a backup with a limit of 0 names returns EOK and makes none; a name that cannot
  be created for lack of permission is skipped like one that is taken
  (`ini_fileobj.c:1224`, `1236`);
* a save that fails has emptied or cut the file already (`ini_fileobj.c:1401`);
* a file that another process shortens is read for ever (`ini_fileobj.c:142`);
* changing the mode and then failing to change the owner leaves the stats of
  before both (`ini_fileobj.c:1298`);
* a time stamp of -1, and a device that is the last unsigned long, are taken for no
  answer in the metadata, and a device above is refused (`ini_metadata.c:447`, `212`).

## 5. Proofs

| Theorem | States | Also checked by the run |
|---|---|---|
| `DHashProofs` `TypeCorrect`, `ShapeCorrect`, `AddressCorrect` | types, shape of the table, valid addresses | - |
| `SegmentsCorrect`, `PlacedCorrect` | `SegmentsLive`, `EntryInItsBucket` | dhash |
| `MapInvariant`, `MapCorrect`, `LoadCorrect` | `MInv`, the refinement `ImplementsMap`, `LoadBounded` | dhash |
| `SimpleBufferProofs` `NoOverrun`, `BufferContents`, `SaveWritesAll` | `WithinAlloc`, `HoldsAdded`, `SaveComplete` | simplebuffer |
| `RefArrayProofs` `ElementsCorrect`, `ContentCorrect` | `ElementsSound`, `ContentIsSequence` | refarray |
| `CollectionRefsProofs` `RefsInvariant`, `PointersCorrect`, `ReclaimedCorrect` | `IInv`, `PointersSound`, `AllReclaimed` | collection_refs |
| `CollectionProofs` `ListCorrect`, `InsertCorrect`, `SearchCorrect` | `ListSound`, `InsertMeans`, `SearchMeans` | collection |
| `IniValueProofs` `OwnersCorrect`, `FoldCorrect` | `OneOwner`, `FoldSound` | ini_value |
| `IniFileProofs` `FileInvariant`, `StatsCorrect`, `BackupCorrect`, `MetadataCorrect` | `FileInv`, `StatsCurrent`, `BackupKeeps`, `MetadataAgrees` | ini_file |

**DHashProofs**, for all keys, hash codes, sizes, load factors and sequences of
calls, with and without failures. It rests on the assumptions of `DHash` (types
of the constants, the four facts about `Bit`, defaults that are not zero, a null
pointer that is none of the objects). None of the first five theorems is inductive
alone: where an entry is placed after a split follows only if `maxp` is a power
of two and the buckets are those below `maxp + p`, and a split moves entries to a
live segment only if segments and buckets are in step. `IInv` is their
conjunction (`TableOK` of the table, if there is one) with the types of the
iterator and the callback record. The lemmas: arithmetic of remainders by a power
of two (a remainder modulo `2 * m` is that modulo `m`, or that plus `m`), what
`expand_table` and `contract_table` do to shape, segments and placement, that a
new table is well formed, and that linking and unlinking an element keep all of
it. Then one step for each action.

Its second half adds to `IInv` what the refinement needs (`MInv`): each key has
at most one entry, `entry_count` is the number of entries, which are finitely
many, and an iterator has still to return exactly the rest of its chain and the
chains after it (`MapOf`, `IterOf`). A split or a merge of buckets moves entries
and keeps the set of them (lemmas about `Entries`), so every step of `DHash` is a
step of `DHashMap` or leaves the map as it was; `MapCorrect` puts together the
initial states and one lemma for each action. `LoadBounded` follows from the exact
count: what the code compares with the load factors is the number of entries, a
split follows an entry that exceeds the maximum, and a merge does not exceed it.

**SimpleBufferProofs**, for all lengths and block sizes of which the sums do not
wrap (`BufferAssumption`). The strengthening says what an addition in progress has
established: `size` is what was allocated, `length` is what was added, and the
pending block is larger than the pending data. For saving, `SaveOK` adds that
nothing is added meanwhile and that the file holds the text without what is left
to write, so a `write` of any length extends it by the right bytes.

**RefArrayProofs**, for all numbers of arrays, slots and elements and all growth
sizes, for callers that do not pass the index `len` to `ref_array_replace`: both
theorems have `~ReplaceAtEnd` as a hypothesis, as they are false without it
(section 4). `IInv` has four parts: types; storage (`len` within `size`, no slot
below `len` unset, no element twice in an array that disposes of its elements);
the count of references, equal to what clients hold; and ownership (`OwnOK`):
no element has two owners, one that has an owner was handed over and not disposed
of, and one that was handed over has an owner or was disposed of exactly once.
The last is what makes the others inductive: an insertion and a deep copy keep it
because the elements they bring in are new. `ContentIsSequence` is an action
property; each call is compared with `InsertAt`, `RemoveAt` or `Append` on the
content through the lemmas of `ProofBasics` about what those do at each index.

**CollectionRefsProofs**, for any finite set of addresses and any sizes, with and
without failed copies, for callers that build no cycles (the guards of the
model). `IInv` has, beside types and `PointersSound` without its part about copies
(nothing dangles; no count is below the pointers there are, and it is equal as
long as no copy has failed):

* `AcyclicIn`: every set of collections has one that none of the set refers to.
  `AllReclaimed` needs it: the collections that are left when callers hold nothing
  would each be referred to by another one, and there is none such. It is stated
  with sets because a set form survives the removal of items trivially, and the
  addition of one because the target does not reach the source.
* `CopyOK`: what each activation of a copy may rely on: what it copies is still
  there, its own copy has one reference and as many items as it has passed, no two
  activations write to one copy. For a deep copy there is a set of collections,
  the copies made so far, that no item enters or leaves (`Splits`); that is why a
  deep copy shares nothing with its source at any moment.

Counts are compared as cardinalities of sets of places: a step that adds or
removes a pointer adds or removes one place (`Moves`, `Balanced`). What a
collection reaches (`Within`) is computed by a recursive function over rounds;
`LoopExists` gives the function and its equations, and a least round gives the
argument by induction.

**IniValueProofs**, for any slots and comment addresses and any number of calls.
`OwnersOK` says that comments of different values are different, that those a
value owns are allocated and not the caller's, and that every allocated comment is
the caller's or belongs to some value: the parts of `OneOwner`, which are inductive
together with the types of what is stored, and hold after a fault too.

`FoldCorrect` is about the loop of `value_fold`, for texts of any length over any
characters, any key length and any boundary. `FoldOK` is its invariant: the lines
so far hold the text up to `start`, with one blank more if the first line was left
empty, every one of them fits or has no place to fold at, and (`Unfinished`) `start`
is at a blank and there is no place between `start` and `resume`. `PortionKeeps` says
when one more line keeps that (`MayFollow`), whatever `save_portion` puts in front of
it; a turn then makes a bare first line, a line up to the last place within the
boundary, one up to the first place beyond it, or the last line (`BareLineKeeps`,
`ShortLineKeeps`, `LongLineKeeps`, `LastLine`). Every turn but the first gets further
in the text, so that the `2 + Len(text)` turns of the model are enough: the theorem
also says that the code's loop ends. `Fold` is a recursive function; `LoopExists` gives
its equations.

**CollectionProofs**, for any names, spellings, types, indexes and prefixes, lists of
any length and any sequence of calls. It assumes `CollectionAssumption` (types of the
constants) and `PointerAssumption` (NULL is no collection); that to differ in case only
is symmetric and transitive (`NameAssumption`) is not even needed. `ListInv` is stronger than
`ListSound`: `last` and `count` are a function of the list (`Made`), the header item is
first, no identity is in the list twice (`GoodList`), the items with the caller are
finitely many, with identities of their own and none of the list, and what is
allocated is exactly the items of the two (`Owned`). It takes all of that for `last`,
which is an identity, to name one item after every relinking.
`SearchMeans` and `InsertMeans` compare the
walk over the list with sets of positions: the n-th duplicate is the position with n
members of the set before it (`RankType`, `RankNext`), and the place where
`col_parent_traverse_handler` stops is that position, or the end of the first run of
duplicates where the code says so. Both are state invariants that quantify over all
arguments, so each is proved of every list that satisfies `ListInv`.

**IniFileProofs**, for any file names, backups, accesses, modes, texts and encodings,
with failing calls and with other processes between any two steps. It assumes
`FileAssumption` (access structures and modes are sets of permission bits, the
opened names are names, devices are numbers, NULL is no metadata). `StatsCurrent` is
about objects between calls; the steps in between need `FileInv`: the stats of the object are current unless a save is going on
(`Current`); what a reading call took from the file is still so unless others touched
it (`Fresh`); a backup works on another file than the object's (`Apart`), which exists
while the stats are current, and the name was free; and a name found free is free
when it is created, or somebody took it (`Unused`), from which `BackupKeeps` follows.
`MetadataCorrect` compares the metadata that a reader collects from the file now,
with any device, with the answers from the stats that the object keeps, which are those
of the file by `FileInv`; the rest is arithmetic on the answers: both checks are reduced
to the same condition on mode, user and group, and the comparison with the stats from
before a reopening to the same condition on time, device and inode.

**ProofBasics** has what the others share: that a set of naturals that is not
empty has a least member (from which induction is used in the form of sets, as the
rule with a predicate cannot be used), that a recursion over naturals defines a
function, and what the sequence operators give.

The proofs are about what callers may do in the models: sections 2 and 6 say
which arguments the headers forbid.

Only model-checked:

* liveness (`EveryCallReturns`, `ParseReturns`, `Returns`), which needs fairness
  and `ENABLED`;
* CollectionUse, whose walks and sorting are recursive operators over nested
  collections;
* IniConvert, `SavedReads`, `DecodeMeans` and `WritesMean`: they compare texts and
  bytes, character by character, with a reference meaning. `iconv`, the conversion
  and the splitting of lists recur over sequences and not over a counter, and what
  such a function computes needs induction over data; `FoldCorrect` was possible as
  the loop of `value_fold` counts turns;
* IniParse and IniAugment, for the same reason: what a file means is a fold over its
  lines;
* IniAccess (`ValuesOwned`, `FoundAll`, `FlagsMean`, `OthersKept`): its insertions are
  those of `CollectionList`, and the lemmas of CollectionProofs would carry over, with
  one list for each section.

## 6. Not modelled

* Formatting: debug output, `col_collection_to_list` but for its names, printing
  of errors (`ini_print.c`), `ref_array_debug`, `hash_get_statistics`,
  `hash_error_string`.
* `ini_config.c`, the deprecated reader: a line parser of its own that the newer
  one replaced; what it shares with it (collections, values, metadata) is
  modelled.
* `path_utils.c`: pure functions on strings, without state.
* The hash functions: the code of a key is a constant of the instance, and equal
  names stand for equal hashes in collections.
* uint32 overflow of lengths near 4 GiB, and `1 << n` for sizes near the width of
  the address.
* Concurrency within the libraries: they have none. Other processes that use the
  same files are in IniFile.
* Allocation failures within an insertion into a collection, within a handler of
  the parser or a merge, and in the validators. They are modelled where ownership
  moves: DHash, RefArray, SimpleBuffer, CollectionRefs, IniAccess, IniValue, and
  between the steps of IniParse and IniAugment.
* Regular expressions: a pattern is the set of names that it matches.
* Names that differ in the case of letters only, outside of Collection, IniAccess and
  the rules of IniRules: CollectionUse's callers and the files of IniParse and IniAugment
  spell a name in one way. None of the code there calls `col_get_dup_item`.
* System calls that fail for reasons of the machine, but for those named with IniFile in
  section 2.
* Arguments that the headers forbid and nothing checks: cycles of collections, a
  collection embedded twice by its owner, invalid collision flags.

## 7. Plan

1. Theorems: `ValuesOwned` of IniAccess, from the lemmas of CollectionProofs; the
   types and the reported errors of IniParse.
2. With IniParse and IniMerge: merging two files is parsing them one after the
   other where the modes agree.
3. `PathUtils`: pure functions over components, against reference definitions.
