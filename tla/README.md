# Picture Metadata Toolkit 1.5.0 in TLA+

TLA+ models of the Picture Metadata Toolkit (PMT), checked with TLC and, where
it says so below, proved with TLAPS.  PMT reads and writes picture metadata
through one tree of metadata objects, whose shape an XML Schema defines, and
one accessor per file format, which a translation table drives.

Paths below are relative to the repository.

## The system

| Component | Where | State it keeps | Operations |
|---|---|---|---|
| Metadata tree | `src/PmtCore/PmtCompositeMetadata`, `PmtElement`, `PmtModelGroup`, `PmtOccurrence` | per composite: the list of its elements, the tree of its model groups, per element a vector of occurrences | `getMetadatum`, `getMetadata`, `deleteMetadata`, `clone` |
| Metadata objects | `PmtMetadata`, `PmtMetadataT`, `PmtAttribute(T)`, `PmtRootMetadata` | key, parent (raw pointer), occurrence number, value, attributes | `fullKey`, value access, visitors |
| Facets | `PmtFacet(T)` | the value restrictions of an element | `isValid` |
| Keys, aliases | `PmtKeyParser`, `PmtAliases` | map from alias to key list, under a lock | parse, insert, look up |
| Factories | `src/Ek/EkFactoryT.h`, `PmtMetadataFactories` | one registry of prototypes per namespace, under a lock; the map of registries, without | `create`, `get`, `addEntry`, `removeEntry`, `clear` |
| Shared objects | `src/Ek/EkRefCount.h`, `EkSmartPtr.h` | a use count per object | copy, assign, destroy a pointer |
| Definition interpreter | `src/PmtInterpreter/PmtDefinitionInterpreter` | statics: registered translation tables, loaded schemas, flags; `msLoadLock` | `load`, `loadWithAliases`, `loadMemory`, `erase` |
| Schema parser | `PmtSchemaSAXParser`, `PmtSchemaSAXHandler`, `PmtOrder`, `PmtSchemaInfoParser` | stacks of open elements | XML Schema to prototypes |
| Instance interpreter | `PmtInstanceInterpreter`, `PmtXMLInstanceParser` | the stack of open composites | XML to tree and back |
| Translation table | `src/PmtAccessor/PmtTranslationTable` | one column per file format; `msLock` | `load`, `loadMemory`, `erase`, `getSubTable` |
| Accessor base | `PmtAccessor` | the shared table and its flag; errors, `mThrowErrors` | `loadIfAny`, `readMetadata`, `writeMetadata`, `removeMetadata` |
| Format accessors | TIFF, Exif, DIG35, JPEG 2000, PNG, QuickTime, XMP, XML | the open file, its own tree of tags, atoms, chunks or RDF nodes | `open`, `close`, `getMdValue`, `setMdValue`, `removeMdValue` |
| Translators | `src/PmtTranslator` | none, and the default translation table | file value to metadata value and back |

How they interact.  The definition interpreter fills the factories with
prototypes and registers the translation tables that go with the schemas.  A
client creates a root from a factory and asks it for metadata by key; the tree
creates what is missing from the same factory, under the rules of its model
groups.  An accessor first lets `loadIfAny` bring the shared translation table
up to date with what the interpreter registered, then goes through its column
of the table, reads each tag and puts the value into the tree through a
translator.  Factories, aliases, the interpreter's statics and the translation
table belong to the process: any thread may reach them.  A tree belongs to the
thread that made it.

What is hard here:

- the loops and recursions over a tree that they themselves create and delete
  in: the bounds they read again, a cursor that recursion levels share,
  occurrence numbers that move up during a deletion;
- rules of the schema that hold across model groups at any depth (choice,
  minOccurs, maxOccurs), kept by code that sees one element at a time;
- several flags and two locks that together say whether the shared translation
  table is up to date, changed from two components in separate calls, and read by
  some accessors under a lock, by others without;
- errors in the middle: a factory that answers NULL, a table file that is not
  there, exceptions thrown through guards.

## The models

### MetadataTree

`MetadataTree.tla` models the three calls a client makes on a composite.

| Model | Code |
|---|---|
| `kids[n][k]` | `mMdVec` of the `PmtVectorElement` of key k of composite n; `mMd` of the `PmtOptionalOrSingularElement` that is made for maxOccurs 1 |
| `md[m]` | `mMetadataKey`, `mParent`, `mOccurrence` of object m |
| `Elements`, `Group`, `Choice`, `Items`, `KeysUnder` | `mMdIterList` and the tree of `PmtModelGroup`s, made once from the schema |
| `stack` | the C++ activation records of the call that runs, with their loop variables and the cursor of their `PmtOccurrence` |
| `iter`, `ret` | the `PmtMetadataIterator` or the object that is answered |
| `held` | the composites the client holds a `PmtMetadataPtr` to |
| `call` | what was called, the object its path named and the objects that were in the tree: history the properties compare with |

One action per call begins it (`getMetadatum`, `getMetadata`,
`getMetadataEmptyKey`, `deleteMetadata`, `deleteMetadataEverything`), and one
action per loop body runs it: `GetMetadatumLevel`, `GetOccurrence`,
`DeleteNamed`, `DeleteDescend`, `DeleteWildcard`, with `SkipKey` and `Return`
for the ends of the loops.  Whether the wildcard of a key matches is the set
`match` of the segment: text is not modelled, nor are aliases.

`MCMetadataTree` gives it a schema in which everything happens: a root with an
unbounded leaf and a choice between a composite (two occurrences) and a
sequence of two leaves; in the composite a leaf with minOccurs 2 and maxOccurs
3 and an optional leaf.  `MaxNode` is the number of objects the factory gives
out before it answers NULL: four is the least that lets a composite with two
children stand beside another one, so that renumbering, filling up to minOccurs
halfway and creation after deletion all occur.  The paths include every kind of
segment (exact, `*`, `?`, prefix) with no occurrence, one, a list and `[*]`.

| Run | What it shows |
|---|---|
| `MetadataTree` | `OccurrencesNumbered`; the schema rules `ChoiceExclusive`, `WithinMaxOccurs`, `FilledToMinOccurs`; what the calls promise, `GetMetadatumFindsPath`, `EmptyKeyGetsEverything`, and what a deletion removes: the object its path names, where the path names one, and in any case nothing of another key or another composite (`DeletesWhatIsNamed`); of a list of numbers that runs from the last to the first, exactly the objects that had them (`DescendingListDeletesNamed`); every call returns (`CallsReturn`) |

The model deletes what the code deletes, which is not always what its
documentation says:

- a list of numbers that runs upwards deletes others than it names, because those
  behind a deleted one move up (`PmtCompositeMetadata.cpp:830`): `v[0,1]` of three
  objects deletes 0 and 2;
- `"*"` deletes occurrence 0 of each key only (`:839`), not everything (`:667`);
- a composite that lost its last child stays (`:748`), and is not deleted (`:671`);
- the empty key deletes everything, and not nothing (`:669`);
- `[*]` after a name deletes nothing, because the cursor of a wildcard occurrence
  has no first number.

Fairness: `WF_vars(Step)`.  The calls are plain sequential code, so a call that
has begun goes on; nothing makes a client call.  `CallsReturn` then says that
the loops end, which is not obvious for those whose bound is read again.

### TranslationTables

`TranslationTables.tla` models how the tables that the definition interpreter
registers reach the table that all accessors read, for any set of threads.

| Model | Code |
|---|---|
| `loadLock`, `ttbFiles`, `erased`, `ttbFilesChanged`, `defaultSchemaLoaded`, `loadedSchemas` | the statics of `PmtLogicalDefinitionInterpreter` |
| `msLock`, `table` | `PmtTranslationTable::msLock` and the table, one entry per registered file; `whole` once its last element is in |
| `translationTableLoaded` | `PmtAccessor::msTranslationTableLoaded` |
| `pc`, `file`, `pos`, `seen` | where a thread is, the loop over the files, the loop over the elements, which of them it may have read |
| `freed` | that the column a thread walks without the lock was deleted, or moved by a `push_back`, under it |
| `embedded` | that the Exif reader is inside, or past, the `open` of its XMP accessor |
| `registered` | history: the tables registered at some time of the thread's call |

A call of the interpreter holds `msLoadLock` from its first statement to its
last and touches nothing that others change without that lock, so it is one
action.  `PmtAccessor::loadIfAny` and the reading loops take both locks in
several sections and are cut into steps where another thread can come between.
What a call needs of the schema parser is only which tables it registers and
whether the default schema loaded.  That may fail on code paths that register
its table all the same, so `LoadDefault` leaves it open.

The accessors do not read alike.  TIFF, Exif and DIG35 hold `msLock` from the
lookup of their column to the end of the loop (`FindTable`, `ReadElement`,
`EndRead`).  The XMP accessor has no guard, and that of the QuickTime accessor is
commented out (`PmtQtAccessor.cpp:169`): they walk the table without a lock
(`LookUpTable`, `WalkElement`, `EndWalk`), and when it is deleted or grows under
them they read anything (`WalkAstray`).  The Exif accessor, with `msLock` in its
hands, opens the XMP accessor on the packet of the image, whose `Initialize` calls
`loadIfAny` (`OpenEmbedded`).  That takes a build with the XMP accessor and a
file with a packet, which is the constant `XmpInExif`.

| Run | What it shows |
|---|---|
| `TranslationTables` | `TableFromRegistered`: between calls the table is a prefix of the registered files; `ReadsCurrent`: what a reader sees was registered at some time of its call, until a table is deleted under one without the lock (`ReadsRegistered`), and who holds the lock sees only the default table half loaded (`PartialOnlyDefault`); `StableWhileRead`: nothing is taken from a reader that holds the lock, not by its own `loadIfAny` inside the XMP accessor either; `LoadsAll`: when the loaded flag goes up the table is complete; `CallsReturn`: if every Exif reader comes out of the XMP accessor it opens, every call returns |
| `ThreadsExit` | finding: with packets, the Exif reader waits for `msLoadLock` with `msLock` in its hands, while the owner of the one waits for the other; or it waits for itself, where its `loadIfAny` has something to erase or to load |
| `NotDeletedInUse` | finding: the table is deleted while such a reader walks it |

What the model does, because the code does:

- the condition at `PmtAccessor.cpp:67` is never true again after the first load, so
  that tables registered later are not loaded, and none after an erase;
- a file of schemas is looked up by its first schema and remembered by its last
  (`PmtDefinitionInterpreter.cpp:127`, `:143`), so that one with two is loaded
  again at every call;
- a reader without the lock may use a table that another thread has half loaded.

The default table is filled without the lock (`PmtTranslationTable.cpp:341`), so
any reader may see half of it; `PartialOnlyDefault` says that a reader with the
lock sees half of nothing else.

Bounds: two threads, three calls each, at most three tables registered at a
time (two of each in `ThreadsExit`).  Three calls are what it takes one thread to
load, erase and read again while the other does the same; a third thread adds no
new pair of locks.  The tables cover the four ways to load: the default, a file, a
file that is missing, a string.  The number of calls is bounded, hence `CHECK_DEADLOCK
FALSE`: when all calls are done the model stops.

Fairness (`FairSpec`): `WF_vars(Step(t))` for each thread: a thread inside a call
is scheduled.  Weak fairness is enough for the mutexes too, because the other
threads have a bounded number of calls in front of it; the model does not claim
that the platform's mutexes are fair.  `CallsReturn` assumes that Exif readers come
out of the XMP accessor, because `ThreadsExit` shows that they may not.

### SharedObjects

`SharedObjects.tla` models how threads share metadata objects: the use count in
the object, the smart pointers, and one registry of prototypes.

| Model | Code |
|---|---|
| `live` | the addresses at which an object is constructed and not deleted |
| `count[o]` | `EkRefCount::mUseCount` |
| `ptr[p]` | `EkConstSmartPtr::mPtr`; p is a local of a thread or the entry of a key in `mRegistry` |
| `lock` | the owner of `mRegistryLock` |
| `pc`, `dst`, `old` | where a thread is in `operator=`, the pointer it has overwritten and not yet counted, and `oldPtr` |
| `call` | the call of the registry a thread is in, with its arguments |

`Assign` is the body of `operator=` up to its first call.  `addRef`, `deleteRef`
and `Delete` are the steps after it: each is atomic, because it takes the mutex
of the object or is a locked instruction, and other threads come between them.
Constructors and destructors are assignments to and from NULL.  The calls of
the registry (`create`, `get`, `addEntry`, `removeEntry`, `clear`) run the same
steps under the lock from `Begin` to `Leave`.  A deleted address may be
allocated again.  An allocation may fail, and then the guard unwinds
(`NoClone`).  Temporaries of a call are left out: the pointer of the caller, or
the entry under the lock, holds their object while they exist.

`ObjectLifetimes.tla` is what the counting is for: an object may be deleted
only when nothing points at it, is then deleted, and is reached only by copying
a pointer that points at it.  `Implements` says that `SharedObjects` is an
implementation, with `ptr` for `points`.

| Run | What it shows |
|---|---|
| `SharedObjects` | `Counted`: the count is exact at every step, also of assignments that have begun; `NoUseAfterDelete`; `Implements` |

`addEntry` keeps the object that was passed, though its documentation says a copy
(`EkFactoryT.h:249`); the model does what the code does.

Bounds: two threads with two pointers each, one key, three addresses.  Two
pointers are what a copy within a thread takes; the threads meet at the entry
and at the objects they got from it.  Three addresses let the prototype, a
clone and a third object exist at once, and are few enough for every address to
be used again.

Fairness: `WF_vars(Step(t))`: a thread in the middle of an assignment or of a
call of the registry goes on.  Waiting for the lock is the beginning of a call,
to which no fairness applies, so nothing is assumed of the mutex.

### Accessors

An accessor reads, writes and removes metadata leaf by leaf, between a tree the
application has and a file.  `Accessor.tla` is the base class: the loops of
`readMetadata`, `readMetadata(nameSpace)`, `writeMetadata` and `removeMetadata`
over a subtree, and the errors that are collected or thrown.  What gets, sets
and removes one leaf is a parameter; each format adds its own state.
`FileAccessors.tla` puts the accessors of DIG35, JPEG 2000, TIFF and XML files
side by side and states what they all promise, and is what the proofs are about;
`Accessors.tla` adds the QuickTime accessor, which only reads, and the faces of
an image, both trees of atoms whose operators are recursive.

| Model | Code |
|---|---|
| `md`, `throwErrors`, `errors` | the application's tree; `mThrowErrors`, the length of `mErrors` |
| `disk` | the files: a document, a sequence of boxes, a set of entries, words with atoms, printed leaves |
| `mDoc`, `mFileName`, `mMode` (`Dig35Accessor`) | the DOM document as the sequence of its nodes, elements and texts, with their depths |
| `hasDig35`, `mJP2Sink`, `j2kFile` (`J2kAccessor`) | `mDIG35Accessor`, the target of a new file, the source |
| `mImgFile`, `mOwnImgFile`, `mImgAccessor`, `tiffRow` (`TiffAccessor`) | the image file with its entries, who deletes it; what is particular about a leaf's row of the translation table |
| `qtFile`, `mAtoms` (`QtAccessor`) | the file, and the atoms that were read, which are never cleared |
| `mRootMd`, `mFstream`, `xmlFile`, `mOpenMode`, `mInSync`, `mURIMap`, `mMdFactory` (`XmlAccessor`) | the members of the instance interpreter |
| `shared` (`XmlAccessor`) | the application's root is the interpreter's own (`md = mRootMd` in `read`) |
| `scene` (`Faces`) | the objects of `SceneContent.Faces`, each with its features |

An accessor has one user and its calls are plain sequential code: each is one
step, with everything it calls.  In the QuickTime model a file is its words, and
reading is the code's arithmetic on sizes, counts and skips, with what
`GetNextAtom` refuses.  In the DIG35 model a document is searched as the code
does it, in the whole document and not below the parent, and the value of an
element is read from its first child, be that a text or not.

The boxes of a JPEG 2000 file are read in their order; the code that would go into
super boxes is commented out (`PmtJ2KAccessor.cpp:293`).  A box that is no XML
throws out of `open`, because `append` catches `DOMException` only, and what was
appended before it stays.  In the TIFF model `readMetadata(nameSpace)` throws where a
row of the table names no directory, though errors are to be collected: its loop has
no `try` (`PmtTiffAccessor.cpp:215`).

What is particular to the XML accessor: its leaves are strings, at the top or
in a block, and attributes, nillable elements and `setNSPrefix` are left out.  A
tag that carries an occurrence number is printed as it is, with the brackets,
and such a file is `Malformed` from then on.  A metadatum of another name space
is refused without a word.

| Run | What it shows |
|---|---|
| `Accessors` | `SetReadsBack`: what is set in a DIG35 document reads back, unless an element stands in front of its text, and disturbs no leaf with a text whose element has another name; `NoChangeLost`: when a file is no longer open for writing, it holds what it was to hold; `OnlyOwnFileChanges`; `FirstBoxWins`: of the XML boxes of a JPEG 2000 file; `QtReadsTree`: reading the words of a file gives back the tree they were written from; `FacesReadBack`: faces that are saved read back in their order, with the first feature of each type, and what was read is saved and read again as the same scene |

Bounds: three leaves, of which one may lack a row; three files, of which one may
be created and two are inputs (one that parses, one that does not); one value,
because a leaf without a value is a second one; one error is counted.  A DIG35
document has at most four elements, which lets a block with two leaves stand
under its root.  Reading QuickTime files is repeated up to four atoms, with two
of four trees: data before the movie, two tracks, user data that ends early, an
atom of 64 bits, containers of one header.  The XML files have three schemas:
single leaves, the same in a name space, and a key that may occur twice.  Scenes
have up to two faces with two features each, after two changes of the user to
one of two values of other writers, between which there may be any number of
saves.  The run has 606,317 states.

Faces.  `FaceAtoms.tla` is the buffer of atoms: sizes, types, and what each kind
of atom writes of a text and reads of its bytes; `Faces.tla` is
`PmtFaceTranslator::assign`, which makes the buffer of the metadata and the
metadata of the buffer.  What the code does, and the model with it:

- the first face that is read goes to `Object[1]`, since `getMetadata` does not
  answer with composites, and the first feature to `Feature[1]`: the places at 0
  stay empty;
- the first feature of a type counts; `Data` hides `Value`; a rational is written
  over 10^(8-k): the denominator is divided by ten for each digit before the point,
  so a coordinate above ten loses decimals, and one below -21.47 overflows an int;
  the odd byte of a name is dropped;
- reading again into the same metadata mixes the faces of the two files;
- `setMdValue` of the Exif accessor, which should pass `SceneContent.Faces` to the
  translator, climbs from a leaf with an inverted comparison past that composite
  (`PmtExifAccessor.cpp:1737`), so that `writeMetadata` writes no faces, and uses a
  metadatum it has found to be null (`:1750`).  `SaveFaces` is therefore a call of
  the translator;
- the loop over the faces does not end when `GetNextAtom` answers null
  (`PmtFaceTranslator.cpp:101`), and an outline without points makes a size wrap
  around; no value here is like that.

In the QuickTime model a handler atom answers under the key of a track header
(`PmtQtAtoms.cpp:339`), as in the code.

`NoChangeLost` leaves one case out: an XML accessor that is opened again without
a close loses what was not flushed, since `open` throws the tree away
(`PmtInstanceInterpreter.cpp:113`).

### EmbeddedXmp

`XmpAccessor.tla` models the accessor of XMP packets and the manager of the
block a packet is in; `ExifAccessor.tla` the accessor of Exif files, which has
one inside; `EmbeddedXmp.tla` the two side by side.

| Model | Code |
|---|---|
| `xmp.node`, `xmp.root` | `mpXMPNode`, what the RDF nodes say of each leaf; `mRootMetadata` |
| `xmp.built` | that `mpRDFNode` and `mpRDFDescNode` point into the nodes |
| `xmp.block` | `mBlockManager`: the bytes as cells with text or blank, the encoding, `bReadOnly`, `mMetadataSize` |
| `xmp.mOpenMode`, `xmp.file`, `xmp.mStartPosition` | the members of these names |
| `exif.content` | the tags, the quantisation tables and the XMP segments of the open file |
| `exif.mTtPosition` | where in the translation table the last search ended |
| `exif.mnXMPLength` | `mnXMPLastBytes - mnXMPOffset`, which no close resets |

| Run | What it shows |
|---|---|
| `EmbeddedXmp` | `XmpCopiesAgree`: the metadata and the nodes say the same; `NoStaleText`: no text of an earlier, longer packet in UTF-8 stays behind the new one; `XmpSavesAll`: what could be read just before a close is in the packet after it; `ExifReadsAgree`: the search from where the last one ended finds what a search from the beginning would; `ExifSavesPacket`: the packet is saved in one segment, with what the XMP accessor says |

`SetMdValue` updates a node only if the text is not empty
(`PmtXMPAccessor.cpp:549`), after the empty text went into the metadata: the node
keeps the text it had, and the packet that is saved has it.  The three properties that compare the two sides are
therefore about texts that are not empty.

Removing a quantisation table from an Exif file removes it from the packet before
it throws, and so does the model.  What `removeAppSeg` and `insertAppSeg` of OpenExif
do with several segments of one name is not in this repository: the first is taken
to remove the first of them, the second to put the new one behind the others.
`ExifSavesPacket` depends on it where a file has several.

Bounds: two leaves, three files: packets in UTF-8 with room and in UTF-16
without, one without a mark of its encoding, a malformed one and one that may
not grow, alone and as the second segment of an Exif file.  `ExtendUnit` is 2 for
the 1024 bytes of the code, and a text takes one cell more than it has leaves, so
that a packet fits, shrinks, and grows by one unit and by two.

### XmpMetadata

`XmpAccessor` takes the text of a packet as one; `XmpMetadata.tla` looks inside.
It models the same accessor value by value: the metadata it reads of the nodes,
the nodes it writes for a metadatum, and the packet the nodes are saved as and
read from again.  `XmpNodes.tla` is the tree of nodes with its searches, updates
and merging, and what of it is lost in the text; `XmpTypes.tla` the conversions
between texts and values.

| Model | Code |
|---|---|
| `tree` | `mpXMPNode` below `xmpmeta`: `XMPDataNode` with its attributes, sub nodes and content |
| `root` | `mRootMetadata`: the value of each key of the theme, and whether the composite `SceneContent.UserComment.MS` was created |
| `theme.rows` | the rows of the translation table for the keys of a behaviour, in its order |
| `outcome` | what the call answered, or that it threw |
| `wrote`, `again`, `torn`, `touched`, `spoilt` | history: what was set, what the next reader would find, the lists whose items went apart, whether anything was changed, whether something went in that no packet can hold |

| Run | What it shows |
|---|---|
| `XmpMetadata` | `WritesReadBack`: the packet parses, and a value `setMdValue` answered true for is read by whoever opens it next, as exactly as its type allows; `ListsAgree`: the items of a list are the same in the metadata and in the nodes; `UntouchedReadsSame`: a packet that is opened and saved without a change reads the same; `OthersUntouched`: setting or removing one metadatum changes no other that is not read from the same nodes |

Bounds: nine themes, one for each group of keys that have to do with each other
(two keys of one node; the flash and its members; lists and the composite they
are in; structures; dates and coordinates; markup and prefixes; bytes; lists of
numbers; languages and durations), with one to three packets each, which may be
opened and appended; items of lists at 0 and 1.  The run has 46,669 states.

What the properties leave out is what the code does not do, met while modelling:

- a member of the flash that is set before there is a `Flash` node, then the flash
  itself, leaves the member twice, and the old one is read;
- a key that is in the packet as a node and as an attribute reads differently after
  a save (`Once`);
- the values of attributes are not encoded, and `photo:Rating` has a name space
  without prefix: such packets do not parse (`spoilt`);
- the sizes of a CFA pattern are written as booleans, and a time stamp as a date of
  the year 0: neither is read again; the fields of a duration are looked for in the
  name space `xmp/1.0/mm/`, and the value that is written is uninitialised;
- the bits of the flash byte are taken with the masks 0x10, 0x20 and 0x14, though
  `XMPTypeTranslater.h:255` describes others;
- authors and keywords are read only where the composite is there already (`torn`).

### Schemas

`SchemaHandler.tla` models how a schema is read, one callback of the SAX parser
at a time; `SchemaFactory.tla` how what was read becomes prototypes in the
factories; `Schemas.tla` a load: a file, the files it includes, the factories,
and the same load again.

| Model | Code |
|---|---|
| `h` | the handler: `mComplexParent`, `mElement`, `mCurrentType`, `mCurrentAttribute` and its flags, and the items of `PmtOrder.h`, numbered as they are made |
| `h.strayed`, `h.lost` | history: an end of a choice was taken for that of a complex type; a reference was met before what it names |
| `rest`, `open` | external: the events to come, and the elements of the document that are open |
| `factory`, `attributes` | the prototypes by their full keys, with model groups and key lists, and those of attributes |

The end of a choice deserves a word: `endElement` looks at the eighth character
of a name that begins with c, and *choice* has six.  What is behind it in memory
decides, so the model takes both outcomes.

| Run | What it shows |
|---|---|
| `Schemas` | `ParentIsInnermost`: what a declaration is added to is the innermost open complex type; `DeclaredKeys`: a load that succeeds gives the factory the keys the document declares, with their types, and nothing else; `ReloadKeeps`: a second load takes nothing from a prototype and changes neither its type nor its facets |
| `ReloadsEnd` | finding: the second load of a schema whose root has a repeated complex element dereferences null |

A second load does not find the children of the root again: `createMetadata` looks
them up under the base name of the root, which is empty, a dot and their name
(`PmtSchemaSAXParser.cpp:617`), and no key begins with a dot.  So it goes through
`addTreeToFactory` once more, adds attributes, keys and model groups a second time,
and where an element is in the factory already and may occur several times it uses
the prototype it did not make (`:671`).

Bounds: 135 documents: every order of the five declarations of one schema and
of the four of an included file, which is what the order of declarations can do
to pointers that go stale; and documents for what needs one more thing (a type
derived twice, a type used twice, an unsupported type, an anonymous type, a
reference).  Two loads.

`DeclaredKeys` says nothing of documents in which the handler strayed or a
reference was lost: there the code does drop declarations.  A load that loops or
dereferences null is a status that nothing leaves; no document is required to
end, and `Rest` says that nothing more happens.

### Default definitions

The default schema and the default translation table are compiled in.
`DefaultTables.tla` has both, row by row, as the generated headers do;
`PreparsedSchema.tla` models how the first is entered into the factory;
`Translators.tla` the conversions between the C types of files and of metadata;
`Translations.tla` a metadatum and the entry of a TIFF or Exif file it is saved
to; `DefaultSchema.tla` puts them together: metadata are made of the prototypes
that were loaded, and translated by the rows the table has for their keys.

| Model | Code |
|---|---|
| `PmtDefaultPreparsedSchema`, `defaultTranslationTableArray` | the arrays of these names: 363 and 236 rows |
| `factory` | the prototypes by their keys: the row each was made of, the row of the table that gave its URI, the composite whose model group lists it |
| `index`, `compositeStack`, `fullKey`, `modelGroupStack`, `transTable`, `returnValue` | the locals of `parseDefault`; `fullKey` is the key from whose end a composite that ends is cut off, kept as its beginnings |
| `msDefaultSchemaLoaded` | the static of the interpreter |
| `row` | what the table says of the metadatum's key for one format |
| `md`, `entry` | the values of the two sides, with history: what they were before they were first translated |
| `success` | what `getMdValue` or `setMdValue` answered, or that it threw |

`ReadRow` is one turn of the loop of `parseDefault`, and each of its branches an
action.  A schema of the user may be there before (`UserKeys`): it has the root
already, and may have a key of the default schema, at which the load ends.
Numbers are counted in halves, so that what a cast cuts off and the smallest
float above zero are values too, and wrap around in the width of their type.
A value goes through a buffer the code casts by hand: when entry and translator
are of different types, what is read is whatever is in memory (`Memory`).

| Run | What it shows |
|---|---|
| `DefaultSchema` | `LoadedIsWhole`: the schema is taken for loaded exactly when every element of it is in the factory, under the key of its place; `UriOfKey`: where the search in the table begins does not matter; `Survives`: what both sides can hold comes back, however often it is saved and loaded; `Saturates`: what one side cannot hold becomes one of those next to it that both can; `OnlyShortsMisread`: no row of the default table reads or saves an entry by another type than it has, but for shorts under rows of longs |
| `LoadedWholeOn64Bits` | finding: `parseDefault` keeps the place of a dot in an `unsigned int` and compares it with `npos`, so that with sizes of 64 bits the key is never cut back to nothing, and all that is behind the first composite of the root gets its name in front |

`SizesAre64Bits` says whether `size_t` is wider than `unsigned int`.  `DefaultSchema`
is a build of 32 bits, with longs as wide as ints; `LoadedWholeOn64Bits` one of 64,
with longs that are wider.  That values survive and saturate there too, the theorems
say, for every width.

Floats hold every half up to `FloatExact`, and above it only every second integer;
doubles likewise up to `DoubleExact`.  An integer that a float does not hold is
rounded when it is cast, and so is the limit of an integer type that a float is
compared with.  Casting a float that is too large to an integer is undefined; the
model takes the smallest integer, as x86 does.

Bounds: the tables are whole.  The widths are 1, 5 and 13 for the largest signed
char, short and int, 13 (29 in the build of 64 bits) for long, 60 and 62 halves for
float and double, and 12 and 28 for what these hold exactly: each type but long is
wider than the one before, also without a sign, a short fits a float, an int fits a
double but not a float, and a wide long fits neither.  Lists have one or two values, at and around the limits of
the types.  The user's rows are every pair of a translator of numbers and a type it
accepts, and five with a mistake.

`Saturates` leaves out the rows that take values for others (`Reinterprets`):
unsigned metadata in entries of signed bytes, long metadata where int is
narrower, and floats between doubles, whose lower limit is `FLT_MIN`, so that
zero and below are saved as a number above zero (`PmtTranslator.cpp:742`); and the
values from a limit on that a float rounds (`PastRoundedLimit`): the float next above
the largest integer is not above the limit it is compared with, which was rounded to
it, and is cast to the smallest integer (`PmtTranslator.h:201`).
Left out are the text that the ascii translator makes of numbers, lists without
values, sound, faces and quantisation tables.

`Accessors`, `EmbeddedXmp`, `XmpMetadata`, `Schemas` and `DefaultSchema`, and the
findings about the same models, state no fairness, and no liveness is claimed: calls
are one step each, or steps nothing can delay, and nothing makes an application call.

## Proofs

Seven modules prove theorems about seven of the models, for every value of the
constants that satisfies the modules' assumptions (any schema, any number of
objects, threads, tables, calls, pointers, keys, addresses, events, widths, rows,
leaves, files and packets); an eighth, `Induction.tla`, holds what they share.
Each goes by the usual three facts about an inductive invariant, which is named
below with the reason it is needed.

### MetadataTreeProofs

- `TypeCorrect`, `Numbering`, `Choices`, `Bounded`: `TypeOK`,
  `OccurrencesNumbered`, `ChoiceExclusive`, `WithinMaxOccurs` are invariants;
  `Filled`: `FilledToMinOccurs`.
- The invariants do not carry themselves.  That objects stay numbered while a
  call creates in a composite needs that the composites of the stack were
  created; that a deletion does not cut too far needs lengths and numbers
  together; `okToCreate` looks at one choice at a time and needs that the items
  of one group share no key (`KeysUnderAssumption`).
- Lemmas state what `CreateMissing` and `deleteMetadatum` do to one element and
  that they leave all others alone; each action then follows from the lemma of
  the heap operation it contains.
- `RootedAlways`: an object is below a composite that is older than it and whose
  schema has its key.  So parents are numbered before their children, `Below` is
  a function over the numbers whose equation has a solution (`BelowCharacter`,
  from `ReachedExists` of `Induction`), and the objects in the tree are the ones
  the elements hold (`InTreeKids`).
- `FindsPath`: `GetMetadatumFindsPath`.  The invariant `GetInv` says that the
  record of a running `getMetadatum` is at the end of the walk its path takes
  from the receiver up to here (`IsWalk`), and that the object the path named at
  the call, if any, is still what the path names: creating adds at the end of an
  element and stops no walk (`WalkStays`).
- `DeletesNamed`: `DeletesWhatIsNamed`.  `DelInv` says of every record of a
  running deletion that it is on the path before its first wildcard and at or
  below the receiver (`Deleting`), and of what is gone that it could be removed
  (`Removable`).  For a path without wildcards every record has one occurrence,
  and nothing is gone until the top one has passed it, when exactly the object is
  that `Find` answered at the call.  Of other paths it carries no more
  than `DeleteStaysInPath` says, which is about keys: the objects behind a deleted
  one are renumbered while the loop goes on with the numbers of the path, so which
  of them go is a matter of the order of the numbers (`DescendingListDeletesNamed`).
- `GetsEverything`: `EmptyKeyGetsEverything`.  `AllInv` says of the records of the
  traversal that the iterator has each leaf they have passed (`Done`) once, that
  each record is at the occurrence whose composite the record above it is in, and
  that the records below the top have not passed any of its leaves; that the keys
  of a composite are distinct and that two children have no leaf in common
  (`LeavesDisjoint`) carries it over each step.
- What is assumed of the schema is what the parser makes: the keys of one
  composite are distinct (`addMetadataKey` makes an element once), and an
  occurrence has numbers exactly when it is a list (`PmtOccurrence`).

### TranslationTablesProofs

- `TypeCorrect`: the types, and that each mutex is owned by exactly the thread
  whose guard is alive, also while an Exif reader that holds the one is inside
  `loadIfAny` and holds the other.
- `Coherent`, `SeenIsCurrent` (with its parts `ReadsKnown` and `WholeButDefault`),
  `AllLoaded`, `Stable`: the safety properties of the run, with and without packets
  in Exif files.  `ReadsKnown` is about every reader, one without the lock until its
  column is deleted or moved; `WholeButDefault` and `Stable` are about readers that
  hold the lock; of the others they do not hold (`NotDeletedInUse`).
- The invariant `IInv` adds what is true inside `loadIfAny`: at iteration i the
  table is exactly the first i-1 registered files (`TableInv`), only the last
  entry can be incomplete and only while its loader parses it (`WholeInv`), and
  every entry that a reader can see was registered during its call, or the
  erased flag is up (`RegInv`).  That a reader inside the XMP accessor parses no
  table that takes the lock is part of `TypeOK` (`Positions`): it would wait for
  itself.

### SharedObjectsProofs

- `TypeCorrect`, `CountsExact`, `Safe`, `FirstEntryWins`: `TypeOK`, `Counted`,
  `NoUseAfterDelete`, `EntriesStay`; `ImplementsSafely`: the detailed module
  implements `Lifetimes!SafeSpec`, which is `Implements` without its fairness.
- Exact counts are not enough: an object that a thread has read and not yet
  counted is not in its count.  `Pending` says what protects it: the object is
  new and nobody else knows it, or it came from a pointer that this thread alone
  overwrites, its own or an entry under the lock, and that pointer is counted.
  From this `LastIsAlone` follows: who counts down to zero is the only one that
  has the object.
- `Kinds` sorts the steps into six kinds (assign what is shared, assign what is
  new, move on, count up, count down, delete), so each action is looked at once
  and each property is proved for the kinds.

### SchemaHandlerProofs

- `HandlerSpec` is the handler by itself, reading any sequence of events of any
  nesting the content model allows, one file after the other.  What `Schemas`
  does to the handler's variables are steps of it.
- `ParentCorrect`: `ParentIsInnermost` is an invariant of it; `HandlerFollows`:
  the invariant it follows from.
- `ParentIsInnermost` looks at the innermost open element only, and the end of
  that one brings out the next, so the invariant `Good` speaks of all that are
  open: they nest as the content model says, with nothing beside simple content
  (`Nested`); the pointers are of items there are, and the annotation flag is up
  exactly within an annotation, where no callback counts (`Reads`); and the items
  of the open complex types are chained by their parents, in the order they were
  made (`Follows`).  When a choice has led the
  handler astray nothing more is claimed.

### DefaultSchemaProofs

- `RoundTrips`: `Survives` is an invariant of `Translations`, for all widths in
  order (`WidthsAssumption`) and any rows, those of the default table included;
  `DefaultRoundTrips`: it is one of `DefaultSchema`, where metadata are made of
  what was loaded.
- What one translation does to a value is the lemma `AssignKeeps`: a value both
  types hold is within the limits that are asked for, of whichever is the
  narrower, rounded or not, and a cast leaves it as it is.  The one branch of the
  char translator for both types of two bytes needs that a char is within a short.
  The invariant `KeptInv` adds to `Survives` that what has an origin has a first
  value, which singular metadata take.
- `Saturation`: `Saturates` is an invariant.  It speaks of what was first given;
  the next translation sees what the last one made of it, so `SaturatesInv` says
  of every value that it is of the type its side holds and is what was given, or is
  past a rounded limit, or is one of the values next to it that both sides hold.
  That a clamp and a cast lead to one of these is `ClampIsNearest` and
  `CastIsNearest`, and what a limit rounds to `LimitIsNear`; that another translation
  leaves such a value alone follows from `AssignKeeps`, since both sides hold it.  A
  row whose translator does not take the metadatum changes nothing, which the
  invariant says too.
- `UrisOfTheirKeys`: `UriOfKey`.  `UriInv` drops its hypothesis that a load has
  ended and adds that the search goes on at a row of the table; `FindRowFinds`
  says that a circular search finds a row of the key wherever it begins.

### EmbeddedXmpProofs

- `CopiesAgree`, `TextIsClean`, `ReadsAgree`: `XmpCopiesAgree`, `NoStaleText`,
  `ExifReadsAgree` are invariants; `ClosingSaves` and `ClosingSavesPacket`: the
  action properties `XmpSavesAll` and `ExifSavesPacket`.  What they compare are texts
  that are not empty, as in the run.
- `XmpCopiesAgree` is about an open accessor, and the one inside an Exif accessor
  goes from file to file without a close, so the invariant `IInv` says `Agrees` of
  every state an accessor can be left in, and of the block what a save needs: its
  sizes add up, and behind the text are blanks.  `ExtendsEnough` is the arithmetic
  of growing by whole units.
- `ExifReadsAgree` compares a circular search from `mTtPosition` with looking leaf
  by leaf.  It holds from a position at which a tag begins only (`AtEdge`): from
  the middle of the rows of a tag, the search would miss those before.  That
  every search ends at an edge is `EntryRows`, and that the entries of a file are
  found one after the other `EntriesRows`.

### FileAccessorsProofs

- `SetsReadBack`: `SetReadsBack` is an invariant of `FileSpec`; `OnlyOwnFiles`, `NothingLost`: the action properties
  `OnlyOwnFileChanges` and `NoChangeLost`.
- `FileSpec` is the part of `Accessors` that may change a file; the steps of the
  other two formats leave all variables of these properties as they are but the
  application's metadata.
- `NoChangeLost` needs to know that a document that is open is a document, what
  kind of thing each file holds, that an accessor has to do with files of its own
  format only, and that the TIFF accessor owns its image file exactly while it is
  open: `FileTypeOK` and `OwnFormat`, together `FileInv`.
- For XML the file must read back as the tree that was printed (`PrintedReads`):
  what the loop over the leaves prints is taken apart by the loop over the
  elements, so the two runs are followed side by side (`PrintWalk`,
  `ParseWalk`).
- `SetReadsBack` follows one path through a document kept as a sequence: a new
  element goes behind the subtree of its parent (`ChildAppended`, with `Splice` for
  what moves), a walk down the names either finds or makes a node of each
  (`NodeWalk`, `NodeCreated`), and only names on the way are first met elsewhere
  (`SetReads`).

### Loops in proofs

The loops of the code are functions over 0 .. n in the model.  The induction
theorems of the library take a predicate as a parameter, which no prover here can
instantiate; `Induction` states induction for sets (`SetInduction`: a set with 0
and with each number the next has all of them, and `StrongInduction`, with each
number that has all smaller ones), from the well-foundedness of the naturals, and from it what such functions need: that a loop of n turns has a run
(`RunExists`, for what `CHOOSE` picks in a recursive function exists), and that a
run stays in a set its turns stay in (`RunStays`).  `ReachedExists` gives the set
of what is reached from some objects through a function, as the
objects below a composite are.

### Only model-checked

- The liveness properties (`CallsReturn`, and the fairness of `Implements`):
  liveness under fairness is not within the prover's reach.
- The properties of `Schemas` but `ParentIsInnermost`, all of `XmpMetadata`, and
  `QtReadsTree` and `FacesReadBack`: their modules need recursive operators, for
  the recursion of `addTreeToFactory`, for trees of nodes and of atoms, and
  modules with these cannot be proved about.
- `DescendingListDeletesNamed`: it takes an induction over the numbers of a list
  while the loop over them runs.
- `LoadedIsWhole` and `OnlyShortsMisread`: they are about the rows of the two
  tables, which TLC evaluates.
- `FirstBoxWins`: it does not hold for every choice of tags.  A box may have the
  last name of a tag without the path to it, and then hides the element of a later
  box; the tags and boxes of the run have no such case.

`EntriesStay` (an entry of the registry is not replaced) and the three `TypeOK` of
`MetadataTree`, `TranslationTables` and `SharedObjects` are proved and are in no run.

## Plan

1. Done: `MetadataTree`, `TranslationTables`, `SharedObjects` with
   `ObjectLifetimes`, and their proofs.
2. Done: the accessors, `Accessors` and `EmbeddedXmp`.  Left: what of the Exif
   accessor is about headers, sizes and audio; the XMP packet of a QuickTime file.
3. Done: `Schemas` and the proof of the handler.  Left: name spaces, minOccurs,
   defaults.
4. Done: `DefaultSchema` and the proof of `Survives`.  Left: text, and
   values the accessors convert by themselves.
5. `CloneTree`: `clone` and `operator=`; what is shared between a copy and its
   original.  With it the map of registries of `PmtMetadataFactories`, which has
   no lock and whose erasure leaves roots with a factory that is gone, and
   pointers inside objects.
6. `Aliases` and `Keys`: parsing of keys and occurrences, aliases in
   `getMetadata` and `deleteMetadata`, checked against a reference.
7. Done: `XmpMetadata`, the nodes of XMP as a tree and its types, and
   `Faces`.
8. Done: the proofs of the accessors, of the embedded packets, of the default
   definitions, and of what the calls on the metadata tree answer and remove.

## Not modelled

Facets and the text of keys are functions over data; item 6 takes the ones with
rules.  Visitors and the Ek wrappers of mutexes, threads and
strings have no state of their own.  The PNG accessor is never compiled: its
guard is `PMT_PMG_ACCESSOR`, and what the configuration defines is
`PMT_PNG_ACCESSOR`.  The image accessors copy rectangles of pixels.
Exceptions of the XML parser inside a schema or a table are not modelled:
these documents are well-formed, those in JPEG 2000 boxes and DIG35 files need not be.  The example programs (with a copy of a PhotoCD
library and of user interfaces), the tests and the build are read as
documentation.  Those are most of the lines of the repository that
no module models.
