------------------------- MODULE TranslationTables -------------------------
(***************************************************************************)
(* How the translation tables that the definition interpreter registers    *)
(* (PmtLogicalDefinitionInterpreter::msTtbFiles) reach the one table that  *)
(* every accessor of the process reads (PmtAccessor::msTranslationTable).  *)
(*                                                                         *)
(* Threads load and erase schemas, read XML instances, and read or write   *)
(* metadata through accessors.  Two mutexes are shared: msLoadLock of the  *)
(* interpreter and msLock of the table.  A call of the interpreter holds   *)
(* msLoadLock from its first statement to its last and reads nothing that  *)
(* other threads change without it, so each is one action; an accessor     *)
(* takes both locks, in several critical sections, and is cut into steps.  *)
(*                                                                         *)
(* The accessors do not read the table alike.  TIFF, Exif and DIG35 hold   *)
(* msLock from the lookup of their column to the end of the loop over it.  *)
(* XMP and QuickTime take no lock, and may walk a table that is deleted    *)
(* under them.  Exif, while it holds msLock, opens the XMP accessor on the *)
(* packet of the image, whose Initialize calls loadIfAny again.  A mutex   *)
(* is the pthread mutex of EkMutex.h, which no thread may lock twice.      *)
(*                                                                         *)
(* The table is abstracted to one entry per registered file, in the order  *)
(* of loading; an entry is whole once the last element of its file is in.  *)
(***************************************************************************)
EXTENDS Naturals, Sequences, FiniteSets

CONSTANTS
  Thread, NoThread,
  Table,            \* the translation tables: files, in-memory tables, the default
  DefaultTable,     \* DEFAULT_TRANSLATION_TABLE, compiled in
  MemoryTable,      \* the tables given as a string
  MissingTable,     \* the files that the path lookup does not find
  NoTable,          \* the empty string in place of a table
  Schema,           \* the schema files
  Info,             \* the schema-information files
  Unreadable,       \* those that cannot be read
  FirstSchema,      \* the schema of the first row of each of the others
  LastSchema,       \* and of its last row
  TablesOf,         \* and the tables that its rows name, in their order
  XmpInExif,        \* PMT_XMP_ACCESSOR is defined, and there are JPEG files with packets
  MaxFiles,         \* bound: the tables registered at one time
  MaxCalls          \* bound: the calls of one thread

ASSUME ThreadAssumption == NoThread \notin Thread
ASSUME TableAssumption ==
  /\ DefaultTable \in Table \ (MemoryTable \cup MissingTable)
  /\ MemoryTable \subseteq Table
  /\ MissingTable \subseteq Table \ MemoryTable
  /\ NoTable \notin Table
  /\ Unreadable \subseteq Info
  /\ FirstSchema \in [Info -> Schema] /\ LastSchema \in [Info -> Schema]
  /\ TablesOf \in [Info -> Seq(Table)]
ASSUME BuildAssumption == XmpInExif \in BOOLEAN
ASSUME BoundAssumption == MaxFiles \in Nat /\ MaxCalls \in Nat

VARIABLES
  loadLock,             \* the owner of msLoadLock
  msLock,               \* the owner of PmtTranslationTable::msLock
  ttbFiles,             \* msTtbFiles
  erased,               \* msErased
  ttbFilesChanged,      \* msTtbFilesChanged
  defaultSchemaLoaded,  \* msDefaultSchemaLoaded
  loadedSchemas,        \* mssLoadedSchemas
  table,                \* msTranslationTable
  translationTableLoaded, \* msTranslationTableLoaded
  pc,                   \* where the thread is
  file,                 \* i of the loop of loadIfAny
  pos,                  \* i of the loop over the elements of the table
  seen,                 \* the entries the loop may have read
  freed,                \* was the table deleted, or moved, under the loop without the lock?
  embedded,             \* has the Exif reader called mXMPAccessor.open?
  registered,           \* history: the tables registered at some time of the call
  calls                 \* the calls the thread has begun

interpreter == <<ttbFiles, defaultSchemaLoaded, loadedSchemas>>
reader == <<pos, seen, freed, embedded>>
vars == <<loadLock, msLock, interpreter, erased, ttbFilesChanged, table,
          translationTableLoaded, pc, file, reader, registered, calls>>

Entry == [file : Table, whole : BOOLEAN]

Tables(s) == {s[i] : i \in DOMAIN s}

-----------------------------------------------------------------------------
\* The definition interpreter

\* A call of the interpreter by an idle thread: it runs under msLoadLock.
InterpreterCall(t) ==
  /\ pc[t] = "idle"
  /\ loadLock = NoThread
  /\ calls[t] < MaxCalls
  /\ calls' = [calls EXCEPT ![t] = @ + 1]
  /\ UNCHANGED <<loadLock, msLock, table, translationTableLoaded, pc, file, reader>>

\* loadTranslationTableInformation, once per table of ts: msTtbFiles.push_back and
\* ttbFilesChanged(true).
Register(ts) ==
  /\ Len(ttbFiles) + Len(ts) <= MaxFiles
  /\ ttbFiles' = ttbFiles \o ts
  /\ ttbFilesChanged' = (ts # <<>> \/ ttbFilesChanged)
  /\ registered' = [t \in Thread |-> registered[t] \cup Tables(ts)]

\* load() and loadWithAliases(aliases): the default schema, until it loads.  It does
\* not where the factory has one of its keys already, from another schema or because
\* only another namespace was erased; its table is registered all the same.
LoadDefault(t) ==
  /\ InterpreterCall(t)
  /\ IF defaultSchemaLoaded
     THEN UNCHANGED <<ttbFiles, ttbFilesChanged, registered, defaultSchemaLoaded>>
     ELSE Register(<<DefaultTable>>) /\ defaultSchemaLoaded' \in BOOLEAN
  /\ UNCHANGED <<loadedSchemas, erased>>

\* load(uri) and loadWithAliases(uri, aliases): the schemas of a file.  Only the
\* first is looked up, and only the last is remembered.
privateLoad(t, info) ==
  /\ InterpreterCall(t)
  /\ IF info \notin Unreadable /\ FirstSchema[info] \notin loadedSchemas
     THEN /\ Register(TablesOf[info])
          /\ loadedSchemas' = loadedSchemas \cup {LastSchema[info]}
     ELSE UNCHANGED <<ttbFiles, ttbFilesChanged, registered, loadedSchemas>>
  /\ UNCHANGED <<defaultSchemaLoaded, erased>>

\* loadMemory(schema, table, aliases, root); NoTable is the empty string.
loadMemory(t, m) ==
  /\ InterpreterCall(t)
  /\ Register(IF m = NoTable THEN <<>> ELSE <<m>>)
  /\ UNCHANGED <<defaultSchemaLoaded, loadedSchemas, erased>>

privateEraseCommonKeepsFlag ==
  /\ ttbFiles' = <<>>
  /\ defaultSchemaLoaded' = FALSE
  /\ loadedSchemas' = {}
  /\ UNCHANGED erased

privateEraseCommon ==
  /\ ttbFiles' = <<>>
  /\ erased' = TRUE
  /\ defaultSchemaLoaded' = FALSE
  /\ loadedSchemas' = {}

\* erase() and erase(nameSpace): whatever the namespace, every table goes.
EraseDefinitions(t) ==
  /\ InterpreterCall(t)
  /\ privateEraseCommon
  /\ UNCHANGED <<ttbFilesChanged, registered>>

\* PmtXMLInstanceParser::parse holds msLoadLock while it parses.
BeginInstance(t) ==
  /\ pc[t] = "idle"
  /\ loadLock = NoThread
  /\ calls[t] < MaxCalls
  /\ calls' = [calls EXCEPT ![t] = @ + 1]
  /\ loadLock' = t
  /\ pc' = [pc EXCEPT ![t] = "instance"]
  /\ UNCHANGED <<msLock, interpreter, erased, ttbFilesChanged, table,
                 translationTableLoaded, file, reader, registered>>

EndInstance(t) ==
  /\ pc[t] = "instance"
  /\ loadLock' = NoThread
  /\ pc' = [pc EXCEPT ![t] = "idle"]
  /\ UNCHANGED <<msLock, interpreter, erased, ttbFilesChanged, table,
                 translationTableLoaded, file, reader, registered, calls>>

-----------------------------------------------------------------------------
\* The translation table

\* eraseTables() deletes the elements, which a reader without the lock may be walking.
eraseTables ==
  /\ table' = <<>>
  /\ freed' = [t \in Thread |-> freed[t] \/ pc[t] = "walking"]

EraseTableUnlocked == eraseTables

\* PmtTranslationTable::erase(): its guard waits for the readers that hold msLock.
EraseTable == msLock = NoThread /\ eraseTables

TakesLockInMemory(f) == f \in MemoryTable

\* load(filename) and loadMemory(table) keep msLock while they parse; load(), of
\* the default table, takes no lock.
TakesLock(f) == f # DefaultTable

-----------------------------------------------------------------------------
\* PmtAccessor::loadIfAny, the first thing that readMetadata, writeMetadata and
\* removeMetadata do, and that the XMP and DIG35 accessors do when they open

BeginAccess(t) ==
  /\ pc[t] = "idle"
  /\ calls[t] < MaxCalls
  /\ calls' = [calls EXCEPT ![t] = @ + 1]
  /\ pc' = [pc EXCEPT ![t] = "enter"]
  /\ registered' = [registered EXCEPT ![t] = Tables(ttbFiles)]
  /\ UNCHANGED <<loadLock, msLock, interpreter, erased, ttbFilesChanged, table,
                 translationTableLoaded, file, reader>>

Enter(t) ==
  /\ pc[t] = "enter"
  /\ loadLock = NoThread
  /\ loadLock' = t
  /\ pc' = [pc EXCEPT ![t] = "check"]
  /\ UNCHANGED <<msLock, interpreter, erased, ttbFilesChanged, table,
                 translationTableLoaded, file, reader, registered, calls>>

\* The interpreter was erased since the last call: so is the table.
CheckErased(t) ==
  /\ pc[t] = "check"
  /\ IF erased THEN EraseTable ELSE UNCHANGED <<table, freed>>
  /\ erased' = FALSE
  /\ pc' = [pc EXCEPT ![t] = "reload"]
  /\ UNCHANGED <<loadLock, msLock, interpreter, ttbFilesChanged,
                 translationTableLoaded, file, pos, seen, embedded, registered, calls>>

NothingToLoad == translationTableLoaded /\ ttbFilesChanged

CheckLoadedAppends(t) ==
  /\ pc[t] = "reload"
  /\ UNCHANGED table
  /\ pc' = [pc EXCEPT ![t] =
             IF NothingToLoad \/ ttbFiles = <<>> THEN "unlock" ELSE "loop"]
  /\ file' = [file EXCEPT ![t] = 1]
  /\ UNCHANGED <<loadLock, msLock, interpreter, erased, ttbFilesChanged,
                 translationTableLoaded, reader, registered, calls>>

\* What a failed load left is dropped before the files are loaded again.
CheckLoaded(t) ==
  /\ pc[t] = "reload"
  /\ IF ~ NothingToLoad /\ table # <<>> THEN EraseTable ELSE UNCHANGED <<table, freed>>
  /\ pc' = [pc EXCEPT ![t] =
             IF NothingToLoad \/ ttbFiles = <<>> THEN "unlock" ELSE "loop"]
  /\ file' = [file EXCEPT ![t] = 1]
  /\ UNCHANGED <<loadLock, msLock, interpreter, erased, ttbFilesChanged,
                 translationTableLoaded, pos, seen, embedded, registered, calls>>

\* A file is opened, under msLock or not, and its first element is inserted.
BeginFile(t) ==
  /\ pc[t] = "loop"
  /\ file[t] <= Len(ttbFiles)
  /\ LET f == ttbFiles[file[t]]
     IN  /\ f \notin MissingTable
         /\ IF TakesLock(f) THEN msLock = NoThread /\ msLock' = t ELSE UNCHANGED msLock
         /\ table' = Append(table, [file |-> f, whole |-> FALSE])
  /\ pc' = [pc EXCEPT ![t] = "parse"]
  /\ UNCHANGED <<loadLock, interpreter, erased, ttbFilesChanged,
                 translationTableLoaded, file, reader, registered, calls>>

\* Its last element is in.
EndFile(t) ==
  /\ pc[t] = "parse"
  /\ table' = [table EXCEPT ![Len(table)] = [file |-> ttbFiles[file[t]], whole |-> TRUE]]
  /\ msLock' = IF TakesLock(ttbFiles[file[t]]) THEN NoThread ELSE msLock
  /\ file' = [file EXCEPT ![t] = @ + 1]
  /\ pc' = [pc EXCEPT ![t] = "loop"]
  /\ UNCHANGED <<loadLock, interpreter, erased, ttbFilesChanged,
                 translationTableLoaded, reader, registered, calls>>

\* The path lookup fails: PMT_ACCESSOR_FILE_NOT_FOUND unwinds both guards and
\* leaves the call.
FileNotFound(t) ==
  /\ pc[t] = "loop"
  /\ file[t] <= Len(ttbFiles)
  /\ ttbFiles[file[t]] \in MissingTable
  /\ msLock = NoThread
  /\ loadLock' = NoThread
  /\ pc' = [pc EXCEPT ![t] = "idle"]
  /\ UNCHANGED <<msLock, interpreter, erased, ttbFilesChanged, table,
                 translationTableLoaded, file, reader, registered, calls>>

LastFileEarly(t) == file[t] >= Len(ttbFiles)

LastFile(t) == file[t] > Len(ttbFiles)

EndLoop(t) ==
  /\ pc[t] = "loop"
  /\ LastFile(t)
  /\ ttbFilesChanged' = TRUE
  /\ translationTableLoaded' = TRUE
  /\ pc' = [pc EXCEPT ![t] = "unlock"]
  /\ UNCHANGED <<loadLock, msLock, interpreter, erased, table, file, reader,
                 registered, calls>>

\* loadIfAny returns: to the reader that opens the XMP accessor, which then walks the
\* columns of XMP and of its own again, or to a call with its own column to look up.
\* With no metadatum to handle, the call returns.
Leave(t) ==
  /\ pc[t] = "unlock"
  /\ loadLock' = NoThread
  /\ pc' \in {[pc EXCEPT ![t] = next] :
               next \in IF embedded[t] THEN {"reading"} ELSE {"find", "look", "idle"}}
  /\ UNCHANGED <<msLock, interpreter, erased, ttbFilesChanged, table,
                 translationTableLoaded, file, reader, registered, calls>>

-----------------------------------------------------------------------------
\* readMetadata, getMdValue, setMdValue and getFormatInfo of the TIFF, Exif and DIG35
\* accessors

\* The loop over a column begins.
BeginLoop(t) ==
  /\ pos' = [pos EXCEPT ![t] = 1]
  /\ seen' = [seen EXCEPT ![t] = {}]
  /\ freed' = [freed EXCEPT ![t] = FALSE]

\* getSubTable finds the column of the format, under msLock, or there is none.
FindTable(t) ==
  /\ pc[t] = "find"
  /\ msLock = NoThread
  /\ IF table = <<>>
     THEN /\ pc' = [pc EXCEPT ![t] = "idle"]
          /\ UNCHANGED <<msLock, pos, seen, freed>>
     ELSE /\ pc' = [pc EXCEPT ![t] = "reading"]
          /\ msLock' = t
          /\ BeginLoop(t)
  /\ UNCHANGED <<loadLock, interpreter, erased, ttbFilesChanged, table,
                 translationTableLoaded, file, embedded, registered, calls>>

ReadElement(t) ==
  /\ pc[t] = "reading"
  /\ pos[t] <= Len(table)
  /\ seen' = [seen EXCEPT ![t] = @ \cup {table[pos[t]]}]
  /\ pos' = [pos EXCEPT ![t] = @ + 1]
  /\ UNCHANGED <<loadLock, msLock, interpreter, erased, ttbFilesChanged, table,
                 translationTableLoaded, pc, file, freed, embedded, registered, calls>>

\* PmtExifAccessor::getXMPDocs, at the first packet of the file: mXMPAccessor.open, and
\* in it Initialize, and loadIfAny, while the guard of readMetadata holds msLock.
OpenEmbedded(t) ==
  /\ XmpInExif
  /\ pc[t] = "reading" /\ pos[t] > Len(table) /\ ~ embedded[t]
  /\ embedded' = [embedded EXCEPT ![t] = TRUE]
  /\ BeginLoop(t)
  /\ pc' = [pc EXCEPT ![t] = "enter"]
  /\ UNCHANGED <<loadLock, msLock, interpreter, erased, ttbFilesChanged, table,
                 translationTableLoaded, file, registered, calls>>

EndReadLeaks(t) ==
  /\ pc[t] = "reading"
  /\ msLock' = IF pos[t] > Len(table) THEN NoThread ELSE msLock
  /\ pc' = [pc EXCEPT ![t] = "idle"]
  /\ embedded' = [embedded EXCEPT ![t] = FALSE]
  /\ UNCHANGED <<loadLock, interpreter, erased, ttbFilesChanged, table,
                 translationTableLoaded, file, pos, seen, freed, registered, calls>>

\* The loop ends at the end of the column, at the key it looks for, or with an error.
EndRead(t) ==
  /\ pc[t] = "reading"
  /\ msLock' = NoThread
  /\ pc' = [pc EXCEPT ![t] = "idle"]
  /\ embedded' = [embedded EXCEPT ![t] = FALSE]
  /\ UNCHANGED <<loadLock, interpreter, erased, ttbFilesChanged, table,
                 translationTableLoaded, file, pos, seen, freed, registered, calls>>

-----------------------------------------------------------------------------
\* ReadMetaData, WriteMdValue and removeMdValue of the XMP accessor, and readMetadata
\* of the QuickTime accessor, whose guard is commented out

LookUpTable(t) ==
  /\ pc[t] = "look"
  /\ IF table = <<>>
     THEN /\ pc' = [pc EXCEPT ![t] = "idle"]
          /\ UNCHANGED <<pos, seen, freed>>
     ELSE /\ pc' = [pc EXCEPT ![t] = "walking"]
          /\ BeginLoop(t)
  /\ UNCHANGED <<loadLock, msLock, interpreter, erased, ttbFilesChanged, table,
                 translationTableLoaded, file, embedded, registered, calls>>

WalkElement(t) ==
  /\ pc[t] = "walking"
  /\ ~ freed[t] /\ pos[t] <= Len(table)
  /\ seen' = [seen EXCEPT ![t] = @ \cup {table[pos[t]]}]
  /\ pos' = [pos EXCEPT ![t] = @ + 1]
  /\ UNCHANGED <<loadLock, msLock, interpreter, erased, ttbFilesChanged, table,
                 translationTableLoaded, pc, file, freed, embedded, registered, calls>>

\* What the loop reads where its column was deleted, or where it races with the
\* push_back of a load, is undefined: it may be anything.
WalkAstray(t) ==
  /\ pc[t] = "walking"
  /\ freed[t] \/ \E u \in Thread : pc[u] = "parse"
  /\ seen' = [seen EXCEPT ![t] = Entry]
  /\ freed' = [freed EXCEPT ![t] = TRUE]
  /\ UNCHANGED <<loadLock, msLock, interpreter, erased, ttbFilesChanged, table,
                 translationTableLoaded, pc, file, pos, embedded, registered, calls>>

EndWalk(t) ==
  /\ pc[t] = "walking"
  /\ pc' = [pc EXCEPT ![t] = "idle"]
  /\ UNCHANGED <<loadLock, msLock, interpreter, erased, ttbFilesChanged, table,
                 translationTableLoaded, file, reader, registered, calls>>

-----------------------------------------------------------------------------
Init ==
  /\ loadLock = NoThread
  /\ msLock = NoThread
  /\ ttbFiles = <<>>
  /\ erased = FALSE
  /\ ttbFilesChanged = TRUE
  /\ defaultSchemaLoaded = FALSE
  /\ loadedSchemas = {}
  /\ table = <<>>
  /\ translationTableLoaded = FALSE
  /\ pc = [t \in Thread |-> "idle"]
  /\ file = [t \in Thread |-> 1]
  /\ pos = [t \in Thread |-> 1]
  /\ seen = [t \in Thread |-> {}]
  /\ freed = [t \in Thread |-> FALSE]
  /\ embedded = [t \in Thread |-> FALSE]
  /\ registered = [t \in Thread |-> {}]
  /\ calls = [t \in Thread |-> 0]

\* The steps of a call that has begun.
Step(t) ==
  \/ EndInstance(t)
  \/ Enter(t) \/ CheckErased(t) \/ CheckLoaded(t)
  \/ BeginFile(t) \/ EndFile(t) \/ FileNotFound(t) \/ EndLoop(t) \/ Leave(t)
  \/ FindTable(t) \/ ReadElement(t) \/ OpenEmbedded(t) \/ EndRead(t)
  \/ LookUpTable(t) \/ WalkElement(t) \/ WalkAstray(t) \/ EndWalk(t)

\* The calls a thread may begin.
Call(t) ==
  \/ LoadDefault(t)
  \/ \E info \in Info : privateLoad(t, info)
  \/ \E m \in MemoryTable \cup {NoTable} : loadMemory(t, m)
  \/ EraseDefinitions(t)
  \/ BeginInstance(t)
  \/ BeginAccess(t)

Next == \E t \in Thread : Call(t) \/ Step(t)

Spec == Init /\ [][Next]_vars

\* A thread inside a call runs; nothing makes it begin one.
FairSpec == Spec /\ \A t \in Thread : WF_vars(Step(t))

-----------------------------------------------------------------------------
\* Properties

PC == {"idle", "instance", "enter", "check", "reload", "loop", "parse", "unlock",
       "find", "reading", "look", "walking"}

\* msLoadLock is held from Enter to Leave; msLock by the load of a table that takes it,
\* and by a reader, also while it is inside the open of the XMP accessor.
HoldsLoadLock(t) == pc[t] \in {"instance", "check", "reload", "loop", "parse", "unlock"}
Reads(t) == pc[t] = "reading" \/ embedded[t]
HoldsTableLock(t) == Reads(t) \/ (pc[t] = "parse" /\ TakesLock(ttbFiles[file[t]]))

Types ==
  /\ loadLock \in Thread \cup {NoThread} /\ msLock \in Thread \cup {NoThread}
  /\ ttbFiles \in Seq(Table) /\ table \in Seq(Entry)
  /\ erased \in BOOLEAN /\ ttbFilesChanged \in BOOLEAN
  /\ defaultSchemaLoaded \in BOOLEAN /\ translationTableLoaded \in BOOLEAN
  /\ loadedSchemas \subseteq Schema
  /\ pc \in [Thread -> PC]
  /\ file \in [Thread -> Nat \ {0}] /\ pos \in [Thread -> Nat \ {0}]
  /\ seen \in [Thread -> SUBSET Entry]
  /\ freed \in [Thread -> BOOLEAN] /\ embedded \in [Thread -> BOOLEAN]
  /\ registered \in [Thread -> SUBSET Table] /\ calls \in [Thread -> 0 .. MaxCalls]

Locks ==
  \A t \in Thread : /\ HoldsLoadLock(t) <=> loadLock = t
                    /\ HoldsTableLock(t) <=> msLock = t

Positions ==
  \A t \in Thread : /\ pc[t] = "parse" => file[t] \in DOMAIN ttbFiles /\ table # <<>>
                    /\ embedded[t] => pc[t] \notin {"idle", "instance", "find", "look", "walking"}
                    /\ embedded[t] /\ pc[t] = "parse" => ~ TakesLock(ttbFiles[file[t]])

\* The type of each variable, and each mutex is owned by the thread whose guard is
\* alive, through every early return and exception (EkGuard.h).
TypeOK == Types /\ Locks /\ Positions

\* The table is exactly the first n of the registered files, all whole.
Loaded(n) ==
  /\ Len(table) = n /\ n <= Len(ttbFiles)
  /\ \A i \in 1 .. n : table[i] = [file |-> ttbFiles[i], whole |-> TRUE]

\* Between two calls the table holds tables that are registered, each once and in
\* the order of registration, unless an erase is still to be heeded: a load that
\* failed half way, or an erase of the definitions, never leaves a stale or a
\* repeated table behind (PmtAccessor.cpp 60-71).
TableFromRegistered ==
  loadLock = NoThread /\ ~ erased => Loaded(Len(table))

\* While the lock on the table is held for reading, the table loses nothing, also where
\* the thread that reads it runs loadIfAny itself (PmtTranslationTable.h 158-173, the
\* guards of the readers).
StableWhileRead ==
  [][(\E t \in Thread : Reads(t)) =>
       \A i \in DOMAIN table : i \in DOMAIN table' /\ table'[i].file = table[i].file]_vars

\* Does a loop over the table go on, over elements that are there?
Loops(t) == pc[t] = "reading" \/ (pc[t] = "walking" /\ ~ freed[t])

\* A call never reads a table that was not registered at any time of the call: what
\* was erased before it began is gone, though the erase of the definitions and that
\* of the table are apart (PmtDefinitionInterpreter.cpp 284-295, PmtAccessor.cpp 60-64).
\* It holds of the readers without the lock too, until their column is deleted or moved.
ReadsRegistered ==
  \A t \in Thread : Loops(t) => \A e \in seen[t] : e.file \in registered[t]

\* No reader that holds the lock sees a file half loaded, except the default table,
\* whose load takes no lock (PmtTranslationTable.cpp 252-341).
PartialOnlyDefault ==
  \A t \in Thread : pc[t] = "reading" =>
    \A e \in seen[t] : e.whole \/ e.file = DefaultTable

\* What a reader of the table sees, from its first look to its last, is of the schemas
\* it may ask for: each element was registered during its call, and, if the reader holds
\* the lock, is whole unless it is of the default table.
ReadsCurrent == ReadsRegistered /\ PartialOnlyDefault

\* When loadIfAny records that it has loaded the tables, it has loaded them all.
LoadsAll ==
  [][~ translationTableLoaded /\ translationTableLoaded' => Loaded(Len(ttbFiles))]_vars

\* Every call returns, whatever the others do, if the Exif readers come out of the XMP
\* accessor they open: the two locks and the exceptions between them leave nobody else
\* waiting.  Such a reader may not: it waits for msLoadLock with msLock in its hands, and
\* for msLock itself where loadIfAny has something to erase or to load.
CallsReturn ==
  (\A t \in Thread : []<>~embedded[t]) =>
    \A t \in Thread : pc[t] # "idle" ~> pc[t] = "idle"

-----------------------------------------------------------------------------
\* What comments and tests of the code say and the code does not do

\* "wait for the threads to exit" (AccessorTest.cpp:294): every thread that reads
\* through an accessor comes to the end of its call.
ThreadsExit == \A t \in Thread : pc[t] # "idle" ~> pc[t] = "idle"

\* "Prevent deletion of the translation table while we're using it": nothing is deleted
\* while somebody walks it.
NotDeletedInUse ==
  [][table # <<>> /\ table' = <<>> => \A t \in Thread : pc[t] # "walking"]_vars
=============================================================================
