---------------------- MODULE TranslationTablesProofs ----------------------
(***************************************************************************)
(* Proofs about TranslationTables, for any threads, tables, schemas and    *)
(* information files.                                                      *)
(***************************************************************************)
EXTENDS TranslationTables, SequenceTheorems, TLAPS

-----------------------------------------------------------------------------
\* Types

\* Registering tables keeps the types of what it changes.
LEMMA RegisterTypes ==
  ASSUME Types, NEW ts \in Seq(Table), Register(ts)
  PROVE  /\ ttbFiles' \in Seq(Table) /\ ttbFilesChanged' \in BOOLEAN
         /\ registered' \in [Thread -> SUBSET Table]
<1>1. ttbFiles' \in Seq(Table)
  BY ConcatProperties DEF Types, Register
<1>2. ttbFilesChanged' \in BOOLEAN
  BY DEF Types, Register
<1>3. Tables(ts) \subseteq Table
  BY ElementOfSeq DEF Tables
<1>4. registered' \in [Thread -> SUBSET Table]
  BY <1>3 DEF Types, Register
<1> QED
  BY <1>1, <1>2, <1>4

\* A call of the interpreter holds no lock at its end, and finds no thread inside.
LEMMA CallTypes ==
  ASSUME TypeOK, NEW t \in Thread, Call(t)
  PROVE  TypeOK'
<1> USE DEF TypeOK
<1>1. ASSUME InterpreterCall(t), ttbFiles' \in Seq(Table), ttbFilesChanged' \in BOOLEAN,
             registered' \in [Thread -> SUBSET Table], loadedSchemas' \subseteq Schema,
             erased' \in BOOLEAN, defaultSchemaLoaded' \in BOOLEAN
      PROVE  TypeOK'
  <2>1. Types'
    <3>1. calls' \in [Thread -> 0 .. MaxCalls]
      BY <1>1, BoundAssumption DEF Types, InterpreterCall
    <3> QED
      BY <1>1, <3>1 DEF Types, InterpreterCall, reader
  <2>2. \A u \in Thread : pc[u] # "parse"
    BY <1>1, ThreadAssumption DEF Locks, HoldsLoadLock, InterpreterCall
  <2>3. Locks'
    BY <1>1, <2>2 DEF Locks, HoldsLoadLock, HoldsTableLock, Reads, InterpreterCall, reader
  <2>4. Positions'
    BY <1>1, <2>2 DEF Positions, InterpreterCall, reader
  <2> QED
    BY <2>1, <2>3, <2>4
<1>2. CASE LoadDefault(t)
  <2>1. <<DefaultTable>> \in Seq(Table)
    BY TableAssumption
  <2>2. /\ ttbFiles' \in Seq(Table) /\ ttbFilesChanged' \in BOOLEAN
        /\ registered' \in [Thread -> SUBSET Table]
    BY <1>2, <2>1, RegisterTypes DEF LoadDefault, Types
  <2> QED
    BY <1>1, <1>2, <2>2 DEF LoadDefault, Types
<1>3. ASSUME NEW info \in Info, privateLoad(t, info)
      PROVE  TypeOK'
  <2>1. TablesOf[info] \in Seq(Table) /\ LastSchema[info] \in Schema
    BY TableAssumption
  <2>2. /\ ttbFiles' \in Seq(Table) /\ ttbFilesChanged' \in BOOLEAN
        /\ registered' \in [Thread -> SUBSET Table]
    BY <1>3, <2>1, RegisterTypes DEF privateLoad, Types
  <2> QED
    BY <1>1, <1>3, <2>1, <2>2 DEF privateLoad, Types
<1>4. ASSUME NEW m \in MemoryTable \cup {NoTable}, loadMemory(t, m)
      PROVE  TypeOK'
  <2>1. (IF m = NoTable THEN <<>> ELSE <<m>>) \in Seq(Table)
    BY TableAssumption
  <2>2. /\ ttbFiles' \in Seq(Table) /\ ttbFilesChanged' \in BOOLEAN
        /\ registered' \in [Thread -> SUBSET Table]
    BY <1>4, <2>1, RegisterTypes DEF loadMemory
  <2> QED
    BY <1>1, <1>4, <2>2 DEF loadMemory, Types
<1>5. CASE EraseDefinitions(t)
  <2>1. ttbFiles' \in Seq(Table)
    BY <1>5, EmptySeq DEF EraseDefinitions, privateEraseCommon
  <2>2. /\ InterpreterCall(t) /\ ttbFilesChanged' \in BOOLEAN /\ loadedSchemas' \subseteq Schema
        /\ registered' \in [Thread -> SUBSET Table] /\ erased' \in BOOLEAN
        /\ defaultSchemaLoaded' \in BOOLEAN
    BY <1>5 DEF EraseDefinitions, privateEraseCommon, Types
  <2> QED
    BY <1>1, <2>1, <2>2
<1>6. CASE BeginInstance(t)
  <2>1. Types'
    BY <1>6, BoundAssumption DEF BeginInstance, Types, PC, interpreter, reader
  <2>2. \A u \in Thread : pc'[u] = IF u = t THEN "instance" ELSE pc[u]
    BY <1>6 DEF BeginInstance, Types
  <2>3. Locks' /\ Positions'
    BY <1>6, <2>2, ThreadAssumption
       DEF BeginInstance, Types, Locks, Positions, HoldsLoadLock, HoldsTableLock, Reads, interpreter, reader
  <2> QED
    BY <2>1, <2>3
<1>7. CASE BeginAccess(t)
  <2>1. Tables(ttbFiles) \subseteq Table
    BY ElementOfSeq DEF Tables, Types
  <2>2. Types'
    BY <1>7, <2>1, BoundAssumption DEF BeginAccess, Types, PC, interpreter, reader
  <2>3. \A u \in Thread : pc'[u] = IF u = t THEN "enter" ELSE pc[u]
    BY <1>7 DEF BeginAccess, Types
  <2>4. Locks' /\ Positions'
    BY <1>7, <2>3, ThreadAssumption
       DEF BeginAccess, Types, Locks, Positions, HoldsLoadLock, HoldsTableLock, Reads, interpreter, reader
  <2> QED
    BY <2>2, <2>4
<1> QED
  BY <1>2, <1>3, <1>4, <1>5, <1>6, <1>7 DEF Call

\* Replacing the last entry leaves a sequence of the same length.
LEMMA ReplaceLast ==
  ASSUME NEW s \in Seq(Entry), s # <<>>, NEW w \in Entry
  PROVE  LET r == [s EXCEPT ![Len(s)] = w]
         IN  /\ r \in Seq(Entry) /\ Len(r) = Len(s) /\ Len(s) \in Nat \ {0}
             /\ r[Len(s)] = w
             /\ \A i \in 1 .. Len(s) - 1 : r[i] = s[i]
<1>1. PICK l \in Nat \ {0} : l = Len(s)
  BY EmptySeq, LenProperties
<1>2. s \in [1 .. l -> Entry]
  BY <1>1, LenProperties
<1> DEFINE r == [s EXCEPT ![l] = w]
<1>3. /\ r \in [1 .. l -> Entry]
      /\ r[l] = w
      /\ \A i \in 1 .. l - 1 : r[i] = s[i]
  <2>1. l \in 1 .. l /\ \A i \in 1 .. l - 1 : i \in 1 .. l /\ i # l
    OBVIOUS
  <2> QED
    BY <1>2, <2>1
<1>4. r \in Seq(Entry)
  BY <1>3, SeqDef
<1>5. Len(r) = l
  BY <1>3, <1>4, LenProperties
<1> QED
  BY <1>1, <1>3, <1>4, <1>5

\* The beginning of a loop keeps the types of what the readers remember.
LEMMA BeginTypes ==
  ASSUME Types, NEW t \in Thread, BeginLoop(t)
  PROVE  /\ pos' \in [Thread -> Nat \ {0}] /\ seen' \in [Thread -> SUBSET Entry]
         /\ freed' \in [Thread -> BOOLEAN]
<1>1. pos \in [Thread -> Nat \ {0}] /\ seen \in [Thread -> SUBSET Entry]
      /\ freed \in [Thread -> BOOLEAN]
  BY DEF Types
<1>2. pos' \in [Thread -> Nat \ {0}]
  BY <1>1 DEF BeginLoop
<1>3. seen' \in [Thread -> SUBSET Entry]
  BY <1>1 DEF BeginLoop
<1>4. freed' \in [Thread -> BOOLEAN]
  BY <1>1 DEF BeginLoop
<1> QED
  BY <1>2, <1>3, <1>4

\* A step of a call keeps the types, and takes and releases the locks in pairs.
LEMMA StepTypes ==
  ASSUME TypeOK, NEW t \in Thread, Step(t)
  PROVE  TypeOK'
<1> USE DEF TypeOK
<1>1. CASE EndInstance(t)
  <2>1. Types'
    BY <1>1 DEF EndInstance, Types, PC, Entry, interpreter, reader
  <2>2. \A u \in Thread : pc'[u] = IF u = t THEN "idle" ELSE pc[u]
    BY <1>1 DEF EndInstance, Types
  <2>3. Locks' /\ Positions'
    BY <1>1, <2>2, ThreadAssumption
       DEF EndInstance, Types, Locks, Positions, HoldsLoadLock, HoldsTableLock, Reads, interpreter, reader
  <2> QED
    BY <2>1, <2>3
<1>2. CASE Enter(t)
  <2>1. Types'
    BY <1>2 DEF Enter, Types, PC, Entry, interpreter, reader
  <2>2. \A u \in Thread : pc'[u] = IF u = t THEN "check" ELSE pc[u]
    BY <1>2 DEF Enter, Types
  <2>3. Locks' /\ Positions'
    BY <1>2, <2>2, ThreadAssumption
       DEF Enter, Types, Locks, Positions, HoldsLoadLock, HoldsTableLock, Reads, interpreter, reader
  <2> QED
    BY <2>1, <2>3
<1>3. CASE CheckErased(t)
  <2>1. Types'
    <3>1. table' \in Seq(Entry) /\ freed' \in [Thread -> BOOLEAN]
      BY <1>3, EmptySeq DEF CheckErased, EraseTable, eraseTables, Types
    <3>2. pc' \in [Thread -> PC]
      BY <1>3 DEF CheckErased, Types, PC
    <3> QED
      BY <1>3, <3>1, <3>2 DEF CheckErased, Types, interpreter
  <2>2. \A u \in Thread : pc'[u] = IF u = t THEN "reload" ELSE pc[u]
    BY <1>3 DEF CheckErased, Types
  <2>3. Locks' /\ Positions'
    BY <1>3, <2>2, ThreadAssumption
       DEF CheckErased, Types, Locks, Positions, HoldsLoadLock, HoldsTableLock, Reads, interpreter
  <2> QED
    BY <2>1, <2>3
<1>4. CASE CheckLoaded(t)
  <2>1. Types'
    <3>1. table' \in Seq(Entry) /\ freed' \in [Thread -> BOOLEAN]
      BY <1>4, EmptySeq DEF CheckLoaded, EraseTable, eraseTables, Types
    <3>2. pc' \in [Thread -> PC] /\ file' \in [Thread -> Nat \ {0}]
      BY <1>4 DEF CheckLoaded, Types, PC
    <3> QED
      BY <1>4, <3>1, <3>2 DEF CheckLoaded, Types, interpreter
  <2>2. \A u \in Thread : pc'[u] = IF u = t THEN pc'[t] ELSE pc[u]
    BY <1>4 DEF CheckLoaded, Types
  <2>9. pc'[t] \in {"unlock", "loop"}
    BY <1>4 DEF CheckLoaded, Types
  <2>3. Locks' /\ Positions'
    BY <1>4, <2>2, <2>9, ThreadAssumption
       DEF CheckLoaded, Types, Locks, Positions, HoldsLoadLock, HoldsTableLock, Reads, interpreter
  <2> QED
    BY <2>1, <2>3
<1>5. CASE BeginFile(t)
  <2>1. Types'
    BY <1>5, AppendProperties DEF BeginFile, Types, PC, Entry, interpreter, reader
  <2>2. \A u \in Thread : pc'[u] = IF u = t THEN "parse" ELSE pc[u]
    BY <1>5 DEF BeginFile, Types
  <2>3. Locks' /\ Positions'
    <3>1. table' # <<>>
      <4>1. PICK e \in Entry : table' = Append(table, e)
        <5>1. ttbFiles[file[t]] \in Table
          BY <1>5, ElementOfSeq DEF BeginFile, Types
        <5> QED
          BY <1>5, <5>1 DEF BeginFile, Entry
      <4> QED
        BY <4>1, AppendProperties, EmptySeq DEF Types
    <3>2. file[t] \in DOMAIN ttbFiles
      BY <1>5 DEF BeginFile, Types
    <3> QED
      BY <1>5, <2>2, <3>1, <3>2, ThreadAssumption
         DEF BeginFile, Types, Locks, Positions, HoldsLoadLock, HoldsTableLock, Reads, interpreter, reader
  <2> QED
    BY <2>1, <2>3
<1>6. CASE EndFile(t)
  <2>1. Types'
    <3>1. table' \in Seq(Entry)
      <4>0. ttbFiles[file[t]] \in Table
        BY <1>6, ElementOfSeq DEF EndFile, Types, Positions
      <4>1. PICK w \in Entry : w = [file |-> ttbFiles[file[t]], whole |-> TRUE]
        BY <4>0 DEF Entry
      <4>2. table \in Seq(Entry) /\ table # <<>> /\ table' = [table EXCEPT ![Len(table)] = w]
        BY <1>6, <4>1 DEF EndFile, Types, Positions
      <4> QED
        BY <4>2, ReplaceLast
    <3>2. /\ pc' \in [Thread -> PC] /\ msLock' \in Thread \cup {NoThread}
          /\ file' \in [Thread -> Nat \ {0}]
      BY <1>6 DEF EndFile, Types, PC
    <3> QED
      BY <1>6, <3>1, <3>2 DEF EndFile, Types, interpreter, reader
  <2>2. \A u \in Thread : pc'[u] = IF u = t THEN "loop" ELSE pc[u]
    BY <1>6 DEF EndFile, Types
  <2>3. /\ embedded' = embedded /\ ttbFiles' = ttbFiles /\ loadLock' = loadLock /\ pc[t] = "parse"
        /\ msLock' = IF TakesLock(ttbFiles[file[t]]) THEN NoThread ELSE msLock
        /\ \A u \in Thread \ {t} : file'[u] = file[u]
    BY <1>6 DEF EndFile, Types, interpreter, reader
  <2>4. \A u \in Thread \ {t} : pc[u] # "parse"
    BY <2>3 DEF Locks, HoldsLoadLock
  <2>5. Locks'
    <3>1. ASSUME NEW u \in Thread
          PROVE  (HoldsLoadLock(u) <=> loadLock = u)'
      BY <2>2, <2>3 DEF Locks, HoldsLoadLock
    <3>2. ASSUME NEW u \in Thread, u # t
          PROVE  (HoldsTableLock(u) <=> msLock = u)'
      BY <2>2, <2>3, <2>4, <3>2, ThreadAssumption DEF Locks, HoldsTableLock, Reads
    <3>3. (HoldsTableLock(t) <=> msLock = t)'
      <4>1. CASE Reads(t)
        <5>1. ~ TakesLock(ttbFiles[file[t]])
          BY <2>3, <4>1 DEF Positions, Reads
        <5> QED
          BY <2>2, <2>3, <4>1, <5>1 DEF Locks, HoldsTableLock, Reads
      <4>2. CASE ~ Reads(t)
        BY <2>2, <2>3, <4>2, ThreadAssumption DEF Locks, HoldsTableLock, Reads
      <4> QED
        BY <4>1, <4>2
    <3> QED
      BY <3>1, <3>2, <3>3 DEF Locks
  <2>6. Positions'
    BY <2>2, <2>3, <2>4 DEF Positions
  <2> QED
    BY <2>1, <2>5, <2>6
<1>7. CASE FileNotFound(t)
  <2>1. Types'
    BY <1>7 DEF FileNotFound, Types, PC, Entry, interpreter, reader
  <2>2. \A u \in Thread : pc'[u] = IF u = t THEN "idle" ELSE pc[u]
    BY <1>7 DEF FileNotFound, Types
  <2>3. Locks' /\ Positions'
    BY <1>7, <2>2, ThreadAssumption
       DEF FileNotFound, Types, Locks, Positions, HoldsLoadLock, HoldsTableLock, Reads, interpreter, reader
  <2> QED
    BY <2>1, <2>3
<1>8. CASE EndLoop(t)
  <2>1. Types'
    BY <1>8 DEF EndLoop, Types, PC, Entry, interpreter, reader
  <2>2. \A u \in Thread : pc'[u] = IF u = t THEN "unlock" ELSE pc[u]
    BY <1>8 DEF EndLoop, Types
  <2>3. Locks' /\ Positions'
    BY <1>8, <2>2, ThreadAssumption
       DEF EndLoop, Types, Locks, Positions, HoldsLoadLock, HoldsTableLock, Reads, interpreter, reader
  <2> QED
    BY <2>1, <2>3
<1>9. CASE Leave(t)
  <2>1. PICK next \in {"reading", "find", "look", "idle"} :
          /\ pc' = [pc EXCEPT ![t] = next]
          /\ next = "reading" <=> embedded[t]
    BY <1>9 DEF Leave, Types
  <2>2. Types'
    BY <1>9, <2>1 DEF Leave, Types, PC, Entry, interpreter, reader
  <2>3. \A u \in Thread : pc'[u] = IF u = t THEN next ELSE pc[u]
    BY <2>1 DEF Types
  <2>4. Locks' /\ Positions'
    BY <1>9, <2>1, <2>3, ThreadAssumption
       DEF Leave, Types, Locks, Positions, HoldsLoadLock, HoldsTableLock, Reads, interpreter, reader
  <2> QED
    BY <2>2, <2>4
<1>10. CASE FindTable(t)
  <2>1. CASE table = <<>>
    <3>1. Types'
      BY <1>10, <2>1 DEF FindTable, Types, PC, interpreter
    <3>2. \A u \in Thread : pc'[u] = IF u = t THEN "idle" ELSE pc[u]
      BY <1>10, <2>1 DEF FindTable, Types
    <3>3. Locks' /\ Positions'
      BY <1>10, <2>1, <3>2, ThreadAssumption
         DEF FindTable, Types, Locks, Positions, HoldsLoadLock, HoldsTableLock, Reads, interpreter
    <3> QED
      BY <3>1, <3>3
  <2>2. CASE table # <<>>
    <3>1. Types'
      <4>1. BeginLoop(t) /\ msLock' = t /\ pc' = [pc EXCEPT ![t] = "reading"]
        BY <1>10, <2>2 DEF FindTable
      <4>2. /\ pos' \in [Thread -> Nat \ {0}] /\ seen' \in [Thread -> SUBSET Entry]
            /\ freed' \in [Thread -> BOOLEAN]
        BY <4>1, BeginTypes
      <4> QED
        BY <1>10, <4>1, <4>2 DEF FindTable, Types, PC, interpreter
    <3>2. \A u \in Thread : pc'[u] = IF u = t THEN "reading" ELSE pc[u]
      BY <1>10, <2>2 DEF FindTable, Types
    <3>3. Locks' /\ Positions'
      BY <1>10, <2>2, <3>2, ThreadAssumption
         DEF FindTable, Types, Locks, Positions, HoldsLoadLock, HoldsTableLock, Reads, interpreter
    <3> QED
      BY <3>1, <3>3
  <2> QED
    BY <2>1, <2>2
<1>11. CASE ReadElement(t)
  <2>1. Types'
    <3>1. table[pos[t]] \in Entry
      BY <1>11, ElementOfSeq DEF ReadElement, Types
    <3>2. pos' \in [Thread -> Nat \ {0}] /\ seen' \in [Thread -> SUBSET Entry]
      BY <1>11, <3>1 DEF ReadElement, Types
    <3> QED
      BY <1>11, <3>2 DEF ReadElement, Types, interpreter
  <2>2. \A u \in Thread : pc'[u] = pc[u]
    BY <1>11 DEF ReadElement, Types
  <2>3. Locks' /\ Positions'
    BY <1>11, <2>2, ThreadAssumption
       DEF ReadElement, Types, Locks, Positions, HoldsLoadLock, HoldsTableLock, Reads, interpreter
  <2> QED
    BY <2>1, <2>3
<1>12. CASE OpenEmbedded(t)
  <2>1. Types'
    <3>1. /\ pos' \in [Thread -> Nat \ {0}] /\ seen' \in [Thread -> SUBSET Entry]
          /\ freed' \in [Thread -> BOOLEAN]
      BY <1>12, BeginTypes DEF OpenEmbedded
    <3>2. pc' \in [Thread -> PC] /\ embedded' \in [Thread -> BOOLEAN]
      BY <1>12 DEF OpenEmbedded, Types, PC
    <3> QED
      BY <1>12, <3>1, <3>2 DEF OpenEmbedded, Types, interpreter
  <2>2. \A u \in Thread : /\ pc'[u] = IF u = t THEN "enter" ELSE pc[u]
                          /\ embedded'[u] = IF u = t THEN TRUE ELSE embedded[u]
    BY <1>12 DEF OpenEmbedded, Types
  <2>3. Locks' /\ Positions'
    BY <1>12, <2>2, ThreadAssumption
       DEF OpenEmbedded, Types, Locks, Positions, HoldsLoadLock, HoldsTableLock, Reads, interpreter
  <2> QED
    BY <2>1, <2>3
<1>13. CASE EndRead(t)
  <2>1. Types'
    BY <1>13 DEF EndRead, Types, PC, Entry, interpreter
  <2>2. \A u \in Thread : /\ pc'[u] = IF u = t THEN "idle" ELSE pc[u]
                          /\ embedded'[u] = IF u = t THEN FALSE ELSE embedded[u]
    BY <1>13 DEF EndRead, Types
  <2>3. Locks' /\ Positions'
    BY <1>13, <2>2, ThreadAssumption
       DEF EndRead, Types, Locks, Positions, HoldsLoadLock, HoldsTableLock, Reads, interpreter
  <2> QED
    BY <2>1, <2>3
<1>14. CASE LookUpTable(t)
  <2>1. PICK next \in {"idle", "walking"} : pc' = [pc EXCEPT ![t] = next]
    BY <1>14 DEF LookUpTable
  <2>2. Types'
    <3>1. /\ pos' \in [Thread -> Nat \ {0}] /\ seen' \in [Thread -> SUBSET Entry]
          /\ freed' \in [Thread -> BOOLEAN]
      BY <1>14, BeginTypes DEF LookUpTable, Types
    <3> QED
      BY <1>14, <2>1, <3>1 DEF LookUpTable, Types, PC, interpreter
  <2>3. \A u \in Thread : pc'[u] = IF u = t THEN next ELSE pc[u]
    BY <2>1 DEF Types
  <2>4. Locks' /\ Positions'
    BY <1>14, <2>1, <2>3, ThreadAssumption
       DEF LookUpTable, Types, Locks, Positions, HoldsLoadLock, HoldsTableLock, Reads, interpreter
  <2> QED
    BY <2>2, <2>4
<1>15. CASE WalkElement(t) \/ WalkAstray(t)
  <2>1. Types'
    <3>1. WalkElement(t) => table[pos[t]] \in Entry
      BY ElementOfSeq DEF WalkElement, Types
    <3>2. /\ pos' \in [Thread -> Nat \ {0}] /\ seen' \in [Thread -> SUBSET Entry]
          /\ freed' \in [Thread -> BOOLEAN]
      <4>1. CASE WalkElement(t)
        BY <3>1, <4>1 DEF WalkElement, Types
      <4>2. CASE WalkAstray(t)
        <5>1. seen' = [seen EXCEPT ![t] = Entry] /\ seen \in [Thread -> SUBSET Entry]
          BY <4>2 DEF WalkAstray, Types
        <5>2. seen' \in [Thread -> SUBSET Entry]
          BY <5>1
        <5> QED
          BY <4>2, <5>2 DEF WalkAstray, Types
      <4> QED
        BY <1>15, <4>1, <4>2
    <3> QED
      BY <1>15, <3>2 DEF WalkElement, WalkAstray, Types, interpreter
  <2>2. Locks' /\ Positions'
    BY <1>15, ThreadAssumption
       DEF WalkElement, WalkAstray, Locks, Positions, HoldsLoadLock, HoldsTableLock,
           Reads, interpreter
  <2> QED
    BY <2>1, <2>2
<1>16. CASE EndWalk(t)
  <2>1. Types'
    BY <1>16 DEF EndWalk, Types, PC, Entry, interpreter, reader
  <2>2. \A u \in Thread : pc'[u] = IF u = t THEN "idle" ELSE pc[u]
    BY <1>16 DEF EndWalk, Types
  <2>3. Locks' /\ Positions'
    BY <1>16, <2>2, ThreadAssumption
       DEF EndWalk, Types, Locks, Positions, HoldsLoadLock, HoldsTableLock, Reads,
           interpreter, reader
  <2> QED
    BY <2>1, <2>3
<1> QED
  BY <1>1, <1>2, <1>3, <1>4, <1>5, <1>6, <1>7, <1>8, <1>9, <1>10, <1>11, <1>12, <1>13, <1>14,
     <1>15, <1>16 DEF Step

\* A step that changes nothing keeps the types.
LEMMA StutterTypes ==
  ASSUME TypeOK, UNCHANGED vars
  PROVE  TypeOK'
BY DEF TypeOK, Types, Locks, Positions, HoldsLoadLock, HoldsTableLock, Reads, TakesLock,
       vars, interpreter, reader, PC, Entry

\* The types, the locks and the positions are right in every reachable state, with and
\* without packets of XMP in the Exif files: no thread gives up a mutex of another, or
\* keeps one past its call.
THEOREM TypeCorrect == Spec => []TypeOK
<1>1. Init => TypeOK
  <2> SUFFICES ASSUME Init PROVE TypeOK
    OBVIOUS
  <2>1. <<>> \in Seq(Table) /\ <<>> \in Seq(Entry)
    BY EmptySeq
  <2>2. Types
    <3>1. calls \in [Thread -> 0 .. MaxCalls]
      BY BoundAssumption DEF Init
    <3>2. file \in [Thread -> Nat \ {0}] /\ pos \in [Thread -> Nat \ {0}]
      BY DEF Init
    <3>3. /\ pc \in [Thread -> PC] /\ seen \in [Thread -> SUBSET Entry]
          /\ freed \in [Thread -> BOOLEAN] /\ embedded \in [Thread -> BOOLEAN]
      BY DEF Init, PC
    <3>4. registered \in [Thread -> SUBSET Table]
      BY DEF Init
    <3> QED
      BY <2>1, <3>1, <3>2, <3>3, <3>4 DEF Init, Types
  <2>3. Locks /\ Positions
    BY ThreadAssumption DEF Init, Locks, Positions, HoldsLoadLock, HoldsTableLock, Reads
  <2> QED
    BY <2>2, <2>3 DEF TypeOK
<1>2. TypeOK /\ [Next]_vars => TypeOK'
  BY CallTypes, StepTypes, StutterTypes DEF Next
<1> QED
  BY <1>1, <1>2, PTL DEF Spec

-----------------------------------------------------------------------------
\* The table and the registered files

\* The first n - 1 registered files are in, and the n-th partly.
Parsing(n) ==
  /\ Len(table) = n /\ n <= Len(ttbFiles)
  /\ \A i \in 1 .. n - 1 : table[i] = [file |-> ttbFiles[i], whole |-> TRUE]
  /\ table[n] = [file |-> ttbFiles[n], whole |-> FALSE]

\* What the loop of loadIfAny has loaded; an erase of the definitions is heeded before
\* anything is loaded, and forbids nothing to the table until then.
TableInv ==
  /\ \A t \in Thread : pc[t] = "loop" => ~ erased /\ Loaded(file[t] - 1)
  /\ \A t \in Thread : pc[t] = "parse" => ~ erased /\ Parsing(file[t])
  /\ \A t \in Thread : pc[t] \in {"reload", "unlock"} => ~ erased
  /\ ~ erased /\ (\A t \in Thread : pc[t] \notin {"loop", "parse"}) => Loaded(Len(table))

\* An entry is partial only while a thread is parsing its file.
WholeInv ==
  (\A t \in Thread : pc[t] # "parse") => \A i \in DOMAIN table : table[i].whole

\* Where a thread has the table in front of it, or will look it up next.
Looking == {"find", "reading", "look", "walking"}

\* What is registered, what is in the table and what is read belong to the call; a reader
\* that opens the XMP accessor has begun its loop anew.
RegInv ==
  \A t \in Thread :
    /\ pc[t] \notin {"idle", "instance"} => Tables(ttbFiles) \subseteq registered[t]
    /\ pc[t] \in Looking => \A i \in DOMAIN table : table[i].file \in registered[t]
    /\ Loops(t) => \A e \in seen[t] : e.file \in registered[t]
    /\ embedded[t] /\ pc[t] # "reading" => seen[t] = {}

IInv == TypeOK /\ TableInv /\ WholeInv /\ RegInv /\ PartialOnlyDefault

-----------------------------------------------------------------------------
\* Facts about the table

\* One thread at a time is inside the loading.
LEMMA OneLoads ==
  ASSUME TypeOK, NEW t \in Thread, NEW u \in Thread, HoldsLoadLock(t), u # t
  PROVE  ~ HoldsLoadLock(u)
BY DEF TypeOK, Locks

\* Tables registered later change nothing in what is loaded.
LEMMA LoadedGrows ==
  ASSUME Types, NEW ts \in Seq(Table), ttbFiles' = ttbFiles \o ts, table' = table,
         Loaded(Len(table))
  PROVE  Loaded(Len(table))'
<1>1. /\ Len(ttbFiles) \in Nat /\ Len(ts) \in Nat
      /\ Len(ttbFiles \o ts) = Len(ttbFiles) + Len(ts)
      /\ \A i \in 1 .. Len(ttbFiles) : (ttbFiles \o ts)[i] = ttbFiles[i]
  BY ConcatProperties, LenProperties DEF Types
<1>2. Len(table) \in Nat
  BY LenProperties DEF Types
<1> QED
  BY <1>1, <1>2 DEF Loaded

\* Opening the n-th file appends its partial entry.
LEMMA BeginFileTable ==
  ASSUME TypeOK, NEW t \in Thread, BeginFile(t), Loaded(file[t] - 1)
  PROVE  /\ Parsing(file[t])'
         /\ Len(table') = Len(table) + 1
         /\ \A i \in DOMAIN table : table'[i] = table[i]
         /\ table'[Len(table')].file = ttbFiles[file[t]]
<1>1. PICK n \in Nat \ {0} : n = file[t]
  BY DEF TypeOK, Types
<1>2. n <= Len(ttbFiles) /\ ttbFiles[n] \in Table
  BY <1>1, ElementOfSeq DEF BeginFile, TypeOK, Types
<1>3. PICK w \in Entry : w = [file |-> ttbFiles[n], whole |-> FALSE]
  BY <1>2 DEF Entry
<1>4. table' = Append(table, w) /\ table \in Seq(Entry)
  BY <1>1, <1>3 DEF BeginFile, TypeOK, Types
<1>5. Len(table) = n - 1
  BY <1>1 DEF Loaded
<1>6. /\ Len(table') = n
      /\ \A i \in 1 .. n - 1 : table'[i] = table[i]
      /\ table'[n] = w
  BY <1>4, <1>5, AppendProperties
<1>7. Parsing(n)'
  BY <1>1, <1>2, <1>3, <1>6 DEF Parsing, Loaded, BeginFile, interpreter
<1>8. DOMAIN table = 1 .. n - 1
  BY <1>4, <1>5, LenProperties
<1>9. file' = file /\ ttbFiles' = ttbFiles
  BY DEF BeginFile, interpreter
<1> QED
  BY <1>1, <1>3, <1>5, <1>6, <1>7, <1>8, <1>9

\* Closing it makes the entry whole.
LEMMA EndFileTable ==
  ASSUME TypeOK, NEW t \in Thread, EndFile(t), Parsing(file[t])
  PROVE  /\ Loaded(file[t] - 1)'
         /\ DOMAIN table' = DOMAIN table
         /\ \A i \in DOMAIN table : table'[i].file = table[i].file
         /\ \A i \in DOMAIN table : table'[i].whole
<1>1. PICK n \in Nat \ {0} : n = file[t]
  BY DEF TypeOK, Types
<1>2. n <= Len(ttbFiles) /\ ttbFiles[n] \in Table
  BY <1>1, ElementOfSeq DEF EndFile, TypeOK, Types, Positions
<1>3. PICK w \in Entry : w = [file |-> ttbFiles[n], whole |-> TRUE]
  BY <1>2 DEF Entry
<1>4. table \in Seq(Entry) /\ table # <<>> /\ table' = [table EXCEPT ![Len(table)] = w]
  BY <1>1, <1>3 DEF EndFile, TypeOK, Types, Positions
<1>5. Len(table) = n
  BY <1>1 DEF Parsing
<1>6. /\ table' \in Seq(Entry) /\ Len(table') = n
      /\ table'[n] = w
      /\ \A i \in 1 .. n - 1 : table'[i] = table[i]
  BY <1>4, <1>5, ReplaceLast
<1>7. file'[t] - 1 = n /\ ttbFiles' = ttbFiles
  BY <1>1 DEF EndFile, TypeOK, Types, interpreter
<1>8. \A i \in 1 .. n : table'[i] = [file |-> ttbFiles[i], whole |-> TRUE]
  <2> SUFFICES ASSUME NEW i \in 1 .. n
               PROVE  table'[i] = [file |-> ttbFiles[i], whole |-> TRUE]
    OBVIOUS
  <2>1. CASE i = n
    BY <1>3, <1>6, <2>1
  <2>2. CASE i # n
    BY <1>1, <1>6, <2>2 DEF Parsing
  <2> QED
    BY <2>1, <2>2
<1>9. Loaded(file[t] - 1)'
  BY <1>2, <1>6, <1>7, <1>8 DEF Loaded
<1>10. DOMAIN table = 1 .. n /\ DOMAIN table' = 1 .. n
  BY <1>4, <1>5, <1>6, LenProperties
<1>11. ASSUME NEW i \in 1 .. n
       PROVE  table'[i].file = table[i].file
  <2>1. CASE i = n
    BY <1>1, <1>3, <1>6, <2>1 DEF Parsing
  <2>2. CASE i # n
    BY <1>6, <2>2
  <2> QED
    BY <2>1, <2>2
<1> QED
  BY <1>8, <1>9, <1>10, <1>11

-----------------------------------------------------------------------------
\* Steps and the table

\* A step that begins or ends no loading, and changes no file, keeps what is loaded.
LEMMA TableKept ==
  ASSUME TableInv, WholeInv, table' = table, ttbFiles' = ttbFiles, erased' = erased,
         file' = file,
         \A u \in Thread :
           /\ pc[u] \in {"loop", "parse"} => pc'[u] = pc[u]
           /\ pc'[u] \in {"loop", "parse", "reload", "unlock"} => pc'[u] = pc[u]
  PROVE  TableInv' /\ WholeInv'
<1>1. ASSUME NEW u \in Thread, pc'[u] = "loop"
      PROVE  ~ erased' /\ Loaded(file[u] - 1)'
  BY <1>1 DEF TableInv, Loaded
<1>2. ASSUME NEW u \in Thread, pc'[u] = "parse"
      PROVE  ~ erased' /\ Parsing(file[u])'
  BY <1>2 DEF TableInv, Parsing
<1>3. ASSUME NEW u \in Thread, pc'[u] \in {"reload", "unlock"}
      PROVE  ~ erased'
  BY <1>3 DEF TableInv
<1>4. ASSUME ~ erased', \A u \in Thread : pc'[u] \notin {"loop", "parse"}
      PROVE  Loaded(Len(table))'
  BY <1>4 DEF TableInv, Loaded
<1>5. WholeInv'
  BY DEF WholeInv
<1> QED
  BY <1>1, <1>2, <1>3, <1>4, <1>5 DEF TableInv

\* When no thread loads, before or after, only what is at rest matters.
LEMMA NobodyLoads ==
  ASSUME \A u \in Thread : pc'[u] \notin {"loop", "parse", "reload", "unlock"},
         ~ erased' => Loaded(Len(table))',
         \A i \in DOMAIN table' : table'[i].whole
  PROVE  TableInv' /\ WholeInv'
BY DEF TableInv, WholeInv

\* A thread that checks what to load leaves it at rest, or starts from nothing.
LEMMA OneChecks ==
  ASSUME NEW t \in Thread, ~ erased', Loaded(Len(table))',
         \A u \in Thread \ {t} : pc'[u] \notin {"loop", "parse", "reload", "unlock"},
         pc'[t] # "parse",
         pc'[t] = "loop" => Loaded(file[t] - 1)',
         \A i \in DOMAIN table' : table'[i].whole
  PROVE  TableInv' /\ WholeInv'
<1>1. ASSUME NEW u \in Thread, pc'[u] = "loop"
      PROVE  Loaded(file[u] - 1)'
  BY <1>1
<1> QED
  BY <1>1 DEF TableInv, WholeInv

\* A call keeps what is loaded; an erase of the definitions is still to be heeded.
LEMMA CallTable ==
  ASSUME TypeOK, TableInv, WholeInv, NEW t \in Thread, Call(t)
  PROVE  TableInv' /\ WholeInv'
<1>1. ASSUME InterpreterCall(t), NEW ts \in Seq(Table), Register(ts), erased' = erased
      PROVE  TableInv' /\ WholeInv'
  <2>1. \A u \in Thread : pc'[u] = pc[u] /\ ~ HoldsLoadLock(u)
    BY <1>1, ThreadAssumption DEF InterpreterCall, TypeOK, Locks
  <2>2. \A u \in Thread : pc[u] \notin {"loop", "parse", "reload", "unlock"}
    BY <2>1 DEF HoldsLoadLock
  <2>3. ~ erased => Loaded(Len(table))
    BY <2>2 DEF TableInv
  <2>4. ~ erased' => Loaded(Len(table))'
    BY <1>1, <2>3, LoadedGrows DEF Register, InterpreterCall, TypeOK
  <2>5. \A i \in DOMAIN table' : table'[i].whole
    BY <1>1, <2>2 DEF InterpreterCall, WholeInv
  <2> QED
    BY <2>1, <2>2, <2>4, <2>5, NobodyLoads
<1>2. ASSUME InterpreterCall(t), ttbFiles' = ttbFiles, erased' = erased
      PROVE  TableInv' /\ WholeInv'
  BY <1>2, TableKept DEF InterpreterCall
<1>3. CASE LoadDefault(t)
  <2>1. <<DefaultTable>> \in Seq(Table)
    BY TableAssumption
  <2> QED
    BY <1>1, <1>2, <1>3, <2>1 DEF LoadDefault
<1>4. ASSUME NEW info \in Info, privateLoad(t, info)
      PROVE  TableInv' /\ WholeInv'
  <2>1. TablesOf[info] \in Seq(Table)
    BY TableAssumption
  <2> QED
    BY <1>1, <1>2, <1>4, <2>1 DEF privateLoad
<1>5. ASSUME NEW m \in MemoryTable \cup {NoTable}, loadMemory(t, m)
      PROVE  TableInv' /\ WholeInv'
  <2>1. (IF m = NoTable THEN <<>> ELSE <<m>>) \in Seq(Table)
    BY TableAssumption
  <2> QED
    BY <1>1, <1>5, <2>1 DEF loadMemory
<1>6. CASE EraseDefinitions(t)
  <2>1. /\ InterpreterCall(t) /\ erased'
    BY <1>6 DEF EraseDefinitions, privateEraseCommon
  <2>2. \A u \in Thread : pc'[u] = pc[u] /\ ~ HoldsLoadLock(u)
    BY <2>1, ThreadAssumption DEF InterpreterCall, TypeOK, Locks
  <2>3. \A u \in Thread : pc[u] \notin {"loop", "parse", "reload", "unlock"}
    BY <2>2 DEF HoldsLoadLock
  <2>4. \A i \in DOMAIN table' : table'[i].whole
    BY <2>1, <2>3 DEF InterpreterCall, WholeInv
  <2> QED
    BY <2>1, <2>2, <2>3, <2>4, NobodyLoads
<1>7. CASE BeginInstance(t)
  <2>1. \A u \in Thread : pc'[u] = IF u = t THEN "instance" ELSE pc[u]
    BY <1>7 DEF BeginInstance, TypeOK, Types
  <2>2. pc[t] = "idle"
    BY <1>7 DEF BeginInstance
  <2>3. /\ table' = table /\ ttbFiles' = ttbFiles /\ erased' = erased /\ file' = file
    BY <1>7 DEF BeginInstance, interpreter
  <2> QED
    BY <2>1, <2>2, <2>3, TableKept
<1>8. CASE BeginAccess(t)
  <2>1. \A u \in Thread : pc'[u] = IF u = t THEN "enter" ELSE pc[u]
    BY <1>8 DEF BeginAccess, TypeOK, Types
  <2>2. pc[t] = "idle"
    BY <1>8 DEF BeginAccess
  <2>3. /\ table' = table /\ ttbFiles' = ttbFiles /\ erased' = erased /\ file' = file
    BY <1>8 DEF BeginAccess, interpreter
  <2> QED
    BY <2>1, <2>2, <2>3, TableKept
<1> QED
  BY <1>3, <1>4, <1>5, <1>6, <1>7, <1>8 DEF Call

\* A step of a call keeps what is loaded: the loading starts from nothing, and adds
\* one file at a time.
LEMMA StepTable ==
  ASSUME TypeOK, TableInv, WholeInv, NEW t \in Thread, Step(t)
  PROVE  TableInv' /\ WholeInv'
<1>0. TypeOK'
  BY StepTypes
<1>1. CASE \/ EndInstance(t) \/ Enter(t) \/ Leave(t)
           \/ FindTable(t) \/ ReadElement(t) \/ OpenEmbedded(t) \/ EndRead(t)
           \/ LookUpTable(t) \/ WalkElement(t) \/ WalkAstray(t) \/ EndWalk(t)
  <2>1. /\ table' = table /\ ttbFiles' = ttbFiles /\ erased' = erased /\ file' = file
    BY <1>1 DEF EndInstance, Enter, Leave, FindTable, ReadElement, OpenEmbedded, EndRead,
                LookUpTable, WalkElement, WalkAstray, EndWalk, interpreter
  <2>2. /\ pc[t] \notin {"loop", "parse"}
        /\ pc'[t] \notin {"loop", "parse", "reload", "unlock"}
        /\ \A u \in Thread \ {t} : pc'[u] = pc[u]
    <3>1. CASE EndInstance(t)
      BY <3>1 DEF EndInstance, TypeOK, Types
    <3>2. CASE Enter(t)
      BY <3>2 DEF Enter, TypeOK, Types
    <3>3. CASE Leave(t)
      BY <3>3 DEF Leave, TypeOK, Types
    <3>4. CASE FindTable(t)
      BY <3>4 DEF FindTable, TypeOK, Types
    <3>5. CASE ReadElement(t)
      BY <3>5 DEF ReadElement, TypeOK, Types
    <3>6. CASE EndRead(t)
      BY <3>6 DEF EndRead, TypeOK, Types
    <3>7. CASE OpenEmbedded(t)
      BY <3>7 DEF OpenEmbedded, TypeOK, Types
    <3>8. CASE LookUpTable(t)
      BY <3>8 DEF LookUpTable, TypeOK, Types
    <3>9. CASE WalkElement(t) \/ WalkAstray(t) \/ EndWalk(t)
      BY <3>9 DEF WalkElement, WalkAstray, EndWalk, TypeOK, Types
    <3> QED
      BY <1>1, <3>1, <3>2, <3>3, <3>4, <3>5, <3>6, <3>7, <3>8, <3>9
  <2> QED
    BY <2>1, <2>2, TableKept
<1>2. ASSUME HoldsLoadLock(t), \A u \in Thread \ {t} : pc'[u] = pc[u]
      PROVE  \A u \in Thread \ {t} : /\ pc[u] \notin {"loop", "parse", "reload", "unlock"}
                                     /\ pc'[u] \notin {"loop", "parse", "reload", "unlock"}
  BY <1>2, OneLoads DEF HoldsLoadLock
<1>3. CASE CheckErased(t)
  <2>1. /\ pc[t] = "check" /\ pc'[t] = "reload"
        /\ \A u \in Thread \ {t} : pc'[u] = pc[u]
    BY <1>3 DEF CheckErased, TypeOK, Types
  <2>2. \A u \in Thread \ {t} : /\ pc[u] \notin {"loop", "parse", "reload", "unlock"}
                                /\ pc'[u] \notin {"loop", "parse", "reload", "unlock"}
    BY <1>2, <2>1 DEF HoldsLoadLock
  <2>3. /\ ~ erased' /\ ttbFiles' = ttbFiles
        /\ table' = IF erased THEN <<>> ELSE table
    BY <1>3 DEF CheckErased, EraseTable, eraseTables, interpreter
  <2>4. Loaded(Len(table))' /\ \A i \in DOMAIN table' : table'[i].whole
    <3>1. CASE erased
      <4>1. Len(table') = 0 /\ DOMAIN table' = {} /\ Len(ttbFiles') \in Nat
        BY <1>0, <2>3, <3>1, LenProperties DEF TypeOK, Types
      <4> QED
        BY <4>1 DEF Loaded
    <3>2. CASE ~ erased
      <4>1. table' = table /\ Loaded(Len(table)) /\ \A i \in DOMAIN table : table[i].whole
        BY <2>1, <2>2, <2>3, <3>2 DEF TableInv, WholeInv
      <4> QED
        BY <2>3, <4>1 DEF Loaded
    <3> QED
      BY <3>1, <3>2
  <2> QED
    BY <2>1, <2>2, <2>3, <2>4, OneChecks
<1>4. CASE CheckLoaded(t)
  <2>1. /\ pc[t] = "reload" /\ pc'[t] \in {"unlock", "loop"}
        /\ \A u \in Thread \ {t} : pc'[u] = pc[u]
    BY <1>4 DEF CheckLoaded, TypeOK, Types
  <2>2. \A u \in Thread \ {t} : /\ pc[u] \notin {"loop", "parse", "reload", "unlock"}
                                /\ pc'[u] \notin {"loop", "parse", "reload", "unlock"}
    BY <1>2, <2>1 DEF HoldsLoadLock
  <2>3. /\ ~ erased /\ ~ erased' /\ ttbFiles' = ttbFiles /\ file'[t] = 1
    BY <1>4, <2>1 DEF CheckLoaded, interpreter, TableInv, TypeOK, Types
  <2>4. Loaded(Len(table)) /\ \A i \in DOMAIN table : table[i].whole
    BY <2>1, <2>2, <2>3 DEF TableInv, WholeInv
  <2>5. \/ table' = <<>>
        \/ table' = table /\ pc'[t] = "unlock"
    BY <1>4 DEF CheckLoaded, EraseTable, eraseTables, TypeOK, Types
  <2>6. /\ Loaded(Len(table))' /\ (pc'[t] = "loop" => Loaded(file[t] - 1)')
        /\ \A i \in DOMAIN table' : table'[i].whole
    <3>1. CASE table' = <<>>
      <4>1. Len(table') = 0 /\ DOMAIN table' = {} /\ Len(ttbFiles') \in Nat
        BY <1>0, <3>1, LenProperties DEF TypeOK, Types
      <4> QED
        BY <2>3, <4>1 DEF Loaded
    <3>2. CASE table' = table /\ pc'[t] = "unlock"
      BY <2>3, <2>4, <3>2 DEF Loaded
    <3> QED
      BY <2>5, <3>1, <3>2
  <2> QED
    BY <2>1, <2>2, <2>3, <2>6, OneChecks
<1>5. CASE BeginFile(t)
  <2>1. /\ pc[t] = "loop" /\ pc'[t] = "parse"
        /\ \A u \in Thread \ {t} : pc'[u] = pc[u]
    BY <1>5 DEF BeginFile, TypeOK, Types
  <2>2. \A u \in Thread \ {t} : /\ pc[u] \notin {"loop", "parse", "reload", "unlock"}
                                /\ pc'[u] \notin {"loop", "parse", "reload", "unlock"}
    BY <1>2, <2>1 DEF HoldsLoadLock
  <2>3. ~ erased' /\ Parsing(file[t])'
    <3>1. ~ erased /\ Loaded(file[t] - 1)
      BY <2>1 DEF TableInv
    <3> QED
      BY <1>5, <3>1, BeginFileTable DEF BeginFile
  <2> QED
    <3>1. ASSUME NEW u \in Thread, pc'[u] = "parse"
          PROVE  Parsing(file[u])'
      BY <2>2, <2>3, <3>1
    <3> QED
      BY <2>1, <2>2, <2>3, <3>1 DEF TableInv, WholeInv
<1>6. CASE EndFile(t)
  <2>1. /\ pc[t] = "parse" /\ pc'[t] = "loop"
        /\ \A u \in Thread \ {t} : pc'[u] = pc[u]
    BY <1>6 DEF EndFile, TypeOK, Types
  <2>2. \A u \in Thread \ {t} : /\ pc[u] \notin {"loop", "parse", "reload", "unlock"}
                                /\ pc'[u] \notin {"loop", "parse", "reload", "unlock"}
    BY <1>2, <2>1 DEF HoldsLoadLock
  <2>3. ~ erased /\ Parsing(file[t]) /\ erased' = erased
    BY <1>6, <2>1 DEF TableInv, EndFile
  <2>4. /\ Loaded(file[t] - 1)'
        /\ \A i \in DOMAIN table' : table'[i].whole
    BY <1>6, <2>3, EndFileTable
  <2> QED
    <3>1. ASSUME NEW u \in Thread, pc'[u] = "loop"
          PROVE  Loaded(file[u] - 1)'
      BY <2>2, <2>4, <3>1
    <3> QED
      BY <2>1, <2>2, <2>3, <2>4, <3>1 DEF TableInv, WholeInv
<1>7. CASE FileNotFound(t) \/ EndLoop(t)
  <2>1. /\ pc[t] = "loop" /\ pc'[t] \in {"idle", "unlock"}
        /\ \A u \in Thread \ {t} : pc'[u] = pc[u]
    BY <1>7 DEF FileNotFound, EndLoop, TypeOK, Types
  <2>2. \A u \in Thread \ {t} : /\ pc[u] \notin {"loop", "parse", "reload", "unlock"}
                                /\ pc'[u] \notin {"loop", "parse", "reload", "unlock"}
    BY <1>2, <2>1 DEF HoldsLoadLock
  <2>3. /\ ttbFiles' = ttbFiles /\ table' = table /\ erased' = erased
    BY <1>7 DEF FileNotFound, EndLoop, interpreter
  <2>4. ~ erased /\ Loaded(file[t] - 1)
    BY <2>1 DEF TableInv
  <2>5. Loaded(Len(table))'
    BY <2>3, <2>4 DEF Loaded
  <2>6. \A i \in DOMAIN table' : table'[i].whole
    BY <2>1, <2>2, <2>3 DEF WholeInv
  <2> QED
    BY <2>1, <2>2, <2>3, <2>4, <2>5, <2>6, OneChecks
<1> QED
  BY <1>1, <1>3, <1>4, <1>5, <1>6, <1>7 DEF Step

-----------------------------------------------------------------------------
\* Steps and the readers

\* The files of what is loaded are registered.
LEMMA LoadedFiles ==
  ASSUME TypeOK, Loaded(Len(table)), NEW i \in DOMAIN table
  PROVE  table[i].file \in Tables(ttbFiles)
<1>1. i \in 1 .. Len(table) /\ Len(table) \in Nat /\ Len(ttbFiles) \in Nat
  BY LenProperties DEF TypeOK, Types
<1>2. /\ Len(table) <= Len(ttbFiles)
      /\ table[i] = [file |-> ttbFiles[i], whole |-> TRUE]
  BY <1>1 DEF Loaded
<1>3. i \in DOMAIN ttbFiles
  BY <1>1, <1>2, LenProperties DEF TypeOK, Types
<1>4. table[i].file = ttbFiles[i]
  BY <1>2
<1> QED
  BY <1>3, <1>4 DEF Tables

\* A step that changes neither the tables nor what is registered, and takes no thread
\* into the table, keeps what the readers know.
LEMMA RegKept ==
  ASSUME RegInv, table' = table, ttbFiles' = ttbFiles, registered' = registered, seen' = seen,
         freed' = freed,
         \A u \in Thread :
           /\ pc'[u] \in Looking => pc'[u] = pc[u]
           /\ embedded'[u] /\ pc'[u] # "reading" => embedded[u] /\ pc[u] # "reading"
           /\ pc'[u] \notin {"idle", "instance"} => pc[u] \notin {"idle", "instance"}
  PROVE  RegInv'
<1> SUFFICES ASSUME NEW u \in Thread
             PROVE  /\ pc'[u] \notin {"idle", "instance"} => Tables(ttbFiles) \subseteq registered[u]
                    /\ pc'[u] \in Looking =>
                         \A i \in DOMAIN table : table[i].file \in registered[u]
                    /\ Loops(u)' => \A e \in seen[u] : e.file \in registered[u]
                    /\ embedded'[u] /\ pc'[u] # "reading" => seen[u] = {}
  BY DEF RegInv, Tables
<1>1. Loops(u)' => Loops(u)
  BY DEF Loops, Looking
<1> QED
  BY <1>1 DEF RegInv

\* A call registers its tables with every thread, or drops some, or begins with what is
\* registered.
LEMMA CallReg ==
  ASSUME TypeOK, RegInv, NEW t \in Thread, Call(t)
  PROVE  RegInv'
<1>1. ASSUME InterpreterCall(t), NEW ts \in Seq(Table), Register(ts)
      PROVE  RegInv'
  <2>1. Tables(ttbFiles') \subseteq Tables(ttbFiles) \cup Tables(ts)
    <3>1. ASSUME NEW i \in DOMAIN ttbFiles'
          PROVE  ttbFiles'[i] \in Tables(ttbFiles) \cup Tables(ts)
      <4>1. /\ Len(ttbFiles) \in Nat /\ Len(ts) \in Nat
            /\ DOMAIN ttbFiles = 1 .. Len(ttbFiles) /\ DOMAIN ts = 1 .. Len(ts)
            /\ ttbFiles' \in Seq(Table) /\ Len(ttbFiles') = Len(ttbFiles) + Len(ts)
            /\ \A j \in 1 .. Len(ttbFiles) + Len(ts) :
                 ttbFiles'[j] = IF j <= Len(ttbFiles) THEN ttbFiles[j] ELSE ts[j - Len(ttbFiles)]
        BY <1>1, ConcatProperties, LenProperties DEF Register, TypeOK, Types
      <4>2. i \in 1 .. Len(ttbFiles) + Len(ts)
        BY <4>1, LenProperties
      <4>3. CASE i <= Len(ttbFiles)
        BY <4>1, <4>2, <4>3 DEF Tables
      <4>4. CASE ~ i <= Len(ttbFiles)
        <5>1. i - Len(ttbFiles) \in DOMAIN ts
          BY <4>1, <4>2, <4>4
        <5> QED
          BY <4>1, <4>2, <4>4, <5>1 DEF Tables
      <4> QED
        BY <4>3, <4>4
    <3> QED
      BY <3>1 DEF Tables
  <2>2. \A u \in Thread : registered'[u] = registered[u] \cup Tables(ts)
    BY <1>1 DEF Register
  <2>3. table' = table /\ seen' = seen /\ pc' = pc /\ freed' = freed /\ embedded' = embedded
    BY <1>1 DEF InterpreterCall, reader
  <2>4. Tables(ttbFiles)' = Tables(ttbFiles')
    BY DEF Tables
  <2> QED
    BY <2>1, <2>2, <2>3, <2>4 DEF RegInv, Loops
<1>2. ASSUME InterpreterCall(t), ttbFiles' = ttbFiles, registered' = registered
      PROVE  RegInv'
  BY <1>2, RegKept DEF InterpreterCall, reader
<1>3. CASE LoadDefault(t)
  <2>1. <<DefaultTable>> \in Seq(Table)
    BY TableAssumption
  <2> QED
    BY <1>1, <1>2, <1>3, <2>1 DEF LoadDefault
<1>4. ASSUME NEW info \in Info, privateLoad(t, info)
      PROVE  RegInv'
  <2>1. TablesOf[info] \in Seq(Table)
    BY TableAssumption
  <2> QED
    BY <1>1, <1>2, <1>4, <2>1 DEF privateLoad
<1>5. ASSUME NEW m \in MemoryTable \cup {NoTable}, loadMemory(t, m)
      PROVE  RegInv'
  <2>1. (IF m = NoTable THEN <<>> ELSE <<m>>) \in Seq(Table)
    BY TableAssumption
  <2> QED
    BY <1>1, <1>5, <2>1 DEF loadMemory
<1>6. CASE EraseDefinitions(t)
  <2>1. /\ table' = table /\ seen' = seen /\ pc' = pc /\ registered' = registered
        /\ ttbFiles' = <<>> /\ freed' = freed /\ embedded' = embedded
    BY <1>6 DEF EraseDefinitions, privateEraseCommon, InterpreterCall, reader
  <2>2. Tables(ttbFiles)' = {}
    BY <2>1 DEF Tables
  <2> QED
    BY <2>1, <2>2 DEF RegInv, Loops
<1>7. CASE BeginInstance(t)
  <2>1. \A u \in Thread : pc'[u] = IF u = t THEN "instance" ELSE pc[u]
    BY <1>7 DEF BeginInstance, TypeOK, Types
  <2>2. /\ table' = table /\ ttbFiles' = ttbFiles /\ registered' = registered /\ seen' = seen
        /\ freed' = freed /\ embedded' = embedded /\ pc[t] = "idle"
    BY <1>7 DEF BeginInstance, interpreter, reader
  <2> QED
    BY <2>1, <2>2, RegKept DEF Looking
<1>8. CASE BeginAccess(t)
  <2>1. \A u \in Thread : pc'[u] = IF u = t THEN "enter" ELSE pc[u]
    BY <1>8 DEF BeginAccess, TypeOK, Types
  <2>2. /\ table' = table /\ ttbFiles' = ttbFiles /\ seen' = seen
        /\ freed' = freed /\ embedded' = embedded /\ pc[t] = "idle" /\ ~ embedded[t]
        /\ \A u \in Thread : registered'[u] = IF u = t THEN Tables(ttbFiles) ELSE registered[u]
    BY <1>8 DEF BeginAccess, interpreter, reader, TypeOK, Types, Positions
  <2>3. Tables(ttbFiles)' = Tables(ttbFiles)
    BY <2>2 DEF Tables
  <2> QED
    BY <2>1, <2>2, <2>3 DEF RegInv, Loops, Looking
<1> QED
  BY <1>3, <1>4, <1>5, <1>6, <1>7, <1>8 DEF Call

\* A step of a call puts no table in front of a reader that its call does not know.
LEMMA StepReg ==
  ASSUME TypeOK, TableInv, RegInv, NEW t \in Thread, Step(t)
  PROVE  RegInv'
<1>0. ttbFiles' = ttbFiles /\ registered' = registered /\ Tables(ttbFiles)' = Tables(ttbFiles)
  <2>1. ttbFiles' = ttbFiles /\ registered' = registered
    BY DEF Step, EndInstance, Enter, CheckErased, CheckLoaded, BeginFile, EndFile,
           FileNotFound, EndLoop, Leave, FindTable, ReadElement, OpenEmbedded, EndRead,
           LookUpTable, WalkElement, WalkAstray, EndWalk, interpreter
  <2> QED
    BY <2>1 DEF Tables
<1>1. ASSUME seen' = seen, embedded' = embedded, \A u \in Thread : freed[u] => freed'[u],
             pc[t] \notin {"idle", "instance", "reading"},
             \A u \in Thread \ {t} : pc'[u] = pc[u],
             pc'[t] \notin Looking,
             \A u \in Thread : pc[u] \in Looking =>
               \A i \in DOMAIN table' : table'[i].file \in registered[u]
      PROVE  RegInv'
  <2> SUFFICES ASSUME NEW u \in Thread
               PROVE  /\ pc'[u] \notin {"idle", "instance"} => Tables(ttbFiles) \subseteq registered[u]
                      /\ pc'[u] \in Looking =>
                           \A i \in DOMAIN table' : table'[i].file \in registered[u]
                      /\ Loops(u)' => \A e \in seen[u] : e.file \in registered[u]
                      /\ embedded[u] /\ pc'[u] # "reading" => seen[u] = {}
    BY <1>0, <1>1 DEF RegInv
  <2>1. Loops(u)' => Loops(u)
    BY <1>1 DEF Loops, Looking
  <2> QED
    BY <1>1, <2>1 DEF RegInv
<1>2. CASE \/ EndInstance(t) \/ Enter(t) \/ FileNotFound(t) \/ EndLoop(t) \/ EndRead(t)
           \/ EndWalk(t)
  <2>1. table' = table /\ seen' = seen /\ freed' = freed
    BY <1>2 DEF EndInstance, Enter, FileNotFound, EndLoop, EndRead, EndWalk, reader
  <2>2. /\ \A u \in Thread \ {t} : pc'[u] = pc[u]
        /\ pc'[t] \notin Looking
        /\ pc'[t] \notin {"idle", "instance"} => pc[t] \notin {"idle", "instance"}
    BY <1>2 DEF EndInstance, Enter, FileNotFound, EndLoop, EndRead, EndWalk, Looking, TypeOK, Types
  <2>3. \A u \in Thread :
          embedded'[u] /\ pc'[u] # "reading" => embedded[u] /\ pc[u] # "reading"
    BY <1>2, <2>2 DEF EndInstance, Enter, FileNotFound, EndLoop, EndRead, EndWalk, reader, TypeOK, Types
  <2> QED
    BY <1>0, <2>1, <2>2, <2>3, RegKept
<1>3. CASE CheckErased(t) \/ CheckLoaded(t)
  <2>1. table' = table \/ table' = <<>>
    BY <1>3 DEF CheckErased, CheckLoaded, EraseTable, eraseTables
  <2>2. /\ seen' = seen /\ embedded' = embedded /\ pc[t] \in {"check", "reload"}
        /\ \A u \in Thread \ {t} : pc'[u] = pc[u]
        /\ pc'[t] \notin Looking
    BY <1>3 DEF CheckErased, CheckLoaded, Looking, TypeOK, Types
  <2>4. \A u \in Thread : freed[u] => freed'[u]
    BY <1>3 DEF CheckErased, CheckLoaded, EraseTable, eraseTables, TypeOK, Types
  <2>3. \A u \in Thread : pc[u] \in Looking =>
          \A i \in DOMAIN table' : table'[i].file \in registered[u]
    BY <2>1 DEF RegInv
  <2> QED
    BY <1>1, <2>2, <2>3, <2>4
<1>4. CASE BeginFile(t)
  <2>1. Loaded(file[t] - 1)
    BY <1>4 DEF TableInv, BeginFile
  <2>2. /\ Parsing(file[t])' /\ Len(table') = Len(table) + 1
        /\ \A i \in DOMAIN table : table'[i] = table[i]
        /\ table'[Len(table')].file = ttbFiles[file[t]]
    BY <1>4, <2>1, BeginFileTable
  <2>3. ttbFiles[file[t]] \in Tables(ttbFiles)
    BY <1>4, LenProperties DEF BeginFile, Tables, TypeOK, Types
  <2>4. DOMAIN table' = DOMAIN table \cup {Len(table')}
    <3>1. TypeOK'
      BY StepTypes
    <3>2. DOMAIN table' = 1 .. Len(table') /\ DOMAIN table = 1 .. Len(table) /\ Len(table) \in Nat
      BY <3>1, LenProperties DEF TypeOK, Types
    <3> QED
      BY <2>2, <3>2
  <2>5. ASSUME NEW u \in Thread, pc[u] \in Looking, NEW i \in DOMAIN table'
        PROVE  table'[i].file \in registered[u]
    BY <2>2, <2>3, <2>4, <2>5 DEF RegInv, Looking
  <2>6. /\ seen' = seen /\ freed' = freed /\ embedded' = embedded
        /\ pc[t] = "loop" /\ pc'[t] = "parse"
        /\ \A u \in Thread \ {t} : pc'[u] = pc[u]
    BY <1>4 DEF BeginFile, reader, TypeOK, Types
  <2> QED
    BY <1>1, <2>5, <2>6 DEF Looking
<1>5. CASE EndFile(t)
  <2>1. /\ seen' = seen /\ freed' = freed /\ embedded' = embedded
        /\ pc[t] = "parse" /\ pc'[t] = "loop"
        /\ \A u \in Thread \ {t} : pc'[u] = pc[u]
    BY <1>5 DEF EndFile, reader, TypeOK, Types
  <2>2. Parsing(file[t])
    BY <2>1 DEF TableInv
  <2>3. /\ DOMAIN table' = DOMAIN table
        /\ \A i \in DOMAIN table : table'[i].file = table[i].file
    BY <1>5, <2>2, EndFileTable
  <2>4. \A u \in Thread : pc[u] \in Looking =>
          \A i \in DOMAIN table' : table'[i].file \in registered[u]
    BY <2>3 DEF RegInv
  <2> QED
    BY <1>1, <2>1, <2>4 DEF Looking
<1>6. CASE Leave(t)
  <2>1. /\ pc[t] = "unlock" /\ pc'[t] \in {"reading", "find", "look", "idle"}
        /\ pc'[t] = "reading" => embedded[t]
        /\ embedded[t] => pc'[t] = "reading"
        /\ \A u \in Thread \ {t} : pc'[u] = pc[u]
        /\ table' = table /\ seen' = seen /\ freed' = freed /\ embedded' = embedded
    <3>1. PICK next \in {"reading", "find", "look", "idle"} :
            /\ pc' = [pc EXCEPT ![t] = next]
            /\ next = "reading" <=> embedded[t]
      BY <1>6 DEF Leave
    <3> QED
      BY <1>6, <3>1 DEF Leave, reader, TypeOK, Types
  <2>2. ~ erased /\ \A u \in Thread : pc[u] \notin {"loop", "parse"}
    BY <2>1, OneLoads DEF TableInv, HoldsLoadLock
  <2>3. Loaded(Len(table))
    BY <2>2 DEF TableInv
  <2>4. \A i \in DOMAIN table : table[i].file \in registered[t]
    BY <2>1, <2>3, LoadedFiles DEF RegInv
  <2> SUFFICES ASSUME NEW u \in Thread
               PROVE  /\ pc'[u] \notin {"idle", "instance"} => Tables(ttbFiles) \subseteq registered[u]
                      /\ pc'[u] \in Looking =>
                           \A i \in DOMAIN table : table[i].file \in registered[u]
                      /\ Loops(u)' => \A e \in seen[u] : e.file \in registered[u]
                      /\ embedded[u] /\ pc'[u] # "reading" => seen[u] = {}
    BY <1>0, <2>1 DEF RegInv
  <2>5. CASE u = t
    BY <2>1, <2>4, <2>5 DEF RegInv, Loops
  <2>6. CASE u # t
    BY <2>1, <2>6 DEF RegInv, Loops
  <2> QED
    BY <2>5, <2>6
<1>7. CASE FindTable(t) \/ LookUpTable(t) \/ OpenEmbedded(t)
  <2>1. /\ pc[t] \in Looking /\ table' = table
        /\ \A u \in Thread \ {t} :
             pc'[u] = pc[u] /\ seen'[u] = seen[u] /\ freed'[u] = freed[u] /\ embedded'[u] = embedded[u]
        /\ \/ pc'[t] = "idle" /\ ~ embedded'[t]
           \/ pc'[t] \in {"reading", "walking", "enter"} /\ seen'[t] = {}
    <3>1. CASE FindTable(t)
      BY <3>1 DEF FindTable, BeginLoop, Looking, TypeOK, Types, Positions
    <3>2. CASE LookUpTable(t)
      BY <3>2 DEF LookUpTable, BeginLoop, Looking, TypeOK, Types, Positions
    <3>3. CASE OpenEmbedded(t)
      BY <3>3 DEF OpenEmbedded, BeginLoop, Looking, TypeOK, Types, Positions
    <3> QED
      BY <1>7, <3>1, <3>2, <3>3
  <2>2. Tables(ttbFiles) \subseteq registered[t] /\ \A i \in DOMAIN table : table[i].file \in registered[t]
    BY <2>1 DEF RegInv, Looking
  <2> SUFFICES ASSUME NEW u \in Thread
               PROVE  /\ pc'[u] \notin {"idle", "instance"} => Tables(ttbFiles) \subseteq registered[u]
                      /\ pc'[u] \in Looking =>
                           \A i \in DOMAIN table : table[i].file \in registered[u]
                      /\ Loops(u)' => \A e \in seen'[u] : e.file \in registered[u]
                      /\ embedded'[u] /\ pc'[u] # "reading" => seen'[u] = {}
    BY <1>0, <2>1 DEF RegInv
  <2>3. CASE u = t
    BY <2>1, <2>2, <2>3 DEF Loops
  <2>4. CASE u # t
    BY <2>1, <2>4 DEF RegInv, Loops
  <2> QED
    BY <2>3, <2>4
<1>8. CASE ReadElement(t) \/ WalkElement(t)
  <2>1. /\ pc[t] \in {"reading", "walking"} /\ Loops(t) /\ table' = table /\ pc' = pc
        /\ embedded' = embedded /\ freed' = freed
        /\ embedded[t] => pc[t] = "reading"
        /\ \A u \in Thread \ {t} : seen'[u] = seen[u]
        /\ seen'[t] = seen[t] \cup {table[pos[t]]}
    BY <1>8 DEF ReadElement, WalkElement, Loops, TypeOK, Types, Positions
  <2>2. pos[t] \in DOMAIN table
    BY <1>8, LenProperties DEF ReadElement, WalkElement, TypeOK, Types
  <2> QED
    BY <1>0, <2>1, <2>2 DEF RegInv, Loops, Looking
<1>9. CASE WalkAstray(t)
  <2>1. /\ pc[t] = "walking" /\ table' = table /\ pc' = pc /\ embedded' = embedded
        /\ \A u \in Thread \ {t} : seen'[u] = seen[u] /\ freed'[u] = freed[u]
        /\ freed'[t] /\ ~ embedded[t]
    BY <1>9 DEF WalkAstray, TypeOK, Types, Positions
  <2> QED
    BY <1>0, <2>1 DEF RegInv, Loops, Looking
<1> QED
  BY <1>2, <1>3, <1>4, <1>5, <1>6, <1>7, <1>8, <1>9 DEF Step

\* A reader meets a partial entry only where its loading takes no lock.
LEMMA StepPartial ==
  ASSUME TypeOK, TableInv, WholeInv, RegInv, PartialOnlyDefault, NEW t \in Thread, Step(t)
  PROVE  PartialOnlyDefault'
<1>1. ASSUME NEW u \in Thread, pc'[u] = "reading", seen'[u] \subseteq seen[u] \/ seen'[u] = {},
             pc[u] = "reading" \/ seen'[u] = {}
      PROVE  \A e \in seen'[u] : e.whole \/ e.file = DefaultTable
  BY <1>1 DEF PartialOnlyDefault
<1>2. ASSUME NEW u \in Thread, pc'[u] = "reading", ReadElement(t), u = t
      PROVE  \A e \in seen'[u] : e.whole \/ e.file = DefaultTable
  <2>1. /\ pc[t] = "reading" /\ seen'[t] = seen[t] \cup {table[pos[t]]}
    BY <1>2 DEF ReadElement, TypeOK, Types
  <2>2. pos[t] \in DOMAIN table
    BY <1>2, LenProperties DEF ReadElement, TypeOK, Types
  <2>3. table[pos[t]].whole \/ table[pos[t]].file = DefaultTable
    <3>1. CASE \A v \in Thread : pc[v] # "parse"
      BY <2>2, <3>1 DEF WholeInv
    <3>2. ASSUME NEW v \in Thread, pc[v] = "parse"
          PROVE  table[pos[t]].whole \/ table[pos[t]].file = DefaultTable
      <4>1. Parsing(file[v])
        BY <3>2 DEF TableInv
      <4>2. msLock = t /\ (TakesLock(ttbFiles[file[v]]) => msLock = v) /\ v # t
        BY <2>1, <3>2 DEF TypeOK, Locks, HoldsTableLock, Reads
      <4>3. ttbFiles[file[v]] = DefaultTable
        BY <4>2 DEF TakesLock
      <4>4. DOMAIN table = 1 .. file[v] /\ file[v] \in Nat \ {0}
        BY <4>1, LenProperties DEF Parsing, TypeOK, Types
      <4>5. CASE pos[t] = file[v]
        BY <4>1, <4>3, <4>5 DEF Parsing
      <4>6. CASE pos[t] # file[v]
        <5>1. pos[t] \in 1 .. file[v] - 1
          BY <2>2, <4>4, <4>6
        <5>2. table[pos[t]] = [file |-> ttbFiles[pos[t]], whole |-> TRUE]
          BY <4>1, <5>1 DEF Parsing
        <5> QED
          BY <5>2
      <4> QED
        BY <4>5, <4>6
    <3> QED
      BY <3>1, <3>2
  <2> QED
    BY <1>2, <2>1, <2>3 DEF PartialOnlyDefault
<1>3. CASE ReadElement(t)
  <2>1. \A u \in Thread \ {t} : pc'[u] = pc[u] /\ seen'[u] = seen[u]
    BY <1>3 DEF ReadElement, TypeOK, Types
  <2> QED
    BY <1>2, <1>3, <2>1 DEF PartialOnlyDefault
<1>4. CASE ~ ReadElement(t)
  <2>1. \A u \in Thread : pc'[u] = "reading" =>
          \/ pc[u] = "reading" /\ seen'[u] = seen[u]
          \/ seen'[u] = {}
    <3>1. CASE Leave(t)
      <4>1. \A u \in Thread \ {t} : pc'[u] = pc[u]
        BY <3>1 DEF Leave, TypeOK, Types
      <4>2. pc'[t] = "reading" => embedded[t]
        <5>1. PICK next \in {"reading", "find", "look", "idle"} :
                /\ pc' = [pc EXCEPT ![t] = next]
                /\ next = "reading" <=> embedded[t]
          BY <3>1 DEF Leave
        <5> QED
          BY <5>1 DEF TypeOK, Types
      <4>3. seen' = seen /\ pc[t] = "unlock"
        BY <3>1 DEF Leave, reader
      <4>4. embedded[t] => seen[t] = {}
        BY <4>3 DEF RegInv
      <4> QED
        BY <4>1, <4>2, <4>3, <4>4
    <3>2. CASE FindTable(t) \/ OpenEmbedded(t) \/ LookUpTable(t)
      BY <3>2 DEF FindTable, OpenEmbedded, LookUpTable, BeginLoop, TypeOK, Types
    <3>3. CASE WalkElement(t) \/ WalkAstray(t)
      BY <3>3 DEF WalkElement, WalkAstray, TypeOK, Types
    <3>4. CASE CheckErased(t) \/ CheckLoaded(t)
      BY <3>4 DEF CheckErased, CheckLoaded, TypeOK, Types
    <3>5. CASE \/ EndInstance(t) \/ Enter(t) \/ BeginFile(t) \/ EndFile(t) \/ FileNotFound(t)
               \/ EndLoop(t) \/ EndRead(t) \/ EndWalk(t)
      BY <3>5 DEF EndInstance, Enter, BeginFile, EndFile, FileNotFound, EndLoop, EndRead, EndWalk,
                  reader, TypeOK, Types
    <3> QED
      BY <1>4, <3>1, <3>2, <3>3, <3>4, <3>5 DEF Step
  <2> QED
    BY <2>1 DEF PartialOnlyDefault
<1> QED
  BY <1>3, <1>4

\* A call begins no reading.
LEMMA CallPartial ==
  ASSUME TypeOK, PartialOnlyDefault, NEW t \in Thread, Call(t)
  PROVE  PartialOnlyDefault'
<1>1. /\ seen' = seen
      /\ \A u \in Thread : pc'[u] = "reading" => pc[u] = "reading"
  BY DEF Call, LoadDefault, privateLoad, loadMemory, EraseDefinitions, BeginInstance,
         BeginAccess, InterpreterCall, reader, TypeOK, Types
<1> QED
  BY <1>1 DEF PartialOnlyDefault

-----------------------------------------------------------------------------
\* The inductive invariant

\* A step that changes nothing keeps it.
LEMMA Stutter ==
  ASSUME IInv, UNCHANGED vars
  PROVE  IInv'
<1>1. TypeOK'
  BY StutterTypes DEF IInv
<1>2. TableInv' /\ WholeInv'
  BY TableKept DEF IInv, vars, interpreter
<1>3. RegInv'
  BY RegKept DEF IInv, vars, interpreter, reader
<1>4. PartialOnlyDefault'
  BY DEF IInv, PartialOnlyDefault, vars, reader
<1> QED
  BY <1>1, <1>2, <1>3, <1>4 DEF IInv

\* Nothing is loaded at first.
LEMMA InitIInv ==
  ASSUME Init, TypeOK
  PROVE  IInv
<1>1. Loaded(Len(table)) /\ DOMAIN table = {}
  BY LenProperties DEF Init, Loaded, TypeOK, Types
<1>2. TableInv /\ WholeInv
  BY <1>1 DEF Init, TableInv, WholeInv
<1>3. RegInv /\ PartialOnlyDefault
  BY DEF Init, RegInv, PartialOnlyDefault, Looking, Loops
<1> QED
  BY <1>2, <1>3 DEF IInv

\* The inductive invariant holds in every reachable state.
THEOREM Invariance == Spec => []IInv
<1>1. Init /\ TypeOK => IInv
  BY InitIInv
<1>2. IInv /\ [Next]_vars => IInv'
  <2> SUFFICES ASSUME IInv, [Next]_vars PROVE IInv'
    OBVIOUS
  <2>1. ASSUME NEW t \in Thread, Call(t)
        PROVE  IInv'
    BY <2>1, CallTypes, CallTable, CallReg, CallPartial DEF IInv
  <2>2. ASSUME NEW t \in Thread, Step(t)
        PROVE  IInv'
    BY <2>2, StepTypes, StepTable, StepReg, StepPartial DEF IInv
  <2>3. CASE UNCHANGED vars
    BY <2>3, Stutter
  <2> QED
    BY <2>1, <2>2, <2>3 DEF Next
<1> QED
  BY <1>1, <1>2, TypeCorrect, PTL DEF Spec

-----------------------------------------------------------------------------
\* What it gives

\* Between two calls the table is a beginning of the registered files, whole and in
\* their order, unless an erase is still to be heeded.
THEOREM Coherent == Spec => []TableFromRegistered
<1>1. IInv => TableFromRegistered
  <2> SUFFICES ASSUME IInv, loadLock = NoThread, ~ erased
               PROVE  Loaded(Len(table))
    BY DEF TableFromRegistered
  <2>1. \A t \in Thread : ~ HoldsLoadLock(t)
    BY ThreadAssumption DEF IInv, TypeOK, Locks
  <2> QED
    BY <2>1 DEF IInv, TableInv, HoldsLoadLock
<1> QED
  BY <1>1, Invariance, PTL

\* No call reads a table that was erased before it began; a reader without the lock does
\* not, until its column is deleted or moved under it.
THEOREM ReadsKnown == Spec => []ReadsRegistered
<1>1. IInv => ReadsRegistered
  BY DEF IInv, RegInv, ReadsRegistered
<1> QED
  BY <1>1, Invariance, PTL

\* No reader that holds the lock sees a file half loaded, except the default table.
THEOREM WholeButDefault == Spec => []PartialOnlyDefault
<1>1. IInv => PartialOnlyDefault
  BY DEF IInv
<1> QED
  BY <1>1, Invariance, PTL

\* Both together: what a reader of the table sees.
THEOREM SeenIsCurrent == Spec => []ReadsCurrent
<1>1. ReadsRegistered /\ PartialOnlyDefault => ReadsCurrent
  BY DEF ReadsCurrent
<1> QED
  BY <1>1, ReadsKnown, WholeButDefault, PTL

\* When the tables are recorded as loaded, all those registered are in.
THEOREM AllLoaded == Spec => LoadsAll
<1>1. ASSUME IInv, [Next]_vars
      PROVE  [~ translationTableLoaded /\ translationTableLoaded' => Loaded(Len(ttbFiles))]_vars
  <2> SUFFICES ASSUME ~ translationTableLoaded, translationTableLoaded'
               PROVE  Loaded(Len(ttbFiles))
    OBVIOUS
  <2>1. PICK t \in Thread : EndLoop(t)
    BY <1>1 DEF Next, Call, LoadDefault, privateLoad, loadMemory, EraseDefinitions,
                BeginInstance, BeginAccess, InterpreterCall, Step, EndInstance, Enter,
                CheckErased, CheckLoaded, BeginFile, EndFile, FileNotFound, Leave,
                FindTable, ReadElement, OpenEmbedded, EndRead, LookUpTable,
                WalkElement, WalkAstray, EndWalk, reader, vars
  <2>2. Loaded(file[t] - 1)
    BY <1>1, <2>1 DEF EndLoop, IInv, TableInv
  <2>3. file[t] > Len(ttbFiles) /\ file[t] \in Nat \ {0} /\ Len(ttbFiles) \in Nat
    BY <1>1, <2>1, LenProperties DEF EndLoop, LastFile, IInv, TypeOK, Types
  <2>4. file[t] - 1 = Len(ttbFiles)
    BY <2>2, <2>3 DEF Loaded
  <2> QED
    BY <2>2, <2>4
<1> QED
  BY <1>1, Invariance, PTL DEF Spec, LoadsAll

\* While a thread reads the table under its lock, the table loses nothing.
THEOREM Stable == Spec => StableWhileRead
<1>1. ASSUME IInv, [Next]_vars
      PROVE  [(\E t \in Thread : Reads(t)) =>
                \A i \in DOMAIN table : i \in DOMAIN table' /\ table'[i].file = table[i].file]_vars
  <2> SUFFICES ASSUME NEW r \in Thread, Reads(r)
               PROVE  \A i \in DOMAIN table :
                        i \in DOMAIN table' /\ table'[i].file = table[i].file
    OBVIOUS
  <2>1. CASE table' = table
    BY <2>1
  <2>2. msLock # NoThread
    BY <1>1, ThreadAssumption DEF IInv, TypeOK, Locks, HoldsTableLock
  <2>3. ASSUME table' # table
        PROVE  \E t \in Thread : BeginFile(t) \/ EndFile(t)
    BY <1>1, <2>2, <2>3
       DEF Next, Call, LoadDefault, privateLoad, loadMemory, EraseDefinitions,
           BeginInstance, BeginAccess, InterpreterCall, Step, EndInstance, Enter,
           CheckErased, CheckLoaded, EraseTable, FileNotFound, EndLoop, Leave,
           FindTable, ReadElement, OpenEmbedded, EndRead, LookUpTable,
                WalkElement, WalkAstray, EndWalk, reader, vars
  <2>4. ASSUME NEW t \in Thread, BeginFile(t)
        PROVE  \A i \in DOMAIN table :
                 i \in DOMAIN table' /\ table'[i].file = table[i].file
    <3>1. Loaded(file[t] - 1)
      BY <1>1, <2>4 DEF BeginFile, IInv, TableInv
    <3>2. Len(table') = Len(table) + 1 /\ \A i \in DOMAIN table : table'[i] = table[i]
      BY <1>1, <2>4, <3>1, BeginFileTable DEF IInv
    <3>3. /\ DOMAIN table = 1 .. Len(table) /\ DOMAIN table' = 1 .. Len(table')
          /\ Len(table) \in Nat
      <4>1. TypeOK'
        BY <1>1, <2>4, StepTypes DEF IInv, Step
      <4> QED
        BY <1>1, <4>1, LenProperties DEF IInv, TypeOK, Types
    <3> QED
      BY <3>2, <3>3
  <2>5. ASSUME NEW t \in Thread, EndFile(t)
        PROVE  \A i \in DOMAIN table :
                 i \in DOMAIN table' /\ table'[i].file = table[i].file
    <3>1. Parsing(file[t])
      BY <1>1, <2>5 DEF EndFile, IInv, TableInv
    <3> QED
      BY <1>1, <2>5, <3>1, EndFileTable DEF IInv
  <2> QED
    BY <2>1, <2>3, <2>4, <2>5
<1> QED
  BY <1>1, Invariance, PTL DEF Spec, StableWhileRead
=============================================================================
