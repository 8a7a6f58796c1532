------------------------ MODULE BrowserDownloadProofs ------------------------
(***************************************************************************)
(* What the receiving page of app.js keeps over any number of attempts at  *)
(* a file, for every file size, interval between records and content of    *)
(* the file the user picks for overwriting.                                *)
(***************************************************************************)
EXTENDS BrowserDownload, TLAPS

-----------------------------------------------------------------------------
(* Writing at a position.                                                  *)

\* PutAt stores the unit at its position and disturbs nothing that was there.
LEMMA PutAtWrites ==
    ASSUME NEW S, NEW content \in Seq(S), NEW p \in Nat, NEW u
    PROVE  /\ Len(PutAt(content, p, u)) = IF p < Len(content) THEN Len(content) ELSE p + 1
           /\ DOMAIN PutAt(content, p, u) = 1..Len(PutAt(content, p, u))
           /\ PutAt(content, p, u)[p + 1] = u
           /\ \A i \in DOMAIN content : i # p + 1 =>
                 /\ i \in DOMAIN PutAt(content, p, u)
                 /\ PutAt(content, p, u)[i] = content[i]
           /\ p + 1 \in DOMAIN PutAt(content, p, u)
<1> DEFINE n == IF p < Len(content) THEN Len(content) ELSE p + 1
           f == [i \in 1..n |->
                    IF i = p + 1 THEN u ELSE IF i <= Len(content) THEN content[i] ELSE Hole]
<1>1. Len(content) \in Nat /\ DOMAIN content = 1..Len(content)
  OBVIOUS
<1>2. n \in Nat /\ p + 1 \in 1..n /\ \A i \in 1..Len(content) : i \in 1..n /\ i <= Len(content)
  BY <1>1
<1>3. PutAt(content, p, u) = f
  BY DEF PutAt
<1>4. DOMAIN f = 1..n
  OBVIOUS
<1>5. Len(f) = n
  BY <1>2, <1>4
<1>6. f[p + 1] = u
  BY <1>2
<1>7. \A i \in DOMAIN content : i # p + 1 => i \in DOMAIN f /\ f[i] = content[i]
  BY <1>1, <1>2
<1> HIDE DEF f
<1> QED
  BY <1>2, <1>3, <1>4, <1>5, <1>6, <1>7

\* The chunk store is written at its end or over an older chunk: it has no hole.
LEMMA PutAtTypes ==
    ASSUME NEW S, NEW content \in Seq(S), NEW p \in Nat, NEW u \in S,
           p <= Len(content) \/ Hole \in S
    PROVE  PutAt(content, p, u) \in Seq(S)
<1> DEFINE n == IF p < Len(content) THEN Len(content) ELSE p + 1
<1>1. Len(content) \in Nat /\ \A i \in 1..Len(content) : content[i] \in S
  OBVIOUS
<1>2. n \in Nat
  BY <1>1
<1>3. ASSUME NEW i \in 1..n
      PROVE  (IF i = p + 1 THEN u ELSE IF i <= Len(content) THEN content[i] ELSE Hole) \in S
  <2>1. CASE i <= Len(content)
    BY <1>1, <1>2, <2>1
  <2>2. CASE i > Len(content) /\ i # p + 1
    BY <1>1, <1>2, <2>2
  <2> QED
    BY <1>1, <1>2, <2>1, <2>2
<1>4. PutAt(content, p, u) =
        [i \in 1..n |-> IF i = p + 1 THEN u
                        ELSE IF i <= Len(content) THEN content[i] ELSE Hole]
  BY DEF PutAt
<1> QED
  BY <1>2, <1>3, <1>4

-----------------------------------------------------------------------------
(* Type correctness.  The next key of the chunk store is never behind its  *)
(* end, and a page without the database has written no key.                *)

TypeInv ==
    /\ TypeOK
    /\ index <= Len(store)
    /\ ~dbOpen => index = 0
    /\ place = "receiving" => sink \in Sinks

\* The groups of variables a step changes together.
ProgressTypes ==
    /\ record \in 0..Size /\ offset \in 0..Size /\ received \in 0..Size /\ lastSaved \in 0..Size
StoreTypes ==
    /\ store \in Seq(Units) /\ index \in Nat /\ dbOpen \in BOOLEAN
    /\ index <= Len(store)
    /\ ~dbOpen => index = 0
SinkTypes ==
    /\ out \in Seq(Bytes) /\ sink \in Sinks \cup {"none"}
    /\ place = "receiving" => sink \in Sinks
PageTypes ==
    /\ able \subseteq {"disk", "opfs", "sw"}
    /\ place \in {"loaded", "storage", "receiving", "fallback", "ready", "http",
                  "done", "error", "stuck"}
    /\ attempts \in 0..MaxAttempts
SavedTypes == saved \subseteq [sink : Sinks, start : 0..Size, content : Seq(Bytes)]

\* TypeInv is these groups together.
LEMMA TypeGroups ==
    /\ TypeInv <=> ProgressTypes /\ StoreTypes /\ SinkTypes /\ PageTypes /\ SavedTypes
    /\ TypeInv' <=> ProgressTypes' /\ StoreTypes' /\ SinkTypes' /\ PageTypes' /\ SavedTypes'
BY DEF TypeInv, TypeOK, ProgressTypes, StoreTypes, SinkTypes, PageTypes, SavedTypes

\* checkResumeState, the store's helpers and maybeSaveProgress keep their types.
LEMMA HelperTypes ==
    /\ ProgressTypes /\ CheckResume => ProgressTypes'
    /\ StoreTypes /\ UNCHANGED <<store, index, dbOpen>> => StoreTypes'
    /\ ClearStore => StoreTypes'
    /\ StoreTypes /\ ClearIfUsed => StoreTypes'
    /\ StoreTypes /\ ClearFails => StoreTypes'
    /\ ProgressTypes /\ received < Size /\ Count => ProgressTypes'
<1>1. ProgressTypes /\ CheckResume => ProgressTypes'
  BY SizesAreNatural DEF ProgressTypes, CheckResume
<1>2. StoreTypes /\ UNCHANGED <<store, index, dbOpen>> => StoreTypes'
  BY DEF StoreTypes
<1>3. ClearStore => StoreTypes'
  <2> SUFFICES ASSUME ClearStore
               PROVE  StoreTypes'
    OBVIOUS
  <2>1. store' = <<>> /\ index' = 0 /\ dbOpen' = TRUE
    BY DEF ClearStore
  <2>2. store' \in Seq(Units)' /\ Len(store') = 0
    BY <2>1
  <2> QED
    BY <2>1, <2>2 DEF StoreTypes
<1>4. StoreTypes /\ ClearIfUsed => StoreTypes'
  BY <1>2, <1>3 DEF ClearIfUsed
<1>5. ProgressTypes /\ received < Size /\ Count => ProgressTypes'
  BY SizesAreNatural DEF ProgressTypes, Count, SaveProgress
<1>6. StoreTypes /\ ClearFails => StoreTypes'
  <2> SUFFICES ASSUME StoreTypes, ClearFails
               PROVE  StoreTypes'
    OBVIOUS
  <2>1. store' = store /\ store \in Seq(Units) /\ Len(store) \in Nat
    BY DEF StoreTypes, ClearFails
  <2>2. store' \in Seq(Units') /\ Len(store') = Len(store)
    BY <2>1 DEF Units
  <2>3. index' \in {index, Len(store)} /\ dbOpen' \in {dbOpen, TRUE} /\ dbOpen' \in BOOLEAN
    BY DEF StoreTypes, ClearFails
  <2>4. index' \in Nat /\ index' <= Len(store')
    BY <2>1, <2>2, <2>3 DEF StoreTypes
  <2>5. ~dbOpen' => index' = 0
    BY DEF StoreTypes, ClearFails
  <2> QED
    BY <2>2, <2>3, <2>4, <2>5 DEF StoreTypes
<1> QED
  BY <1>1, <1>2, <1>3, <1>4, <1>5, <1>6

\* Every unit is a byte a file may hold, and so is a hole.
LEMMA UnitsAreBytes == Units \subseteq Bytes /\ Hole \in Bytes /\ Old \in Bytes
BY DEF Bytes, Hole, Old

(***************************************************************************)
(* Every step of the page keeps the types; a put goes under a key that is  *)
(* at most the end of the store.                                           *)
(***************************************************************************)
LEMMA TypeStep == TypeInv /\ [Next]_vars => TypeInv'
<1> SUFFICES ASSUME TypeInv, [Next]_vars
             PROVE  TypeInv'
  OBVIOUS
<1>u. ProgressTypes /\ StoreTypes /\ SinkTypes /\ PageTypes /\ SavedTypes
  BY TypeGroups
<1>e. <<>> \in Seq(Bytes)
  OBVIOUS
<1>1. CASE ChannelOpens \/ ChannelFails \/ MetaArrives \/ ChannelCloses \/ FinishFails
  <2>1. /\ CheckResume \/ UNCHANGED progressVars
        /\ UNCHANGED <<able, store, sink, dbOpen, index, out, saved, attempts>>
        /\ place' \in {"storage", "fallback", "ready", "stuck"}
    BY <1>1 DEF ChannelOpens, ChannelFails, MetaArrives, ChannelCloses, FinishFails, sinkVars
  <2>2. ProgressTypes'
    BY <1>u, <2>1, HelperTypes DEF ProgressTypes, progressVars
  <2>3. StoreTypes' /\ SinkTypes' /\ PageTypes' /\ SavedTypes'
    BY <1>u, <2>1 DEF StoreTypes, SinkTypes, PageTypes, SavedTypes
  <2> QED
    BY <2>2, <2>3, TypeGroups
<1>2. CASE RamAbort \/ DiskFull \/ WriteFails \/ MetaFails \/ HttpFails
  <2>1. /\ ClearIfUsed
        /\ UNCHANGED <<able, record, offset, received, lastSaved, sink, out, saved, attempts>>
        /\ place' \in {"error", "fallback"}
    BY <1>2 DEF RamAbort, DiskFull, WriteFails, MetaFails, HttpFails, progressVars
  <2>2. StoreTypes'
    BY <1>u, <2>1, HelperTypes
  <2>3. ProgressTypes' /\ SinkTypes' /\ PageTypes' /\ SavedTypes'
    BY <1>u, <2>1 DEF ProgressTypes, SinkTypes, PageTypes, SavedTypes
  <2> QED
    BY <2>2, <2>3, TypeGroups
<1>3. ASSUME NEW kind \in Sinks, NEW content \in Seq(Bytes), Begin(kind, content), StoreTypes'
      PROVE  TypeInv'
  <2>1. ProgressTypes' /\ SinkTypes' /\ PageTypes' /\ SavedTypes'
    BY <1>3, <1>u DEF Begin, ProgressTypes, SinkTypes, PageTypes, SavedTypes, progressVars
  <2> QED
    BY <1>3, <2>1, TypeGroups
<1>4. CASE ToDisk
  <2>1. PICK n \in {0, OldSize} : Begin("disk", [i \in 1..n |-> Old])
    BY <1>4 DEF ToDisk
  <2>2. [i \in 1..n |-> Old] \in Seq(Bytes)
    BY SizesAreNatural, UnitsAreBytes
  <2>3. StoreTypes'
    BY <1>4, <1>u, HelperTypes DEF ToDisk
  <2> QED
    BY <1>3, <2>1, <2>2, <2>3 DEF Sinks
<1>5. CASE ToOPFS \/ ToPipe
  <2>1. StoreTypes'
    BY <1>5, <1>u, HelperTypes DEF ToOPFS, ToPipe
  <2> QED
    BY <1>3, <1>5, <1>e, <2>1 DEF ToOPFS, ToPipe, Sinks
<1>6. CASE ToStore
  <2>1. StoreTypes'
    BY <1>6, <1>u, HelperTypes DEF ToStore
  <2> QED
    BY <1>3, <1>6, <1>e, <2>1 DEF ToStore, Sinks
<1>7. ASSUME received < Size, Count, place = "receiving", place' = place, StoreTypes',
             out' \in Seq(Bytes)
      PROVE  TypeInv'
  <2>1. ProgressTypes'
    BY <1>7, <1>u, HelperTypes
  <2>2. SinkTypes' /\ PageTypes' /\ SavedTypes'
    BY <1>7, <1>u DEF Count, SinkTypes, PageTypes, SavedTypes
  <2> QED
    BY <1>7, <2>1, <2>2, TypeGroups
<1>r. received < Size => received \in Units /\ received \in Nat
  BY <1>u, SizesAreNatural DEF ProgressTypes, Units
<1>8. CASE WritePositioned
  <2>1. out' \in Seq(Bytes)
    BY <1>8, <1>r, <1>u, PutAtTypes, UnitsAreBytes DEF WritePositioned, SinkTypes
  <2>2. StoreTypes'
    BY <1>8, <1>u, HelperTypes DEF WritePositioned
  <2> QED
    BY <1>7, <1>8, <2>1, <2>2 DEF WritePositioned, Count
<1>9. CASE WritePipe
  <2>1. out' \in Seq(Bytes)
    BY <1>9, <1>r, <1>u, UnitsAreBytes DEF WritePipe, SinkTypes
  <2>2. StoreTypes'
    BY <1>9, <1>u, HelperTypes DEF WritePipe
  <2> QED
    BY <1>7, <1>9, <2>1, <2>2 DEF WritePipe, Count
<1>10. CASE WriteChunk
  <2>1. /\ store' = PutAt(store, index, received) /\ index' = index + 1
        /\ dbOpen /\ dbOpen' = dbOpen /\ received \in Units
        /\ store \in Seq(Units) /\ index \in Nat /\ index <= Len(store)
    BY <1>10, <1>r, <1>u DEF WriteChunk, PutChunk, StoreTypes
  <2>2. store' \in Seq(Units)
    BY <2>1, PutAtTypes
  <2>3. Len(store') = IF index < Len(store) THEN Len(store) ELSE index + 1
    BY <2>1, PutAtWrites
  <2>4. Len(store) \in Nat
    BY <2>1
  <2>5. index' <= Len(store')
    BY <2>1, <2>3, <2>4
  <2>6. StoreTypes'
    BY <2>1, <2>2, <2>5 DEF StoreTypes, Units
  <2>7. out' \in Seq(Bytes)
    BY <1>10, <1>u DEF WriteChunk, SinkTypes
  <2> QED
    BY <1>7, <1>10, <2>6, <2>7 DEF WriteChunk, Count
<1>11. CASE Finish
  <2>1. StoreTypes'
    BY <1>11, <1>u, HelperTypes DEF Finish
  <2>2. ProgressTypes' /\ SinkTypes' /\ PageTypes'
    BY <1>11, <1>u, SizesAreNatural DEF Finish, ProgressTypes, SinkTypes, PageTypes
  <2>3. Content \in Seq(Bytes)
    <3>1. store \in Seq(Bytes)
      BY <1>u, UnitsAreBytes DEF StoreTypes
    <3> QED
      BY <1>u, <3>1 DEF Content, SinkTypes
  <2>4. SavedTypes'
    BY <1>11, <1>u, <2>3 DEF Finish, SavedTypes, SinkTypes, ProgressTypes
  <2> QED
    BY <2>1, <2>2, <2>4, TypeGroups
<1>12. CASE HttpBegins
  <2>1. UNCHANGED <<store, dbOpen, index>> \/ ClearStore
    BY <1>12 DEF HttpBegins
  <2>2. StoreTypes'
    BY <1>u, <2>1, HelperTypes
  <2>3. sink' \in Sinks \cup {"none"}
    BY <1>12, <1>u DEF HttpBegins, SinkTypes, Sinks, Positioned
  <2>4. ProgressTypes' /\ SinkTypes' /\ PageTypes' /\ SavedTypes'
    BY <1>12, <1>u, <2>3, SizesAreNatural
       DEF HttpBegins, ProgressTypes, SinkTypes, PageTypes, SavedTypes
  <2> QED
    BY <2>2, <2>4, TypeGroups
<1>13. CASE Retry
  <2>1. StoreTypes'
    BY <1>13, <1>u, HelperTypes DEF Retry
  <2>2. ProgressTypes' /\ SinkTypes' /\ PageTypes' /\ SavedTypes'
    BY <1>13, <1>u, <1>e, SizesAreNatural
       DEF Retry, ProgressTypes, SinkTypes, PageTypes, SavedTypes
  <2> QED
    BY <2>1, <2>2, TypeGroups
<1>14. CASE Reload
  <2>1. StoreTypes'
    <3>1. store' = store \/ store' = <<>>
      BY <1>14 DEF Reload
    <3>2. store \in Seq(Units) /\ <<>> \in Seq(Units)
      BY <1>u DEF StoreTypes
    <3>3. store' \in Seq(Units)
      BY <3>1, <3>2
    <3>4. index' = 0 /\ dbOpen' \in BOOLEAN
      BY <1>14 DEF Reload
    <3>5. index' <= Len(store') /\ index' \in Nat
      BY <3>3, <3>4
    <3> QED
      BY <3>3, <3>4, <3>5 DEF StoreTypes, Units
  <2>2. ProgressTypes' /\ SinkTypes' /\ PageTypes' /\ SavedTypes'
    BY <1>14, <1>u, <1>e, SizesAreNatural
       DEF Reload, ProgressTypes, SinkTypes, PageTypes, SavedTypes
  <2> QED
    BY <2>1, <2>2, TypeGroups
<1>15. CASE StoreFails \/ HttpStoreFails
  <2>1. ClearFails /\ sink' = "idb" /\ received' \in {received, 0}
        /\ out' \in {out, <<>>} /\ place' \in {"fallback", "ready"}
        /\ UNCHANGED <<able, record, offset, lastSaved, saved, attempts>>
    BY <1>15 DEF StoreFails, HttpStoreFails, progressVars
  <2>2. StoreTypes'
    BY <1>u, <2>1, HelperTypes
  <2>3. ProgressTypes' /\ SavedTypes'
    BY <1>u, <2>1, SizesAreNatural DEF ProgressTypes, SavedTypes
  <2>4. SinkTypes' /\ PageTypes'
    BY <1>u, <1>e, <2>1 DEF SinkTypes, PageTypes, Sinks
  <2> QED
    BY <2>2, <2>3, <2>4, TypeGroups
<1>16. CASE UNCHANGED vars
  BY <1>16 DEF vars, TypeInv, TypeOK, Units, Bytes
<1> QED
  BY <1>1, <1>2, <1>4, <1>5, <1>6, <1>8, <1>9, <1>10, <1>11, <1>12, <1>13, <1>14, <1>15,
     <1>16 DEF Next

\* A page loaded for the first time is well typed.
LEMMA TypeInitially == Init => TypeInv
<1> SUFFICES ASSUME Init
             PROVE  TypeInv
  OBVIOUS
<1>1. ProgressTypes /\ SinkTypes /\ PageTypes /\ SavedTypes
  BY SizesAreNatural DEF Init, ProgressTypes, SinkTypes, PageTypes, SavedTypes
<1>2. StoreTypes
  <2>1. store = <<>> /\ index = 0 /\ dbOpen = FALSE
    BY DEF Init
  <2>2. store \in Seq(Units) /\ index <= Len(store)
    BY <2>1
  <2>3. dbOpen \in BOOLEAN /\ index \in Nat
    BY <2>1
  <2> QED
    BY <2>1, <2>2, <2>3 DEF StoreTypes
<1> QED
  BY <1>1, <1>2, TypeGroups

(***************************************************************************)
(* Type correctness of the receiving page: no offset leaves the file, and  *)
(* the chunk store holds nothing but units of it, without a hole.          *)
(***************************************************************************)
THEOREM TypeCorrect == Spec => []TypeOK
<1>1. TypeInv => TypeOK
  BY DEF TypeInv
<1> QED
  BY <1>1, TypeInitially, TypeStep, PTL DEF Spec

-----------------------------------------------------------------------------
(* What is written, and what is handed over.                               *)

\* How far a unit's position in the sink is before its position in the file.
Shift(kind, start) == IF kind \in Positioned THEN 0 ELSE start

\* A content holds the units from `start` up to `end`, each in its place.
Holds(content, kind, start, end) ==
    \A i \in start + 1 .. end :
        /\ i - Shift(kind, start) \in DOMAIN content
        /\ content[i - Shift(kind, start)] = i - 1

\* Nothing follows them, unless the picked file was longer.
NothingElse(content, kind, start, end) ==
    start = 0 => \/ Len(content) = end
                 \/ kind = "disk" /\ Len(content) = OldSize /\ end <= OldSize

\* Where the next unit goes continues what the attempt has written.
NextPlace ==
    /\ sink = "sw" => Len(out) = received - offset
    /\ sink = "idb" => index = received - offset

\* Before the channel opens nothing is counted; an attempt begins at its offset;
\* while it receives, the sink holds what is counted, and the record is behind.
AttemptInv ==
    /\ place \in {"loaded", "storage"} => index = 0
    /\ place = "loaded" => received = 0
    /\ place = "storage" => received = offset /\ lastSaved = offset /\ record <= offset
    /\ place = "receiving" =>
         /\ offset <= received /\ record <= received /\ lastSaved <= received
         /\ Holds(Content, sink, offset, received)
         /\ NothingElse(Content, sink, offset, received)
         /\ NextPlace
    /\ place = "done" => record = 0

SavedInv ==
    \A f \in saved : /\ Holds(f.content, f.sink, f.start, Size)
                     /\ NothingElse(f.content, f.sink, f.start, Size)

\* A write at the next place of a positioned sink, or under the next key of the
\* chunk store, adds one unit to what the sink holds.
LEMMA PutAtHolds ==
    ASSUME NEW S, NEW content \in Seq(S), NEW kind,
           NEW start \in Nat, NEW end \in Nat, start <= end,
           NEW p \in Nat, p = end - Shift(kind, start),
           Holds(content, kind, start, end), NothingElse(content, kind, start, end)
    PROVE  /\ Holds(PutAt(content, p, end), kind, start, end + 1)
           /\ NothingElse(PutAt(content, p, end), kind, start, end + 1)
<1> DEFINE new == PutAt(content, p, end)
<1>1. /\ Len(new) = IF p < Len(content) THEN Len(content) ELSE p + 1
      /\ new[p + 1] = end /\ p + 1 \in DOMAIN new
      /\ \A j \in DOMAIN content : j # p + 1 => j \in DOMAIN new /\ new[j] = content[j]
  BY PutAtWrites
<1>2. Len(content) \in Nat
  OBVIOUS
<1>3. Shift(kind, start) \in Nat
  BY DEF Shift
<1> HIDE DEF new
<1>4. ASSUME NEW i \in start + 1 .. end + 1
      PROVE  /\ i - Shift(kind, start) \in DOMAIN new
             /\ new[i - Shift(kind, start)] = i - 1
  <2>1. CASE i = end + 1
    BY <1>1, <1>3, <2>1
  <2>2. CASE i # end + 1
    <3>1. i \in start + 1 .. end
      BY <2>2
    <3>2. /\ i - Shift(kind, start) \in DOMAIN content
          /\ content[i - Shift(kind, start)] = i - 1
      BY <3>1 DEF Holds
    <3>3. i - Shift(kind, start) # p + 1
      BY <1>3, <3>1
    <3> QED
      BY <1>1, <3>2, <3>3
  <2> QED
    BY <2>1, <2>2
<1>5. Holds(new, kind, start, end + 1)
  BY <1>4 DEF Holds
<1>6. NothingElse(new, kind, start, end + 1)
  <2> SUFFICES ASSUME start = 0
               PROVE  \/ Len(new) = end + 1
                      \/ kind = "disk" /\ Len(new) = OldSize /\ end + 1 <= OldSize
    BY DEF NothingElse
  <2>1. p = end
    BY DEF Shift
  <2>2. \/ Len(content) = end
        \/ kind = "disk" /\ Len(content) = OldSize /\ end <= OldSize
    BY DEF NothingElse
  <2> QED
    BY <1>1, <1>2, <2>1, <2>2, SizesAreNatural
<1> QED
  BY <1>5, <1>6 DEF new

\* So does a chunk posted to the pipe.
LEMMA AppendHolds ==
    ASSUME NEW S, NEW content \in Seq(S), NEW end \in S, NEW kind, kind \notin Positioned,
           NEW start \in Nat, end \in Nat, start <= end, Len(content) = end - start,
           Holds(content, kind, start, end)
    PROVE  /\ Holds(Append(content, end), kind, start, end + 1)
           /\ NothingElse(Append(content, end), kind, start, end + 1)
<1> DEFINE new == Append(content, end)
<1>1. /\ Len(new) = Len(content) + 1 /\ DOMAIN new = 1..Len(content) + 1
      /\ new[Len(content) + 1] = end
      /\ \A j \in DOMAIN content : new[j] = content[j]
      /\ DOMAIN content = 1..Len(content)
  OBVIOUS
<1>2. Shift(kind, start) = start
  BY DEF Shift
<1> HIDE DEF new
<1>3. ASSUME NEW i \in start + 1 .. end + 1
      PROVE  i - start \in DOMAIN new /\ new[i - start] = i - 1
  <2>1. CASE i = end + 1
    BY <1>1, <2>1
  <2>2. CASE i # end + 1
    <3>1. i \in start + 1 .. end
      BY <2>2
    <3>2. i - start \in DOMAIN content /\ content[i - start] = i - 1
      BY <1>2, <3>1 DEF Holds
    <3> QED
      BY <1>1, <3>1, <3>2
  <2> QED
    BY <2>1, <2>2
<1>4. Holds(new, kind, start, end + 1)
  BY <1>2, <1>3 DEF Holds
<1>5. Len(new) = end + 1 - start
  BY <1>1
<1>6. NothingElse(new, kind, start, end + 1)
  BY <1>5 DEF NothingElse
<1> QED
  BY <1>4, <1>5, <1>6 DEF new

\* One more unit is counted: the record is not ahead of it.
LEMMA CountKeepsRecord ==
    ASSUME TypeInv, AttemptInv, place = "receiving", Count
    PROVE  /\ received' = received + 1 /\ offset' = offset /\ sink' = sink
           /\ offset' <= received' /\ record' <= received' /\ lastSaved' <= received'
<1>1. /\ received \in Nat /\ offset \in Nat /\ record \in Nat /\ lastSaved \in Nat
      /\ offset <= received /\ record <= received /\ lastSaved <= received
  BY SizesAreNatural DEF TypeInv, TypeOK, AttemptInv
<1> QED
  BY <1>1, SizesAreNatural DEF Count, SaveProgress

(***************************************************************************)
(* Every step of the page: what an attempt has counted is in its sink, in  *)
(* order and in place, and what was handed over stays as it was.           *)
(***************************************************************************)
LEMMA AttemptStep == TypeInv /\ AttemptInv /\ SavedInv /\ [Next]_vars => AttemptInv' /\ SavedInv'
<1> SUFFICES ASSUME TypeInv, AttemptInv, SavedInv, [Next]_vars
             PROVE  AttemptInv' /\ SavedInv'
  OBVIOUS
<1>u. /\ received \in Nat /\ offset \in Nat /\ record \in Nat /\ lastSaved \in Nat
      /\ received <= Size
      /\ store \in Seq(Units) /\ out \in Seq(Bytes) /\ index \in Nat
  BY SizesAreNatural DEF TypeInv, TypeOK
<1>s. saved' = saved => SavedInv'
  BY DEF SavedInv
<1>1. CASE ChannelOpens
  <2>1. received = 0 /\ index = 0 /\ index' = index /\ saved' = saved
        /\ place' = "storage" /\ CheckResume
    BY <1>1 DEF ChannelOpens, AttemptInv, sinkVars
  <2>2. received' = offset' /\ lastSaved' = offset' /\ record' <= offset'
    BY <1>u, <2>1 DEF CheckResume
  <2> QED
    BY <1>s, <2>1, <2>2 DEF AttemptInv
<1>2. CASE \/ ChannelFails \/ RamAbort \/ DiskFull \/ WriteFails \/ ChannelCloses
           \/ FinishFails \/ MetaArrives \/ MetaFails \/ HttpBegins \/ HttpFails
           \/ StoreFails \/ HttpStoreFails
  <2>1. place' \in {"fallback", "error", "stuck", "ready", "http"} /\ saved' = saved
    BY <1>2 DEF ChannelFails, RamAbort, DiskFull, WriteFails, ChannelCloses, FinishFails,
                MetaArrives, MetaFails, HttpBegins, HttpFails, StoreFails, HttpStoreFails
  <2> QED
    BY <1>s, <2>1 DEF AttemptInv
(* A sink is chosen: the attempt is at its offset and has written nothing.  *)
<1>3. ASSUME NEW kind, NEW content, Begin(kind, content), place = "storage", index' = 0,
             offset = 0 => NothingElse(Content', kind, 0, 0),
             kind = "sw" => Len(content) = 0
      PROVE  AttemptInv' /\ SavedInv'
  <2>1. /\ received = offset /\ lastSaved = offset /\ record <= offset
        /\ place' = "receiving" /\ sink' = kind /\ out' = content /\ saved' = saved
        /\ UNCHANGED <<record, offset, received, lastSaved>>
    BY <1>3 DEF AttemptInv, Begin, progressVars
  <2>2. Holds(Content', sink', offset', received')
    BY <1>u, <2>1 DEF Holds
  <2>3. NothingElse(Content', sink', offset', received')
    BY <1>3, <2>1 DEF NothingElse
  <2>4. NextPlace'
    BY <1>3, <1>u, <2>1 DEF NextPlace
  <2> QED
    BY <1>s, <1>u, <2>1, <2>2, <2>3, <2>4 DEF AttemptInv
<1>4. CASE ToDisk
  <2>1. PICK n \in {0, OldSize} : Begin("disk", [i \in 1..n |-> Old])
    BY <1>4 DEF ToDisk
  <2>2. Len([i \in 1..n |-> Old]) = n
    BY SizesAreNatural
  <2>3. Content' = [i \in 1..n |-> Old]
    BY <2>1 DEF Begin, Content
  <2>4. NothingElse(Content', "disk", 0, 0)
    BY <2>2, <2>3, SizesAreNatural DEF NothingElse
  <2>5. place = "storage" /\ index' = 0
    BY <1>4 DEF ToDisk, AttemptInv
  <2> QED
    BY <1>3, <2>1, <2>4, <2>5
<1>5. CASE ToOPFS \/ ToPipe
  <2>1. PICK kind \in {"opfs", "sw"} : Begin(kind, <<>>)
    BY <1>5 DEF ToOPFS, ToPipe
  <2>2. Content' = <<>>
    BY <2>1 DEF Begin, Content
  <2>3. NothingElse(Content', kind, 0, 0)
    BY <2>2 DEF NothingElse
  <2>4. place = "storage" /\ index' = 0
    BY <1>5 DEF ToOPFS, ToPipe, AttemptInv
  <2> QED
    BY <1>3, <2>1, <2>3, <2>4
<1>6. CASE ToStore
  <2>1. place = "storage" /\ index' = 0 /\ Begin("idb", <<>>)
    BY <1>6 DEF ToStore, AttemptInv, ClearStore
  <2>2. Content' = store'
    BY <2>1 DEF Begin, Content
  <2>3. offset = 0 => store' = <<>>
    BY <1>6 DEF ToStore, ClearStore
  <2>4. offset = 0 => NothingElse(Content', "idb", 0, 0)
    BY <2>2, <2>3 DEF NothingElse
  <2> QED
    BY <1>3, <2>1, <2>4
(* A unit is written: it continues what the sink holds.                     *)
<1>w. ASSUME place = "receiving", received < Size, Count, NextPlace',
             Holds(Content', sink, offset, received + 1),
             NothingElse(Content', sink, offset, received + 1)
      PROVE  AttemptInv' /\ SavedInv'
  <2>1. /\ received' = received + 1 /\ offset' = offset /\ sink' = sink
        /\ offset' <= received' /\ record' <= received' /\ lastSaved' <= received'
    BY <1>w, CountKeepsRecord
  <2>2. place' = "receiving" /\ saved' = saved
    BY <1>w DEF Count
  <2> QED
    BY <1>s, <1>w, <2>1, <2>2 DEF AttemptInv
<1>v. place = "receiving" =>
        /\ offset <= received
        /\ Holds(Content, sink, offset, received)
        /\ NothingElse(Content, sink, offset, received)
        /\ NextPlace
  BY DEF AttemptInv
<1>7. CASE WritePositioned
  <2>1. /\ place = "receiving" /\ received < Size /\ sink \in Positioned /\ Count
        /\ sink' = sink /\ out' = PutAt(out, received, received)
    BY <1>7 DEF WritePositioned, Count
  <2>2. Content = out /\ Content' = out' /\ NextPlace'
    BY <2>1 DEF Content, Positioned, NextPlace
  <2>3. received = received - Shift(sink, offset)
    BY <1>u, <2>1 DEF Shift
  <2>4. /\ Holds(out, sink, offset, received) /\ NothingElse(out, sink, offset, received)
        /\ offset <= received
    BY <1>v, <2>1, <2>2
  <2>5. /\ Holds(PutAt(out, received, received), sink, offset, received + 1)
        /\ NothingElse(PutAt(out, received, received), sink, offset, received + 1)
    BY <1>u, <2>3, <2>4, PutAtHolds
  <2> QED
    BY <1>w, <2>1, <2>2, <2>5
<1>8. CASE WritePipe
  <2>1. /\ place = "receiving" /\ received < Size /\ sink = "sw" /\ Count
        /\ sink' = sink /\ out' = Append(out, received)
    BY <1>8 DEF WritePipe, Count
  <2>2. Content = out /\ Content' = out' /\ sink \notin Positioned
    BY <2>1 DEF Content, Positioned
  <2>3. /\ Holds(out, sink, offset, received) /\ offset <= received
        /\ Len(out) = received - offset
    BY <1>v, <2>1, <2>2 DEF NextPlace
  <2>4. received \in Bytes
    BY <1>u, <2>1, SizesAreNatural DEF Bytes, Units
  <2>5. /\ Holds(Append(out, received), sink, offset, received + 1)
        /\ NothingElse(Append(out, received), sink, offset, received + 1)
    BY <1>u, <2>2, <2>3, <2>4, AppendHolds
  <2>6. NextPlace'
    <3>1. out' = Append(out, received) /\ received' = received + 1 /\ offset' = offset
      BY <2>1 DEF Count
    <3>2. Len(out') = received' - offset'
      BY <1>u, <2>3, <3>1
    <3>3. sink' = "sw"
      BY <2>1
    <3> QED
      BY <3>2, <3>3 DEF NextPlace
  <2> QED
    BY <1>w, <2>1, <2>2, <2>5, <2>6
<1>9. CASE WriteChunk
  <2>1. /\ place = "receiving" /\ received < Size /\ sink = "idb" /\ Count
        /\ sink' = sink /\ store' = PutAt(store, index, received) /\ index' = index + 1
    BY <1>9 DEF WriteChunk, PutChunk, Count
  <2>2. Content = store /\ Content' = store' /\ Shift(sink, offset) = offset
    BY <2>1 DEF Content, Positioned, Shift
  <2>3. /\ Holds(store, sink, offset, received) /\ offset <= received
        /\ NothingElse(store, sink, offset, received)
        /\ index = received - offset
    BY <1>v, <2>1, <2>2 DEF NextPlace
  <2>4. /\ Holds(PutAt(store, index, received), sink, offset, received + 1)
        /\ NothingElse(PutAt(store, index, received), sink, offset, received + 1)
    BY <1>u, <2>2, <2>3, PutAtHolds
  <2>5. NextPlace'
    BY <1>u, <2>1, <2>3 DEF NextPlace, Count
  <2> QED
    BY <1>w, <2>1, <2>2, <2>4, <2>5
<1>10. CASE Finish
  <2> DEFINE f == [sink |-> sink, start |-> offset, content |-> Content]
  <2>1. /\ place = "receiving" /\ received = Size /\ place' = "done" /\ record' = 0
        /\ saved' = saved \cup {f}
    BY <1>10 DEF Finish
  <2>2. AttemptInv'
    BY <2>1 DEF AttemptInv
  <2>3. /\ Holds(f.content, f.sink, f.start, Size)
        /\ NothingElse(f.content, f.sink, f.start, Size)
    BY <1>v, <2>1
  <2> HIDE DEF f
  <2>4. SavedInv'
    BY <2>1, <2>3 DEF SavedInv
  <2> QED
    BY <2>2, <2>4
<1>11. CASE Retry
  <2>1. place = "error" /\ place' = "loaded" /\ received' = 0 /\ saved' = saved
    BY <1>11 DEF Retry
  <2>2. index' = 0
    BY <1>11 DEF Retry, ClearStore, TypeInv
  <2> QED
    BY <1>s, <2>1, <2>2 DEF AttemptInv
<1>12. CASE Reload
  BY <1>12, <1>s DEF Reload, AttemptInv
<1>13. CASE UNCHANGED vars
  <2>1. Content' = Content /\ NextPlace' = NextPlace
    BY <1>13 DEF vars, Content, NextPlace
  <2> QED
    BY <1>13, <1>s, <2>1 DEF vars, AttemptInv
<1> QED
  BY <1>1, <1>2, <1>4, <1>5, <1>6, <1>7, <1>8, <1>9, <1>10, <1>11, <1>12, <1>13 DEF Next

\* A page loaded for the first time has counted nothing.
LEMMA AttemptInitially == Init => AttemptInv /\ SavedInv
BY DEF Init, AttemptInv, SavedInv

(***************************************************************************)
(* A file handed to the user holds every unit from the resume position of  *)
(* its attempt on, in order and in place, whatever earlier attempts,       *)
(* failed writes, reloads and crashes left behind in the chunk store; and  *)
(* an attempt from the first unit adds nothing to the file.                *)
(***************************************************************************)
THEOREM SavedFilesAsReceived == Spec => []SavedAsReceived
<1>1. TypeInv /\ SavedInv => SavedAsReceived
  <2> SUFFICES ASSUME TypeInv, SavedInv, NEW f \in saved
               PROVE  LET before == IF f.sink \in Positioned THEN 0 ELSE f.start
                      IN  /\ \A i \in f.start + 1 .. Size :
                               /\ i - before \in DOMAIN f.content
                               /\ f.content[i - before] = Whole[i]
                          /\ f.start = 0 => \/ Len(f.content) = Size
                                            \/ f.sink = "disk" /\ Len(f.content) = OldSize
    BY DEF SavedAsReceived
  <2>1. /\ Holds(f.content, f.sink, f.start, Size)
        /\ NothingElse(f.content, f.sink, f.start, Size)
    BY DEF SavedInv
  <2>2. f.start \in 0..Size
    BY DEF TypeInv, TypeOK
  <2>3. \A i \in f.start + 1 .. Size : Whole[i] = i - 1
    BY <2>2, SizesAreNatural DEF Whole
  <2> QED
    BY <2>1, <2>3 DEF Holds, NothingElse, Shift
<1> QED
  BY <1>1, TypeInitially, TypeStep, AttemptInitially, AttemptStep, PTL DEF Spec

(***************************************************************************)
(* The resume record never names a byte that the attempt has not written,  *)
(* and a finished download leaves none (maybeSaveProgress, the EOF).       *)
(***************************************************************************)
THEOREM RecordNotAhead == Spec => []RecordBacked
<1>1. AttemptInv => RecordBacked
  BY DEF AttemptInv, RecordBacked
<1> QED
  BY <1>1, TypeInitially, TypeStep, AttemptInitially, AttemptStep, PTL DEF Spec

=============================================================================
