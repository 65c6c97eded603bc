--------------------------- MODULE CacheStoreProofs ---------------------------
(***************************************************************************)
(* However many modules a cache has and however often it is rewritten:     *)
(* what loads is one rewrite and no older one, and an interruption leaves  *)
(* no manifest.                                                            *)
(***************************************************************************)
EXTENDS CacheStore, TLAPS

USE DEF Absent, Torn, Index, Rewrite, ManifestFile, TemporaryFile, Files, Contents, Fail, Return

LEMMA Initial == Init => IInv
BY ModulesAssumption, MaxWritesAssumption
   DEF Init, IInv, TypeOK, CardInv, NotBefore, WriterInv, ReaderInv, LoadedIsOneRewrite, NeverOlder,
       InterruptedLeavesNone, ManifestDescribesModules, Replacing

\* The contents of one file that join what the card may hold of it are of their type
\* (write_file).
LEMMA UnsafeTypes ==
  ASSUME TypeOK, NEW f \in Files, NEW C \in SUBSET Contents, Unsafe(f, C)
  PROVE  card' \in [Files -> SUBSET Contents]
BY DEF TypeOK, Unsafe

\* So are those a good fsync leaves alone on the card (write_file).
LEMMA FlushTypes ==
  ASSUME TypeOK, NEW f \in Files, rewrites \in Rewrite, Flush(f)
  PROVE  card' \in [Files -> SUBSET Contents]
<1>1. {rewrites, Torn} \in SUBSET Contents /\ {rewrites} \in SUBSET Contents
  BY MaxWritesAssumption
<1>2. CASE Unsafe(f, {rewrites, Torn})
  BY <1>1, <1>2, UnsafeTypes
<1>3. CASE card' = [card EXCEPT ![f] = {rewrites}]
  BY <1>1, <1>3 DEF TypeOK
<1>4. QED
  BY <1>2, <1>3 DEF Flush

LEMMA Types == TypeOK /\ WriterInv /\ [Next]_vars => TypeOK'
<1> SUFFICES ASSUME TypeOK, WriterInv, [Next]_vars PROVE TypeOK'
  OBVIOUS
<1> USE ModulesAssumption, MaxWritesAssumption DEF TypeOK
<1>a. Absent \in Contents /\ Torn \in Contents /\ Refused \subseteq Contents
  BY DEF Refused
<1>1. CASE Begin
  BY <1>1 DEF Begin, files, reader
<1>2. CASE RemoveManifest
  <2>1. manifest' \in {manifest, Absent} /\ faults' \subseteq faults \cup {"remove"}
    BY <1>2 DEF RemoveManifest
  <2>2. card' \in [Files -> SUBSET Contents]
    BY <1>2, <1>a, UnsafeTypes DEF RemoveManifest
  <2>3. QED
    BY <1>2, <2>1, <2>2 DEF RemoveManifest, reader
<1>3. CASE OpenModule
  <2>1. card' \in [Files -> SUBSET Contents]
    BY <1>3, <1>a, UnsafeTypes DEF OpenModule
  <2>2. modules' \in [Index -> Contents]
    BY <1>3 DEF OpenModule
  <2>3. wstep' \in {"fill", "idle"}
    BY <1>3 DEF OpenModule
  <2>4. QED
    BY <1>3, <2>1, <2>2, <2>3 DEF OpenModule, reader
<1>4. CASE FillModule
  <2>1. rewrites \in Rewrite /\ rewrites \in Contents
    BY <1>4 DEF FillModule, WriterInv
  <2>2. modules' \in [Index -> Contents]
    BY <1>4, <1>a, <2>1 DEF FillModule
  <2>3. wnext' \in Index
    BY <1>4 DEF FillModule
  <2>4. card' \in [Files -> SUBSET Contents]
    <3>1. wnext \in Files
      OBVIOUS
    <3>2. CASE Flush(wnext)
      BY <2>1, <3>1, <3>2, FlushTypes
    <3>3. CASE \E left \in Refused : Unsafe(wnext, {Torn, left})
      BY <1>a, <3>1, <3>3, UnsafeTypes
    <3>4. QED
      BY <1>4, <3>2, <3>3 DEF FillModule
  <2>5. wstep' \in {"open", "manifest", "idle"}
    BY <1>4 DEF FillModule
  <2>6. QED
    BY <1>4, <2>2, <2>3, <2>4, <2>5 DEF FillModule, reader
<1>5. CASE OpenTemporary
  <2>1. card' \in [Files -> SUBSET Contents]
    BY <1>5, <1>a, UnsafeTypes DEF OpenTemporary
  <2>2. QED
    BY <1>5, <2>1 DEF OpenTemporary, reader
<1>6. CASE FillTemporary
  <2>1. rewrites \in Rewrite /\ rewrites \in Contents
    BY <1>6 DEF FillTemporary, WriterInv
  <2>2. temporary' \in Contents
    BY <1>6, <1>a, <2>1 DEF FillTemporary
  <2>3. card' \in [Files -> SUBSET Contents]
    BY <1>6, <1>a, <2>1, <2>2, UnsafeTypes, FlushTypes DEF FillTemporary
  <2>4. QED
    BY <1>6, <2>2, <2>3 DEF FillTemporary, reader
<1>7. CASE RenameManifest
  <2>1. temporary' \in Contents
    BY <1>7 DEF RenameManifest
  <2>2. card' \in [Files -> SUBSET Contents]
    BY <1>7, <1>a, <2>1, UnsafeTypes DEF RenameManifest
  <2>3. QED
    BY <1>7, <2>1, <2>2 DEF RenameManifest, reader
<1>8. CASE Verify
  <2>1. durable' \in {durable, rewrites}
    BY <1>8 DEF Verify
  <2>2. QED
    BY <1>8, <2>1 DEF Verify, files, reader
<1>9. CASE Kill
  BY <1>9 DEF Kill, files, reader
<1>10. CASE LosePower
  <2>1. /\ manifest' \in Contents
        /\ temporary' \in Contents
        /\ modules' \in [Index -> Contents]
    BY <1>10 DEF LosePower
  <2>2. card' \in [Files -> SUBSET Contents]
    BY <1>10, <2>1 DEF LosePower
  <2>3. QED
    BY <1>10, <2>1, <2>2 DEF LosePower
<1>11. CASE ReadManifest
  BY <1>11 DEF ReadManifest, files, writer
<1>12. CASE ReadModule
  BY <1>12 DEF ReadModule, files, writer
<1>13. CASE UNCHANGED vars
  BY <1>13 DEF vars, files, writer, reader
<1>14. QED
  BY <1>1, <1>2, <1>3, <1>4, <1>5, <1>6, <1>7, <1>8, <1>9, <1>10, <1>11, <1>12, <1>13
     DEF Next, Writer, Reader

-----------------------------------------------------------------------------
(***************************************************************************)
(* The steps of the app, of which the reader's promises take no notice.    *)
(***************************************************************************)
\* NotBefore after a step, for a number that itself may change in it.
NotBeforeNext(number, i) == \A c \in card'[i] : c \in {Absent, Torn} \/ number <= c

\* No step of the app and no loss of power lets the card hold more of a file than it
\* did, but for what the rewrite under way writes.
Changed(f) == card'[f] \subseteq card[f] \cup {rewrites, Absent, Torn}

LEMMA CardChanges ==
  IInv /\ TypeOK' /\ (Writer \/ Kill \/ LosePower) => \A i \in Index : Changed(i)
<1> SUFFICES ASSUME IInv, TypeOK', Writer \/ Kill \/ LosePower, NEW i \in Index
             PROVE  Changed(i)
  OBVIOUS
<1> USE DEF IInv, TypeOK, CardInv, Changed
<1>1. CASE Begin \/ Verify \/ Kill
  BY <1>1 DEF Begin, Verify, Kill, files
<1>2. CASE RemoveManifest
  BY <1>2 DEF RemoveManifest, Unsafe
<1>3. CASE OpenModule
  BY <1>3 DEF OpenModule, Unsafe
<1>4. CASE FillModule
  <2>a. wnext \in Files /\ i \in Files
    OBVIOUS
  <2>1. CASE Flush(wnext)
    <3>1. card' = [card EXCEPT ![wnext] = {rewrites}] \/ Unsafe(wnext, {rewrites, Torn})
      BY <2>1 DEF Flush
    <3>2. card'[wnext] = {rewrites} \/ card'[wnext] = card[wnext] \cup {rewrites, Torn}
      BY <2>a, <3>1 DEF Unsafe
    <3>3. i # wnext => card'[i] = card[i]
      BY <2>a, <3>1 DEF Unsafe
    <3>4. QED
      BY ONLY <3>2, <3>3 DEF Changed
  <2>2. CASE \E left \in Refused : Unsafe(wnext, {Torn, left})
    <3>1. PICK left \in {Absent, Torn} : Unsafe(wnext, {Torn, left})
      BY <2>2 DEF Refused
    <3>2. QED
      BY <2>a, <3>1 DEF Unsafe
  <2>3. QED
    BY <1>4, <2>1, <2>2 DEF FillModule
<1>5. CASE OpenTemporary
  BY <1>5 DEF OpenTemporary, Unsafe
<1>6. CASE FillTemporary
  BY <1>6 DEF FillTemporary, Unsafe, Flush
<1>7. CASE RenameManifest
  BY <1>7 DEF RenameManifest, Unsafe
<1>8. CASE LosePower
  BY <1>8 DEF LosePower
<1>9. QED
  BY <1>1, <1>2, <1>3, <1>4, <1>5, <1>6, <1>7, <1>8 DEF Writer

\* So a module that is held in no form older than a number stays so.
LEMMA NotBeforeStays ==
  ASSUME IInv, TypeOK', Writer \/ Kill \/ LosePower,
         NEW i \in Index, NEW n \in 0 .. rewrites, NotBefore(n, i)
  PROVE  NotBeforeNext(n, i)
<1>1. Changed(i)
  BY CardChanges
<1>2. n <= rewrites
  BY MaxWritesAssumption DEF IInv, TypeOK
<1>3. ASSUME NEW c \in card'[i] PROVE c \in {Absent, Torn} \/ n <= c
  <2>1. c \in card[i] \/ c \in {rewrites, Absent, Torn}
    BY <1>1, <1>3 DEF Changed
  <2>2. QED
    BY <1>2, <2>1 DEF NotBefore
<1>4. QED
  BY <1>3 DEF NotBeforeNext

\* What a file holds the card may hold.
LEMMA CardSteps == IInv /\ TypeOK' /\ (Writer \/ Kill \/ LosePower) => CardInv'
<1> SUFFICES ASSUME IInv, TypeOK', Writer \/ Kill \/ LosePower PROVE CardInv'
  OBVIOUS
<1>1. \E i \in Index : NotBeforeNext(durable', i)
  <2>1. PICK i \in Index : NotBefore(durable, i)
    BY DEF IInv, CardInv
  <2>2. CASE durable' = durable
    BY <2>1, <2>2, NotBeforeStays DEF IInv, TypeOK
  <2>3. CASE Verify /\ durable' = rewrites /\ Reached
    BY <2>3, MaxWritesAssumption DEF Verify, files, Reached, NotBeforeNext, IInv, TypeOK
  <2>4. QED
    BY <2>2, <2>3
       DEF Writer, Begin, RemoveManifest, OpenModule, FillModule, OpenTemporary, FillTemporary,
           RenameManifest, Verify, Kill, LosePower
<1>2. /\ \A i \in Index : modules'[i] \in card'[i]
      /\ manifest' \in card'[ManifestFile]
      /\ temporary' \in card'[TemporaryFile]
  <2> USE DEF IInv, TypeOK, CardInv
  <2>1. CASE Begin \/ Verify \/ Kill
    BY <2>1 DEF Begin, Verify, Kill, files
  <2>2. CASE RemoveManifest
    BY <2>2 DEF RemoveManifest, Unsafe
  <2>3. CASE OpenModule
    BY <2>3 DEF OpenModule, Unsafe
  <2>4. CASE FillModule
    <3>1. wnext \in Files /\ wnext # ManifestFile /\ wnext # TemporaryFile
      <4>1. wnext \in Index
        OBVIOUS
      <4>2. wnext \in Nat /\ wnext > 0
        BY <4>1, ModulesAssumption
      <4>3. wnext # 0 /\ wnext # -1
        BY ONLY <4>2
      <4>4. QED
        BY <4>1, <4>3
    <3>2. UNCHANGED <<manifest, temporary>>
      BY <2>4 DEF FillModule
    <3>3. CASE modules' = [modules EXCEPT ![wnext] = rewrites] /\ Flush(wnext)
      <4>1. card' = [card EXCEPT ![wnext] = {rewrites}] \/ Unsafe(wnext, {rewrites, Torn})
        BY <3>3 DEF Flush
      <4>2. card'[wnext] = {rewrites} \/ card'[wnext] = card[wnext] \cup {rewrites, Torn}
        BY <3>1, <4>1 DEF Unsafe
      <4>3. \A f \in Files : f # wnext => card'[f] = card[f]
        BY <3>1, <4>1 DEF Unsafe
      <4>4. \A i \in Index : modules'[i] = IF i = wnext THEN rewrites ELSE modules[i]
        BY <3>3
      <4>5. QED
        BY <3>1, <3>2, <4>2, <4>3, <4>4
    <3>4. CASE \E left \in Refused :
                 modules' = [modules EXCEPT ![wnext] = left] /\ Unsafe(wnext, {Torn, left})
      <4>1. PICK left \in Refused :
              modules' = [modules EXCEPT ![wnext] = left] /\ Unsafe(wnext, {Torn, left})
        BY <3>4
      <4>2. card'[wnext] = card[wnext] \cup {Torn, left}
        BY <3>1, <4>1 DEF Unsafe
      <4>3. \A f \in Files : f # wnext => card'[f] = card[f]
        BY <3>1, <4>1 DEF Unsafe
      <4>4. \A i \in Index : modules'[i] = IF i = wnext THEN left ELSE modules[i]
        BY <4>1
      <4>5. QED
        BY <3>1, <3>2, <4>2, <4>3, <4>4
    <3>5. QED
      BY <2>4, <3>3, <3>4 DEF FillModule
  <2>5. CASE OpenTemporary
    BY <2>5 DEF OpenTemporary, Unsafe
  <2>6. CASE FillTemporary
    BY <2>6 DEF FillTemporary, Unsafe, Flush
  <2>7. CASE RenameManifest
    BY <2>7 DEF RenameManifest, Unsafe
  <2>8. CASE LosePower
    BY <2>8 DEF LosePower
  <2>9. QED
    BY <2>1, <2>2, <2>3, <2>4, <2>5, <2>6, <2>7, <2>8 DEF Writer
<1>3. QED
  BY <1>1, <1>2 DEF CardInv, NotBefore, NotBeforeNext

LEMMA WriterSteps ==
  IInv /\ TypeOK' /\ (Writer \/ Kill \/ LosePower) => WriterInv' /\ InterruptedLeavesNone'
<1> SUFFICES ASSUME IInv, TypeOK', Writer \/ Kill \/ LosePower
             PROVE  WriterInv' /\ InterruptedLeavesNone'
  OBVIOUS
<1> USE ModulesAssumption, MaxWritesAssumption
    DEF IInv, TypeOK, WriterInv, Replacing, InterruptedLeavesNone, ManifestDescribesModules
<1>1. CASE Begin
  BY <1>1 DEF Begin, files, reader
<1>2. CASE RemoveManifest
  BY <1>2 DEF RemoveManifest, reader
<1>3. CASE OpenModule
  BY <1>3 DEF OpenModule, reader
<1>4. CASE FillModule
  BY <1>4 DEF FillModule, Refused, reader
<1>5. CASE OpenTemporary
  BY <1>5 DEF OpenTemporary, reader
<1>6. CASE FillTemporary
  BY <1>6 DEF FillTemporary, Refused, reader
<1>7. CASE RenameManifest
  BY <1>7 DEF RenameManifest, reader
<1>8. CASE Verify
  BY <1>8 DEF Verify, Reads, files, reader
<1>9. CASE Kill
  BY <1>9 DEF Kill, files, reader
<1>10. CASE LosePower
  BY <1>10 DEF LosePower
<1>11. QED
  BY <1>1, <1>2, <1>3, <1>4, <1>5, <1>6, <1>7, <1>8, <1>9, <1>10 DEF Writer

LEMMA BehindTheReader ==
  IInv /\ TypeOK' /\ (Writer \/ Kill \/ LosePower)
    => ReaderInv' /\ LoadedIsOneRewrite' /\ NeverOlder'
<1> SUFFICES ASSUME IInv, TypeOK', Writer \/ Kill \/ LosePower
             PROVE  ReaderInv' /\ LoadedIsOneRewrite' /\ NeverOlder'
  OBVIOUS
<1>1. /\ UNCHANGED <<rnext, found, loaded, since, outcome>>
      /\ rstep' \in {rstep, "idle"}
  BY DEF Writer, Begin, RemoveManifest, OpenModule, FillModule, OpenTemporary, FillTemporary,
         RenameManifest, Verify, Kill, LosePower, reader
<1>2. durable <= durable'
  <2>1. durable' \in {durable, rewrites}
    BY DEF Writer, Begin, RemoveManifest, OpenModule, FillModule, OpenTemporary, FillTemporary,
           RenameManifest, Verify, Kill, LosePower, writer
  <2>2. QED
    BY <2>1, MaxWritesAssumption DEF IInv, TypeOK
<1>3. \E i \in Index :
        NotBeforeNext(since', i) /\ (rstep' = "modules" /\ i < rnext' => since' <= found')
  <2>1. PICK i \in Index :
          NotBefore(since, i) /\ (rstep = "modules" /\ i < rnext => since <= found)
    BY DEF IInv, ReaderInv
  <2>2. since \in 0 .. rewrites
    BY MaxWritesAssumption DEF IInv, TypeOK, ReaderInv
  <2>3. NotBeforeNext(since, i)
    BY <2>1, <2>2, NotBeforeStays
  <2>4. QED
    BY <1>1, <2>1, <2>3 DEF NotBeforeNext
<1>4. QED
  BY <1>1, <1>2, <1>3, MaxWritesAssumption
     DEF IInv, TypeOK, ReaderInv, NotBefore, NotBeforeNext, LoadedIsOneRewrite, NeverOlder

\* A manifest that is read names its own rewrite; the module that no rewrite older
\* than the durable one replaces is among those that must match it.
LEMMA ReaderSteps == IInv /\ TypeOK' /\ Reader => IInv'
<1> SUFFICES ASSUME IInv, TypeOK', Reader PROVE IInv'
  OBVIOUS
<1>1. UNCHANGED <<files, writer, faults>>
  BY DEF Reader, ReadManifest, ReadModule
<1>2. CardInv' /\ WriterInv' /\ InterruptedLeavesNone'
  BY <1>1 DEF files, writer, IInv, CardInv, NotBefore, WriterInv, Replacing,
              InterruptedLeavesNone, ManifestDescribesModules
<1>3. ReaderInv' /\ LoadedIsOneRewrite' /\ NeverOlder'
  <2> USE ModulesAssumption, MaxWritesAssumption
      DEF IInv, TypeOK, ReaderInv, LoadedIsOneRewrite, NeverOlder
  <2>1. CASE ReadManifest
    <3>1. PICK i \in Index : NotBefore(durable, i)
      BY DEF CardInv
    <3>2. NotBeforeNext(since', i) /\ ~ (i < rnext')
      BY <1>1, <2>1, <3>1 DEF ReadManifest, files, NotBefore, NotBeforeNext
    <3>3. QED
      BY <2>1, <3>2 DEF ReadManifest, writer, NotBefore, NotBeforeNext
  <2>2. CASE ReadModule
    <3>1. rstep = "modules" /\ outcome = "none" /\ UNCHANGED <<found, since, durable, card>>
      BY <2>2 DEF ReadModule, writer, files
    <3>a. PICK i \in Index : NotBefore(since, i) /\ (i < rnext => since <= found)
      BY <3>1
    <3>b. NotBeforeNext(since', i)
      BY <3>1, <3>a DEF NotBefore, NotBeforeNext
    <3>2. CASE UNCHANGED loaded /\ rstep' = "idle" /\ outcome' # "ok"
      BY <3>1, <3>2, <3>b DEF NotBefore, NotBeforeNext
    <3>3. CASE /\ Matches(modules[rnext])
               /\ loaded' = [loaded EXCEPT ![rnext] = modules[rnext]]
               /\ IF rnext = Modules
                  THEN Return("ok") /\ UNCHANGED rnext
                  ELSE rnext' = rnext + 1 /\ UNCHANGED <<rstep, outcome>>
      <4>1. modules[rnext] = found /\ loaded' = [loaded EXCEPT ![rnext] = found]
        BY <3>3 DEF Matches
      <4>2. \A j \in Index : j < rnext \/ j = rnext => loaded'[j] = found
        BY <3>1, <4>1
      <4>3. i < rnext \/ i = rnext => since <= found
        <5>1. modules[rnext] \in card[rnext]
          BY DEF CardInv
        <5>2. found \in Rewrite
          BY <3>1
        <5>3. QED
          BY <3>a, <4>1, <5>1, <5>2 DEF NotBefore
      <4>4. CASE rnext = Modules
        <5>1. rstep' = "idle" /\ outcome' = "ok"
          BY <3>3, <4>4
        <5>2. \A j \in Index : loaded'[j] = found
          BY <4>2, <4>4
        <5>3. QED
          <6>1. since <= found
            BY <4>3, <4>4
          <6>2. QED
            BY <3>1, <3>b, <5>1, <5>2, <6>1 DEF NotBefore, NotBeforeNext
      <4>5. CASE rnext # Modules
        <5>1. rstep' = "modules" /\ outcome' = "none" /\ rnext' = rnext + 1
          BY <3>1, <3>3, <4>5
        <5>2. \A j \in Index : j < rnext' => loaded'[j] = found
          BY <4>2, <5>1
        <5>3. i < rnext' => since <= found
          BY <4>3, <5>1
        <5>4. QED
          BY <3>1, <3>b, <5>1, <5>2, <5>3 DEF NotBefore, NotBeforeNext
      <4>6. QED
        BY <4>4, <4>5
    <3>4. QED
      BY <2>2, <3>2, <3>3 DEF ReadModule
  <2>3. QED
    BY <2>1, <2>2 DEF Reader
<1>4. QED
  BY <1>2, <1>3 DEF IInv

\* IInv holds in every state of the directory, its writer and its readers, for any
\* number of modules and rewrites, with or without the faults (cache::write and
\* cache::read).
THEOREM Invariance == Spec => []IInv
<1>1. Init => IInv
  BY Initial
<1>2. IInv /\ [Next]_vars => IInv'
  <2> SUFFICES ASSUME IInv, [Next]_vars PROVE IInv'
    OBVIOUS
  <2>1. TypeOK'
    BY Types DEF IInv
  <2>2. CASE Writer \/ Kill \/ LosePower
    BY <2>1, <2>2, CardSteps, WriterSteps, BehindTheReader DEF IInv
  <2>3. CASE Reader
    BY <2>1, <2>3, ReaderSteps
  <2>4. CASE UNCHANGED vars
    BY <2>1, <2>4
       DEF vars, files, writer, reader, IInv, CardInv, NotBefore, WriterInv, ReaderInv, Replacing,
           LoadedIsOneRewrite, NeverOlder, InterruptedLeavesNone, ManifestDescribesModules
  <2>5. QED
    BY <2>2, <2>3, <2>4 DEF Next
<1>3. QED
  BY <1>1, <1>2, PTL DEF Spec

\* No cache that loads mixes modules of two rewrites (cache_store.cpp read).
THEOREM LoadsOneRewrite == Spec => []LoadedIsOneRewrite
<1>1. IInv => LoadedIsOneRewrite
  BY DEF IInv
<1>2. QED
  BY <1>1, Invariance, PTL

\* No cache that loads is older than one the app had verified, with a module no older
\* form of which the card held, before the manifest was opened; although files fail
\* and after a loss of power any of them may be older (prepare_one, cache_store.cpp).
THEOREM LoadsNoneOlder == Spec => []NeverOlder
<1>1. IInv => NeverOlder
  BY DEF IInv
<1>2. QED
  BY <1>1, Invariance, PTL

\* As long as the old manifest goes and the power stays, wherever the app is killed
\* a manifest has its own modules beside it (cache_store.cpp write).
THEOREM InterruptionLeavesNone == Spec => []InterruptedLeavesNone
<1>1. IInv => InterruptedLeavesNone
  BY DEF IInv
<1>2. QED
  BY <1>1, Invariance, PTL

=============================================================================
