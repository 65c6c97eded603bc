----------------------------- MODULE CacheStore -----------------------------
(***************************************************************************)
(* The prepared cache on the memory card: the preparation app rewrites the *)
(* modules and the manifest of one directory file by file (cache::write),  *)
(* and a reader loads them file by file (cache::read) at any time.  Every  *)
(* file operation may fail, the app may be killed between any two of them, *)
(* and the console may lose its power.                                     *)
(*                                                                         *)
(* What a file holds is the number of the rewrite it comes from, so that   *)
(* "the module has the hash its manifest names" is "module and manifest    *)
(* have the same number".  A manifest is checked by its own CRC.           *)
(***************************************************************************)
EXTENDS Integers, FiniteSets

CONSTANTS
  Modules,      \* number of passes in the cache
  MaxWrites,    \* bound on rewrites of the directory
  RemoveFails,  \* whether std::remove may fail
  PowerFails    \* whether power may be lost

ASSUME ModulesAssumption == Modules \in Nat \ {0}
ASSUME MaxWritesAssumption == MaxWrites \in Nat
ASSUME FaultsAssumption == RemoveFails \in BOOLEAN /\ PowerFails \in BOOLEAN

\* A file that is not there, and one that was not written to its end.
Absent == 0
Torn == -1
Index == 1 .. Modules
Rewrite == 1 .. MaxWrites
\* The keys of the two manifest files beside those of the modules.
ManifestFile == 0
TemporaryFile == -1
Files == Index \cup {ManifestFile, TemporaryFile}
Contents == Rewrite \cup {Absent, Torn}

VARIABLES
  manifest,     \* manifest.bin
  temporary,    \* manifest.new
  modules,      \* NN.dksh
  card,         \* what the card may hold of each file should the power be lost
  wstep,        \* where the app is in prepare_one
  wnext,        \* the module it writes
  rewrites,     \* history: rewrites begun; the number of the latest
  durable,      \* history: the latest verified rewrite with a module no older one replaces
  rstep,        \* where the reader is in cache::read
  rnext,        \* the module it reads
  found,        \* the manifest it read
  loaded,       \* the modules it read
  since,        \* history: durable, when the reader opened the manifest
  outcome,      \* what it returned
  faults        \* history: whether a manifest stayed, whether power was lost

files == <<manifest, temporary, modules, card>>
writer == <<wstep, wnext, rewrites, durable>>
reader == <<rstep, rnext, found, loaded, since, outcome>>
vars == <<files, writer, reader, faults>>

Init ==
  /\ manifest = Absent
  /\ temporary = Absent
  /\ modules = [i \in Index |-> Absent]
  /\ card = [f \in Files |-> {Absent}]
  /\ wstep = "idle"
  /\ wnext = 1
  /\ rewrites = 0
  /\ durable = 0
  /\ rstep = "idle"
  /\ rnext = 1
  /\ found = Absent
  /\ loaded = [i \in Index |-> Absent]
  /\ since = 0
  /\ outcome = "none"
  /\ faults = {}

-----------------------------------------------------------------------------
(***************************************************************************)
(* cache::write, as prepare_one calls it.                                  *)
(***************************************************************************)
Begin ==
  /\ wstep = "idle"
  /\ rewrites < MaxWrites
  /\ rewrites' = rewrites + 1
  /\ wstep' = "remove"
  /\ wnext' = 1
  /\ UNCHANGED <<files, durable, reader, faults>>

\* Mutant: the old manifest is left for the rename to replace.
RemoveNothing ==
  /\ wstep = "remove"
  /\ wstep' = "open"
  /\ UNCHANGED <<files, wnext, rewrites, durable, reader, faults>>

\* A change of a file the card may have in whole, in part or not at all.
Unsafe(file, contents) == card' = [card EXCEPT ![file] = @ \cup contents]

\* A good fsync makes the contents safe, but no entry of the directory: a file that
\* was created or removed may still be what it was before.  The result of fsync is
\* not looked at: it may have done nothing.
Flush(file) ==
  \/ Absent \notin card[file] /\ card' = [card EXCEPT ![file] = {rewrites}]
  \/ Unsafe(file, {rewrites, Torn})

\* The result of the removal is not looked at.
RemoveManifest ==
  /\ wstep = "remove"
  /\ \/ manifest' = Absent /\ Unsafe(ManifestFile, {Absent}) /\ UNCHANGED faults
     \/ RemoveFails /\ faults' = faults \cup {"remove"} /\ UNCHANGED <<manifest, card>>
  /\ wstep' = "open"
  /\ UNCHANGED <<temporary, modules, wnext, rewrites, durable, reader>>

Fail == wstep' = "idle"

\* fopen "wb" empties the file; it may also fail and leave it alone.
OpenModule ==
  /\ wstep = "open"
  /\ \/ /\ modules' = [modules EXCEPT ![wnext] = Torn]
        /\ Unsafe(wnext, {Torn})
        /\ wstep' = "fill"
     \/ Fail /\ UNCHANGED <<modules, card>>
  /\ UNCHANGED <<manifest, temporary, wnext, rewrites, durable, reader, faults>>

\* What write_file leaves of a file it could not write: it removes it, or not.
Refused == IF RemoveFails THEN {Absent, Torn} ELSE {Absent}

FillModule ==
  /\ wstep = "fill"
  /\ \/ /\ modules' = [modules EXCEPT ![wnext] = rewrites]
        /\ Flush(wnext)
        /\ wnext' = IF wnext < Modules THEN wnext + 1 ELSE wnext
        /\ wstep' = IF wnext < Modules THEN "open" ELSE "manifest"
     \/ /\ \E left \in Refused :
             modules' = [modules EXCEPT ![wnext] = left] /\ Unsafe(wnext, {Torn, left})
        /\ Fail
        /\ UNCHANGED wnext
  /\ UNCHANGED <<manifest, temporary, rewrites, durable, reader, faults>>

OpenTemporary ==
  /\ wstep = "manifest"
  /\ \/ temporary' = Torn /\ Unsafe(TemporaryFile, {Torn}) /\ wstep' = "fillmanifest"
     \/ Fail /\ UNCHANGED <<temporary, card>>
  /\ UNCHANGED <<manifest, modules, wnext, rewrites, durable, reader, faults>>

FillTemporary ==
  /\ wstep = "fillmanifest"
  /\ \/ temporary' = rewrites /\ Flush(TemporaryFile) /\ wstep' = "rename"
     \/ /\ temporary' \in Refused
        /\ Unsafe(TemporaryFile, {Torn, temporary'})
        /\ Fail
  /\ UNCHANGED <<manifest, modules, wnext, rewrites, durable, reader, faults>>

\* The manifest replaces the old one, if there still is one, in one step.
RenameManifest ==
  /\ wstep = "rename"
  /\ \/ /\ manifest' = temporary
        /\ temporary' = Absent
        /\ card' = [card EXCEPT ![ManifestFile] = @ \cup card[TemporaryFile],
                                ![TemporaryFile] = @ \cup {Absent}]
        /\ wstep' = "verify"
     \/ /\ temporary' \in IF RemoveFails THEN {Absent, temporary} ELSE {Absent}
        /\ Unsafe(TemporaryFile, {temporary'})
        /\ Fail
        /\ UNCHANGED manifest
  /\ UNCHANGED <<modules, wnext, rewrites, durable, reader, faults>>

\* prepare_one reads the cache back and compares it with what it wrote.
Reads(m) == m \in Rewrite /\ \A i \in Index : modules[i] = m

\* History: whether a module of this rewrite is left that no older one can replace.
Reached == \E i \in Index : card[i] \subseteq {rewrites, Absent, Torn}

Verify ==
  /\ wstep = "verify"
  /\ wstep' = "idle"
  /\ \/ /\ Reads(manifest) /\ manifest = rewrites
        /\ durable' = IF Reached THEN rewrites ELSE durable
     \/ UNCHANGED durable
  /\ UNCHANGED <<files, wnext, rewrites, reader, faults>>

Writer ==
  \/ Begin
  \/ RemoveManifest
  \/ OpenModule
  \/ FillModule
  \/ OpenTemporary
  \/ FillTemporary
  \/ RenameManifest
  \/ Verify

\* The app is killed: the files stay as they are.
Kill ==
  /\ wstep # "idle"
  /\ wstep' = "idle"
  /\ UNCHANGED <<files, wnext, rewrites, durable, reader, faults>>

\* The power is lost: every file is what the card happens to hold of it, which may
\* be an older one, whole or in part.
LosePower ==
  /\ PowerFails
  /\ rewrites > 0
  /\ manifest' \in card[ManifestFile]
  /\ temporary' \in card[TemporaryFile]
  /\ modules' \in {m \in [Index -> Contents] : \A i \in Index : m[i] \in card[i]}
  /\ card' = [f \in Files |-> {CASE f = ManifestFile -> manifest'
                                 [] f = TemporaryFile -> temporary'
                                 [] OTHER -> modules'[f]}]
  /\ wstep' = "idle"
  /\ rstep' = "idle"
  /\ faults' = faults \cup {"power"}
  /\ UNCHANGED <<wnext, rewrites, durable, rnext, found, loaded, since, outcome>>

-----------------------------------------------------------------------------
(***************************************************************************)
(* cache::read, from another process.                                      *)
(***************************************************************************)
Return(result) == outcome' = result /\ rstep' = "idle"

ReadManifest ==
  /\ rstep = "idle"
  /\ found' = manifest
  /\ since' = durable
  /\ rnext' = 1
  /\ \/ manifest = Absent /\ Return("missing")
     \/ manifest = Torn /\ Return("damaged")
     \/ manifest # Absent /\ Return("io_error")
     \/ manifest \in Rewrite /\ rstep' = "modules" /\ outcome' = "none"
  /\ UNCHANGED <<files, writer, loaded, faults>>

\* Mutant: the hash of a module is not compared.
MatchesAny(module) == module \in Contents

\* The size and the hash of every module are compared with the manifest's.
Matches(module) == module = found

ReadModule ==
  /\ rstep = "modules"
  /\ \/ modules[rnext] = Absent /\ Return("missing") /\ UNCHANGED <<rnext, loaded>>
     \/ modules[rnext] # Absent /\ Return("io_error") /\ UNCHANGED <<rnext, loaded>>
     \/ /\ modules[rnext] # Absent
        /\ ~ Matches(modules[rnext])
        /\ Return("damaged")
        /\ UNCHANGED <<rnext, loaded>>
     \/ /\ modules[rnext] # Absent
        /\ Matches(modules[rnext])
        /\ loaded' = [loaded EXCEPT ![rnext] = modules[rnext]]
        /\ IF rnext = Modules
           THEN Return("ok") /\ UNCHANGED rnext
           ELSE rnext' = rnext + 1 /\ UNCHANGED <<rstep, outcome>>
  /\ UNCHANGED <<files, writer, found, since, faults>>

Reader == ReadManifest \/ ReadModule

Next == Writer \/ Kill \/ LosePower \/ Reader

Spec == Init /\ [][Next]_vars

-----------------------------------------------------------------------------
(***************************************************************************)
(* Properties.                                                             *)
(***************************************************************************)
\* Every file and every local variable of writer and reader has its type.
TypeOK ==
  /\ manifest \in Contents
  /\ temporary \in Contents
  /\ modules \in [Index -> Contents]
  /\ card \in [Files -> SUBSET Contents]
  /\ wstep \in {"idle", "remove", "open", "fill", "manifest", "fillmanifest", "rename", "verify"}
  /\ wnext \in Index
  /\ rewrites \in 0 .. MaxWrites
  /\ durable \in 0 .. rewrites
  /\ rstep \in {"idle", "modules"}
  /\ rnext \in Index
  /\ found \in Contents
  /\ loaded \in [Index -> Contents]
  /\ since \in 0 .. MaxWrites
  /\ outcome \in {"none", "ok", "missing", "damaged", "io_error"}
  /\ faults \subseteq {"remove", "power"}

\* A cache that loads is one rewrite through and through: no module of another
\* rewrite and none that was cut off is handed out with the manifest, although
\* the files are replaced one by one while they are read.
LoadedIsOneRewrite ==
  outcome = "ok" => found \in Rewrite /\ \A i \in Index : loaded[i] = found

\* A cache that loads is never older than a rewrite that was verified before its
\* manifest was opened, with one module at least that the card held in no older form:
\* its fsync succeeded, or there was none before.  That is so whatever failed since
\* then, and although after a loss of power the older manifest comes back, with every
\* other module whose truncation or contents never reached the card.
NeverOlder == outcome = "ok" => found >= since

\* "An interrupted rewrite leaves no manifest at all rather than one describing
\* modules already replaced": a manifest always has its modules beside it.
ManifestDescribesModules ==
  manifest # Absent => \A i \in Index : modules[i] = manifest

\* That is so wherever the app is killed and whichever file operation fails, as
\* long as the removal of the old manifest is not the one that does.
InterruptedLeavesNone == faults = {} => ManifestDescribesModules

-----------------------------------------------------------------------------
(***************************************************************************)
(* The inductive invariant behind them.  One module is held by nothing,    *)
(* not even by the card, in a form older than the rewrite known durable;   *)
(* a reader that is past such a module reads no older rewrite.  While the  *)
(* app is in a rewrite the modules behind it are of that rewrite.          *)
(***************************************************************************)
NotBefore(number, i) == \A c \in card[i] : c \in {Absent, Torn} \/ number <= c

CardInv ==
  /\ \A i \in Index : modules[i] \in card[i]
  /\ manifest \in card[ManifestFile]
  /\ temporary \in card[TemporaryFile]
  /\ \E i \in Index : NotBefore(durable, i)

Replacing == {"open", "fill", "manifest", "fillmanifest", "rename"}

WriterInv ==
  /\ wstep # "idle" => rewrites \in Rewrite
  /\ wstep = "remove" => wnext = 1
  /\ wstep \in {"open", "fill"} => \A i \in Index : i < wnext => modules[i] = rewrites
  /\ wstep \in {"manifest", "fillmanifest", "rename"} => \A i \in Index : modules[i] = rewrites
  /\ wstep = "rename" => temporary = rewrites
  /\ faults = {} /\ wstep \in Replacing => manifest = Absent

ReaderInv ==
  /\ since <= durable
  /\ \E i \in Index :
       NotBefore(since, i) /\ (rstep = "modules" /\ i < rnext => since <= found)
  /\ rstep = "modules" =>
       outcome = "none" /\ found \in Rewrite /\ \A i \in Index : i < rnext => loaded[i] = found

IInv ==
  /\ TypeOK /\ CardInv /\ WriterInv /\ ReaderInv
  /\ LoadedIsOneRewrite /\ NeverOlder /\ InterruptedLeavesNone

=============================================================================
