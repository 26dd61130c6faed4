------------------------------- MODULE Archive -------------------------------
(***************************************************************************)
(* Unpacking an archive (internal/safearchive): entry after entry, each    *)
(* name is resolved inside the destination, the size limits are checked    *)
(* against the declared size before a byte is written, and the bytes of    *)
(* the body are counted while they are.                                    *)
(*                                                                         *)
(* An entry has a type, a name (the elements of its path, and whether its  *)
(* spelling is one the code refuses), a declared size and a body of        *)
(* another one when the archive lies.                                      *)
(***************************************************************************)
EXTENDS Integers, Sequences, FiniteSets, FiniteSetsExt

CONSTANTS MaxFiles, MaxFileBytes, MaxTotalBytes,   \* Limits
          Entries                                  \* how many entries an archive has at most

VARIABLES format,   \* "zip", "tar" or "single"
          left,     \* how many entries are not yet read
          total, count,
          disk,     \* the bytes of every file written
          wrote,    \* the bytes written in all
          outcome   \* "run", "ok" or "refused"

vars == <<format, left, total, count, disk, wrote, outcome>>

Names == { <<"a">>, <<"a", "b">>, <<"a", "..", "b">>, <<"..", "b">>, <<".", "b">>,
           <<"a", "..">>, <<"a", "..", "..", "b">>, <<>> }

Sizes == 0..(MaxFileBytes + 1)

Types == {"reg", "dir", "special"}

Entry == [type : Types, name : Names, spelled : BOOLEAN, declared : Sizes, body : Sizes]

(* The entries the model draws from: at most one thing is wrong with each. *)
Offered ==
  {e \in Entry :
     /\ e.type # "reg" => e.declared = 0 /\ e.body = 0
     /\ ~e.spelled => e.name = <<"a">> /\ e.declared = 0 /\ e.body = 0
     /\ e.declared # e.body => e.name = <<"a">>}

(***************************************************************************)
(* Names                                                                   *)
(***************************************************************************)
Refused == <<"refused">>

(* A mutation of Resolve: the elements are joined as they come.            *)
ResolveLax(name) == SelectSeq(name, LAMBDA e : e # ".")

(* validateArchiveEntry's stack: "." and empty elements vanish, ".." pops  *)
(* and is refused on the empty stack.                                      *)
Resolve(name) ==
  LET stack[i \in 0..Len(name)] ==
        IF i = 0 THEN <<>>
        ELSE LET s == stack[i - 1]  e == name[i] IN
             IF s = Refused THEN Refused
             ELSE IF e = "." THEN s
             ELSE IF e = ".." THEN IF s = <<>> THEN Refused ELSE SubSeq(s, 1, Len(s) - 1)
             ELSE Append(s, e)
  IN stack[Len(name)]

(* The spellings validateArchiveEntry refuses before it resolves one: a    *)
(* control character, a device, drive, stream or absolute form.            *)
Spelled(e) == e.spelled

(* safeJoin: the resolved name below the destination; a file may not       *)
(* resolve to the destination itself.                                      *)
Joins(e) ==
  IF ~Spelled(e) THEN Refused
  ELSE LET path == Resolve(e.name) IN
       IF path = <<>> /\ e.type # "dir" THEN Refused ELSE path

(***************************************************************************)
(* writeBounded                                                            *)
(***************************************************************************)

(* A mutation of Fits: what was written before is not counted. *)
FitsAlone(declared) == declared <= MaxFileBytes /\ declared <= MaxTotalBytes

Fits(declared) == declared <= MaxFileBytes /\ total + declared <= MaxTotalBytes

Put(path, n) ==
  disk' = [p \in DOMAIN disk \cup {path} |-> IF p = path THEN n ELSE disk[p]]

(* The declared bytes are copied; a body that ends before is an error      *)
(* after the bytes it had are on disk.                                     *)
WriteBounded(e, path, refuseLonger) ==
  LET n == IF e.body < e.declared THEN e.body ELSE e.declared IN
  /\ Put(path, n)
  /\ wrote' = wrote + n
  /\ total' = total + n
  /\ outcome' = IF e.body < e.declared \/ (refuseLonger /\ e.body > e.declared)
                THEN "refused" ELSE outcome

Refuse == outcome' = "refused" /\ UNCHANGED <<total, disk, wrote>>

(***************************************************************************)
(* The formats                                                             *)
(***************************************************************************)

(* unpackZip counts the directory's entries before it extracts one, and    *)
(* extractZipFile refuses a body longer than declared.                     *)
ZipEntry(e) ==
  LET path == Joins(e) IN
  IF count = 0 /\ left > MaxFiles THEN Refuse
  ELSE IF e.type = "special" \/ path = Refused THEN Refuse
  ELSE IF e.type = "dir" THEN UNCHANGED <<total, disk, wrote, outcome>>
  ELSE IF ~Fits(e.declared) THEN Refuse
  ELSE WriteBounded(e, path, TRUE)

(* processTarHeader counts as it goes; tar has no body past the size. *)
TarEntry(e) ==
  LET path == Joins(e) IN
  IF count + 1 > MaxFiles THEN Refuse
  ELSE IF e.type = "special" \/ path = Refused THEN Refuse
  ELSE IF e.type = "dir" THEN UNCHANGED <<total, disk, wrote, outcome>>
  ELSE IF ~Fits(e.declared) THEN Refuse
  ELSE WriteBounded(e, path, FALSE)

(* unpackSingleGz: the body is copied up to one byte over the budget. *)
Budget == Min({MaxFileBytes, MaxTotalBytes})

SingleFile(e) ==
  LET n == Min({e.body, Budget + 1}) IN
  /\ Put(<<"single">>, n) /\ wrote' = wrote + n
  /\ outcome' = IF n > Budget THEN "refused" ELSE outcome
  /\ UNCHANGED total

(* The loop of unpackZip, unpackTarReader and                              *)
(* unpackTarReaderFromPeekedHeader; a read error may end it.               *)
Extract ==
  /\ outcome = "run" /\ left > 0
  /\ \/ \E e \in Offered :
          CASE format = "zip" -> ZipEntry(e)
            [] format = "tar" -> TarEntry(e)
            [] format = "single" -> SingleFile(e)
     \/ Refuse
  /\ left' = left - 1 /\ count' = count + 1
  /\ UNCHANGED format

Finish ==
  /\ outcome = "run" /\ left = 0
  /\ outcome' = "ok"
  /\ UNCHANGED <<format, left, total, count, disk, wrote>>

(* Unpack: the format by name or by the first bytes (a gzip stream that    *)
(* carries no tar is a single file).                                       *)
Init ==
  /\ format \in {"zip", "tar", "single"}
  /\ left \in 0..(IF format = "single" THEN 1 ELSE Entries)
  /\ total = 0 /\ count = 0 /\ disk = <<>> /\ wrote = 0 /\ outcome = "run"

Next == Extract \/ Finish

Spec == Init /\ [][Next]_vars

(***************************************************************************)
(* Properties                                                              *)
(***************************************************************************)
TypeOK ==
  /\ format \in {"zip", "tar", "single"} /\ outcome \in {"run", "ok", "refused"}
  /\ total \in 0..(Entries * MaxFileBytes) /\ count \in 0..Entries

(* Whatever the archive declares, an extraction that ends well wrote no    *)
(* more than the limits allow, and one that is refused no more than one    *)
(* byte over; it never leaves more files than the limit.                   *)
BudgetKept ==
  /\ Cardinality(DOMAIN disk) <= MaxFiles
  /\ wrote <= MaxTotalBytes + (IF format = "single" THEN 1 ELSE 0)
  /\ outcome = "ok" => /\ wrote <= MaxTotalBytes /\ count <= MaxFiles
                       /\ \A p \in DOMAIN disk : disk[p] <= MaxFileBytes

(* No file is written outside the destination, and none at it. *)
Contained ==
  \A p \in DOMAIN disk : p # <<>> /\ \A i \in 1..Len(p) : p[i] \notin {"..", "."}
=============================================================================
