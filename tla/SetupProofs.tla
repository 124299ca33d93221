---------------------------- MODULE SetupProofs -----------------------------
(***************************************************************************)
(* Proofs about the two sides of a setup: its bundle on disk (SetupBundle) *)
(* and the trust put in it (Trust).                                        *)
(*                                                                         *)
(* SetupBundle, for any number of commands, directories and setups: the    *)
(* inductive invariant says, for every stage of a command, which files it  *)
(* has read or staged and to which setup they belong, and that a reported  *)
(* bundle is durable.                                                      *)
(*                                                                         *)
(* Trust: type correctness carries what the properties need of earlier     *)
(* steps (the proofs inside a signed registry were made by their holders,  *)
(* the approval a verifier keeps was signed), and the three properties of  *)
(* what a verifier accepts follow from it.                                 *)
(***************************************************************************)
EXTENDS SetupBundle, Trust, SequenceTheorems, TLAPS

-----------------------------------------------------------------------------
(* Setup bundles *)

Public == {"manifest", "params", "vk"}
Has(s, f) == \E i \in 1 .. Len(s) : s[i] = f

\* The files of the bundle a command writes.
Target(c) == IF c.rest = <<>> THEN Files ELSE Public

Commands ==
  [at : {"idle", "read", "loaded", "mkdir", "write", "rename", "settle"},
   dir : Dirs \cup {<<>>}, src : Dirs \cup {<<>>}, pin : Nat, todo : Seq(Files),
   rest : {<<>>, PublicFiles}, buf : [Files -> Nat], tmp : [Files -> Nat], synced : BOOLEAN]

\* What was read is of the pinned setup, and what is missing is still to be read.
Reading(c, n) ==
  c.at = "read" =>
    /\ c.src \in Dirs /\ c.pin \in 1 .. n /\ c.tmp = Absent
    /\ \A f \in Files : c.buf[f] \in {0, c.pin}
    /\ \A f \in Public : c.buf[f] = c.pin \/ Has(c.todo, f)
    /\ c.rest # <<>> => c.dir \in Dirs /\ c.buf["pk"] = 0 /\ ~Has(c.todo, "pk")

\* A pinned command past its reading holds the pinned setup.
Pinned(c) ==
  c.pin # 0 /\ c.at # "read" =>
    /\ \A f \in Public : c.buf[f] = c.pin
    /\ c.buf["pk"] \in {0, c.pin}

\* A file of the bundle is staged or still to be written, and no other is.
Writing(c, n) ==
  c.at \in {"mkdir", "write"} =>
    /\ c.dir \in Dirs /\ c.buf["manifest"] \in 1 .. n
    /\ \A f \in Target(c) : /\ c.buf[f] = c.buf["manifest"]
                            /\ c.tmp[f] = c.buf[f] \/ Has(c.todo, f)
    /\ \A f \in Files \ Target(c) : c.tmp[f] = 0 /\ ~Has(c.todo, f)

\* A whole bundle is staged, and synced, before it is renamed.
Publishing(c, n) ==
  c.at \in {"rename", "settle"} =>
    /\ c.dir \in Dirs /\ c.buf["manifest"] \in 1 .. n
    /\ c.tmp = Bundle(c.buf["manifest"], Target(c))
    /\ c.synced

Good(c, n) ==
  c \in Commands /\ Reading(c, n) /\ Pinned(c) /\ Writing(c, n) /\ Publishing(c, n)

Whole(b, n) == b = Absent \/ \E g \in 1 .. n : b = Bundle(g, Files) \/ b = Bundle(g, Public)

\* A reported bundle is durable, unless it went with the parent directory.
Kept(d) ==
  told[d] # 0 /\ d \notin lost => disk[d]["manifest"] = told[d] /\ durable[d] = disk[d]

IInv ==
  /\ made \in Nat
  /\ disk \in [Dirs -> [Files -> Nat]] /\ durable \in [Dirs -> [Files -> Nat]]
  /\ told \in [Dirs -> Nat] /\ lost \subseteq Dirs
  /\ proc \in [Procs -> Commands]
  /\ \A d \in Dirs : Whole(disk[d], made) /\ Whole(durable[d], made)
  /\ \A p \in Procs : Good(proc[p], made)
  /\ \A d \in Dirs : Kept(d)

-----------------------------------------------------------------------------
(* Facts about commands *)

LEMMA AppendFile ==
  ASSUME NEW s \in Seq(Files), NEW e \in Files
  PROVE  /\ Append(s, e) \in Seq(Files) /\ Len(Append(s, e)) = Len(s) + 1
         /\ \A i \in 1 .. Len(s) : Append(s, e)[i] = s[i]
OBVIOUS

LEMMA FileNames ==
  /\ Range(SetupFiles) = Files /\ Range(PublicFiles) = Public
  /\ \A f \in Public : Has(PublicFiles, f)
  /\ \A f \in Files : Has(SetupFiles, f)
  /\ ~Has(PublicFiles, "pk") /\ ~Has(PublicFiles \o PublicFiles, "pk")
  /\ \A f \in Public : Has(PublicFiles \o PublicFiles, f)
                       /\ Has(Append(PublicFiles, "pk"), f)
  /\ PublicFiles \in Seq(Files) /\ SetupFiles \in Seq(Files)
  /\ PublicFiles \o PublicFiles \in Seq(Files) /\ Append(PublicFiles, "pk") \in Seq(Files)
  /\ PublicFiles # <<>> /\ Public \subseteq Files
<1>1. Len(PublicFiles) = 3 /\ PublicFiles[1] = "manifest" /\ PublicFiles[2] = "params"
      /\ PublicFiles[3] = "vk" /\ PublicFiles \in Seq(Files) /\ DOMAIN PublicFiles = 1 .. 3
  BY DEF PublicFiles, Files
<1>2. Len(SetupFiles) = 4 /\ SetupFiles[1] = "params" /\ SetupFiles[2] = "vk"
      /\ SetupFiles[3] = "pk" /\ SetupFiles[4] = "manifest" /\ SetupFiles \in Seq(Files)
      /\ DOMAIN SetupFiles = 1 .. 4
  BY DEF SetupFiles, Files
<1>3. Range(SetupFiles) = Files
  BY <1>2 DEF Range, Files
<1>4. Range(PublicFiles) = Public
  BY <1>1 DEF Range, Public
<1>5. /\ \A f \in Public : Has(PublicFiles, f)
      /\ ~Has(PublicFiles, "pk")
  BY <1>1 DEF Has, Public
<1>6. \A f \in Files : Has(SetupFiles, f)
  BY <1>2 DEF Has, Files
<1>7. /\ PublicFiles \o PublicFiles \in Seq(Files) /\ Len(PublicFiles \o PublicFiles) = 6
      /\ \A i \in 1 .. 6 : (PublicFiles \o PublicFiles)[i] =
                             IF i <= 3 THEN PublicFiles[i] ELSE PublicFiles[i - 3]
  <2>1. /\ PublicFiles \o PublicFiles \in Seq(Files)
        /\ Len(PublicFiles \o PublicFiles) = Len(PublicFiles) + Len(PublicFiles)
        /\ \A i \in 1 .. Len(PublicFiles) + Len(PublicFiles) :
             (PublicFiles \o PublicFiles)[i] =
               IF i <= Len(PublicFiles) THEN PublicFiles[i] ELSE PublicFiles[i - Len(PublicFiles)]
    BY <1>1, ConcatProperties
  <2>. QED
    BY <1>1, <2>1
<1>8. \A f \in Public : Has(PublicFiles \o PublicFiles, f)
  BY <1>1, <1>7 DEF Has, Public
<1>9. ~Has(PublicFiles \o PublicFiles, "pk")
  BY <1>1, <1>7 DEF Has
<1>10. /\ Append(PublicFiles, "pk") \in Seq(Files) /\ Len(Append(PublicFiles, "pk")) = 4
       /\ \A i \in 1 .. 3 : Append(PublicFiles, "pk")[i] = PublicFiles[i]
  <2>1. "pk" \in Files
    BY DEF Files
  <2>2. /\ Append(PublicFiles, "pk") \in Seq(Files)
        /\ Len(Append(PublicFiles, "pk")) = Len(PublicFiles) + 1
        /\ \A i \in 1 .. Len(PublicFiles) : Append(PublicFiles, "pk")[i] = PublicFiles[i]
    BY <1>1, <2>1, AppendFile
  <2>. QED
    BY <1>1, <2>2
<1>11. \A f \in Public : Has(Append(PublicFiles, "pk"), f)
  BY <1>1, <1>10 DEF Has, Public
<1>12. PublicFiles # <<>> /\ Public \subseteq Files
  <2>1. Len(PublicFiles) # 0
    BY <1>1
  <2>2. PublicFiles # <<>>
    BY <2>1, EmptySeq
  <2>3. Public \subseteq Files
    BY DEF Public, Files
  <2>. QED BY <2>2, <2>3
<1>. QED
  BY <1>1, <1>2, <1>3, <1>4, <1>5, <1>6, <1>7, <1>8, <1>9, <1>10, <1>11, <1>12

\* What a sequence has, its head is or its tail has.
LEMMA HasTail ==
  ASSUME NEW s \in Seq(Files), s # <<>>
  PROVE  /\ Head(s) \in Files /\ Tail(s) \in Seq(Files)
         /\ \A f \in Files : Has(s, f) <=> f = Head(s) \/ Has(Tail(s), f)
<1>1. Len(s) \in Nat /\ Len(s) > 0 /\ Head(s) = s[1] /\ s[1] \in Files
  OBVIOUS
<1>2. Tail(s) \in Seq(Files) /\ Len(Tail(s)) = Len(s) - 1
      /\ \A i \in 1 .. Len(s) - 1 : Tail(s)[i] = s[i + 1]
  BY <1>1
<1>3. ASSUME NEW f \in Files, Has(s, f) PROVE f = Head(s) \/ Has(Tail(s), f)
  <2>1. PICK i \in 1 .. Len(s) : s[i] = f
    BY <1>3 DEF Has
  <2>2. CASE i = 1
    BY <1>1, <2>1, <2>2
  <2>3. CASE i # 1
    <3>1. i - 1 \in 1 .. Len(Tail(s)) /\ Tail(s)[i - 1] = f
      BY <1>1, <1>2, <2>1, <2>3
    <3>. QED
      BY <3>1 DEF Has
  <2>. QED
    BY <2>2, <2>3
<1>4. ASSUME NEW f \in Files, f = Head(s) \/ Has(Tail(s), f) PROVE Has(s, f)
  <2>1. CASE f = Head(s)
    BY <1>1, <2>1 DEF Has
  <2>2. CASE Has(Tail(s), f)
    <3>1. PICK i \in 1 .. Len(Tail(s)) : Tail(s)[i] = f
      BY <2>2 DEF Has
    <3>2. i + 1 \in 1 .. Len(s) /\ s[i + 1] = f
      BY <1>1, <1>2, <3>1
    <3>. QED
      BY <3>2 DEF Has
  <2>. QED
    BY <1>4, <2>1, <2>2
<1>. QED
  BY <1>1, <1>2, <1>3, <1>4

LEMMA EmptyHasNothing == \A f : ~Has(<<>>, f)
BY DEF Has

\* A command stays good when more setups are made.
LEMMA GoodGrows ==
  ASSUME NEW c, NEW n \in Nat, NEW m \in Nat, n <= m, Good(c, n)
  PROVE  Good(c, m)
<1>1. 1 .. n \subseteq 1 .. m
  OBVIOUS
<1>2. Reading(c, m)
  BY <1>1 DEF Good, Reading
<1>3. Writing(c, m)
  BY <1>1 DEF Good, Writing
<1>4. Publishing(c, m)
  BY <1>1 DEF Good, Publishing
<1>. QED
  BY <1>2, <1>3, <1>4 DEF Good

LEMMA IdleFields ==
  /\ Idle \in Commands
  /\ Idle.at = "idle" /\ Idle.dir = <<>> /\ Idle.src = <<>> /\ Idle.pin = 0
  /\ Idle.todo = <<>> /\ Idle.rest = <<>> /\ Idle.buf = Absent /\ Idle.tmp = Absent
<1>1. Absent \in [Files -> Nat] /\ <<>> \in Seq(Files)
  BY DEF Absent
<1>2. Idle \in Commands
  BY <1>1 DEF Idle, Commands
<1>. QED
  BY <1>2 DEF Idle

LEMMA IdleGood ==
  ASSUME NEW n \in Nat
  PROVE  Good(Idle, n)
<1>2. Idle \in Commands
  BY IdleFields
<1>3. Idle.at = "idle" /\ Idle.pin = 0
  BY IdleFields
<1>. QED
  BY <1>2, <1>3 DEF Good, Reading, Pinned, Writing, Publishing

\* One command changes and the disk does not.
LEMMA OnlyCommand ==
  ASSUME IInv, NEW p \in Procs, NEW r, Set(p, r), made' \in Nat, made <= made',
         Good(r, made'), UNCHANGED <<disk, durable, told, lost>>
  PROVE  IInv'
<1>1. proc' \in [Procs -> Commands]
  BY DEF IInv, Set, Good
<1>2. \A q \in Procs : Good(proc'[q], made')
  <2>. TAKE q \in Procs
  <2>1. Good(proc[q], made) /\ made \in Nat
    BY DEF IInv
  <2>2. Good(proc[q], made')
    BY <2>1, GoodGrows
  <2>. QED
    BY <2>2 DEF IInv, Set
<1>3. \A d \in Dirs : Whole(disk[d], made') /\ Whole(durable[d], made')
  <2>1. 1 .. made \subseteq 1 .. made'
    BY DEF IInv
  <2>. QED
    BY <2>1 DEF IInv, Whole
<1>. QED
  BY <1>1, <1>2, <1>3 DEF IInv, Kept

LEMMA Returns ==
  ASSUME IInv, NEW p \in Procs, Return(p), UNCHANGED <<made, disk, durable, told, lost>>
  PROVE  IInv'
<1>1. Set(p, Idle) /\ made' = made /\ made \in Nat
  BY DEF Return, IInv
<1>2. Good(Idle, made')
  BY <1>1, IdleGood
<1>. QED
  BY <1>1, <1>2, OnlyCommand

-----------------------------------------------------------------------------
(* The steps of commands *)

LEMMA ExportSetupIInv ==
  ASSUME IInv, NEW p \in Procs, ExportSetup(p)
  PROVE  IInv'
<1>1. PICK d \in Dirs :
        Set(p, [Idle EXCEPT !.at = "mkdir", !.dir = d, !.todo = SetupFiles,
                            !.buf = [f \in Files |-> made + 1]])
  BY DEF ExportSetup
<1>2. made' = made + 1 /\ made \in Nat /\ UNCHANGED <<disk, durable, told, lost>>
  BY DEF ExportSetup, IInv, tree, reported
<1>. DEFINE r == [Idle EXCEPT !.at = "mkdir", !.dir = d, !.todo = SetupFiles,
                              !.buf = [f \in Files |-> made + 1]]
<1>3. /\ r.at = "mkdir" /\ r.dir = d /\ r.src = <<>> /\ r.pin = 0 /\ r.todo = SetupFiles
      /\ r.rest = <<>> /\ r.buf = [f \in Files |-> made + 1] /\ r.tmp = Absent
  BY IdleFields DEF Commands
<1>4. r \in Commands
  <2>1. SetupFiles \in Seq(Files) /\ [f \in Files |-> made + 1] \in [Files -> Nat]
    BY <1>2, FileNames
  <2>. QED
    BY <2>1, IdleFields DEF Commands
<1>5. Target(r) = Files /\ "manifest" \in Files
  BY <1>3 DEF Target, Files
<1>. HIDE DEF r
<1>6. Writing(r, made')
  BY <1>2, <1>3, <1>5, FileNames DEF Writing
<1>7. Good(r, made')
  BY <1>3, <1>4, <1>6 DEF Good, Reading, Pinned, Publishing
<1>. QED
  BY <1>1, <1>2, <1>7, OnlyCommand DEF r

\* The two commands that read start with everything still to be read.
LEMMA StartReading ==
  ASSUME IInv, NEW p \in Procs, NEW r \in Commands, Set(p, r),
         r.at = "read", r.src \in Dirs, r.pin \in 1 .. made, r.buf = Absent, r.tmp = Absent,
         \A f \in Public : Has(r.todo, f),
         r.rest # <<>> => r.dir \in Dirs /\ ~Has(r.todo, "pk"),
         UNCHANGED <<made, disk, durable, told, lost>>
  PROVE  IInv'
<1>1. made \in Nat /\ made' = made
  BY DEF IInv
<1>2. Reading(r, made')
  BY <1>1, FileNames DEF Reading, Absent, Files
<1>3. Good(r, made')
  BY <1>2 DEF Good, Pinned, Writing, Publishing
<1>. QED
  BY <1>1, <1>3, OnlyCommand

LEMMA LoadSetupIInv ==
  ASSUME IInv, NEW p \in Procs, LoadSetup(p)
  PROVE  IInv'
<1>1. PICK s \in Dirs, pin \in 1 .. made, todo \in {PublicFiles, Append(PublicFiles, "pk")} :
        Set(p, [Idle EXCEPT !.at = "read", !.src = s, !.pin = pin, !.todo = todo])
  BY DEF LoadSetup
<1>. DEFINE r == [Idle EXCEPT !.at = "read", !.src = s, !.pin = pin, !.todo = todo]
<1>2. todo \in Seq(Files) /\ (\A f \in Public : Has(todo, f)) /\ pin \in Nat
  <2>1. PublicFiles \in Seq(Files) /\ \A f \in Public : Has(PublicFiles, f)
    BY FileNames
  <2>2. /\ Append(PublicFiles, "pk") \in Seq(Files)
        /\ \A f \in Public : Has(Append(PublicFiles, "pk"), f)
    BY FileNames
  <2>3. pin \in Nat
    BY DEF IInv
  <2>. QED
    BY <2>1, <2>2, <2>3
<1>3. r \in Commands
  BY <1>2, IdleFields DEF Commands
<1>4. /\ r.at = "read" /\ r.src = s /\ r.pin = pin /\ r.todo = todo
      /\ r.rest = <<>> /\ r.buf = Absent /\ r.tmp = Absent
  BY IdleFields DEF Commands
<1>5. UNCHANGED <<made, disk, durable, told, lost>> /\ Set(p, r)
  BY <1>1 DEF LoadSetup, tree, reported
<1>. HIDE DEF r
<1>. QED
  BY <1>2, <1>3, <1>4, <1>5, StartReading

LEMMA ExportPublicSetupIInv ==
  ASSUME IInv, NEW p \in Procs, ExportPublicSetup(p)
  PROVE  IInv'
<1>1. PICK s \in Dirs, d \in Dirs, pin \in 1 .. made :
        Set(p, [Idle EXCEPT !.at = "read", !.src = s, !.dir = d, !.pin = pin,
                            !.todo = PublicFiles \o PublicFiles, !.rest = PublicFiles])
  BY DEF ExportPublicSetup
<1>. DEFINE todo == PublicFiles \o PublicFiles
            r == [Idle EXCEPT !.at = "read", !.src = s, !.dir = d, !.pin = pin,
                              !.todo = todo, !.rest = PublicFiles]
<1>2. /\ todo \in Seq(Files) /\ (\A f \in Public : Has(todo, f)) /\ ~Has(todo, "pk")
      /\ pin \in Nat
  BY FileNames DEF IInv
<1>3. UNCHANGED <<made, disk, durable, told, lost>> /\ Set(p, r)
  BY <1>1 DEF ExportPublicSetup, tree, reported
<1>. HIDE DEF todo
<1>4. r \in Commands
  BY <1>2, IdleFields DEF Commands
<1>5. /\ r.at = "read" /\ r.src = s /\ r.dir = d /\ r.pin = pin /\ r.todo = todo
      /\ r.buf = Absent /\ r.tmp = Absent
  BY IdleFields DEF Commands
<1>. HIDE DEF r
<1>. QED
  BY <1>2, <1>3, <1>4, <1>5, StartReading

\* A file that is read is of the pinned setup: it is compared with the pin or with
\* a manifest that was.
LEMMA ReadArtifactIInv ==
  ASSUME IInv, NEW p \in Procs, readArtifact(p)
  PROVE  IInv'
<1>. DEFINE c == proc[p]
            f == Head(c.todo)
            got == disk[c.src][f]
            r == [c EXCEPT !.todo = Tail(@), !.buf[f] = got]
<1>1. /\ c.at = "read" /\ c.todo # <<>> /\ UNCHANGED <<made, disk, durable, told, lost>>
      /\ IF got = 0 \/ got # (IF f = "manifest" THEN c.pin ELSE c.buf["manifest"])
           THEN Return(p) ELSE Set(p, r)
  BY DEF readArtifact, Expected, tree, reported
<1>2. Good(c, made) /\ c \in Commands /\ made \in Nat
  BY DEF IInv, Good
<1>3. /\ c.src \in Dirs /\ c.pin \in 1 .. made /\ c.tmp = Absent
      /\ \A g \in Files : c.buf[g] \in {0, c.pin}
      /\ \A g \in Public : c.buf[g] = c.pin \/ Has(c.todo, g)
      /\ c.rest # <<>> => c.dir \in Dirs /\ c.buf["pk"] = 0 /\ ~Has(c.todo, "pk")
  BY <1>1, <1>2 DEF Good, Reading
<1>4. c.todo \in Seq(Files) /\ c.buf \in [Files -> Nat]
  BY <1>2 DEF Commands
<1>5. /\ f \in Files /\ Tail(c.todo) \in Seq(Files)
      /\ \A g \in Files : Has(c.todo, g) <=> g = f \/ Has(Tail(c.todo), g)
  BY <1>1, <1>4, HasTail
<1>6. CASE got = 0 \/ got # (IF f = "manifest" THEN c.pin ELSE c.buf["manifest"])
  BY <1>1, <1>6, Returns
<1>7. CASE ~(got = 0 \/ got # (IF f = "manifest" THEN c.pin ELSE c.buf["manifest"]))
  <2>1. got = c.pin
    <3>1. "manifest" \in Files
      BY DEF Files
    <3>. QED
      BY <1>3, <1>7, <3>1
  <2>2. got \in Nat
    BY <1>2, <2>1 DEF Commands
  <2>3. r = [c EXCEPT !.todo = Tail(c.todo), !.buf = [c.buf EXCEPT ![f] = got]]
    BY <1>2 DEF Commands
  <2>4. r \in Commands
    BY <1>2, <1>4, <1>5, <2>2, <2>3 DEF Commands
  <2>5. /\ r.at = "read" /\ r.src = c.src /\ r.dir = c.dir /\ r.pin = c.pin /\ r.rest = c.rest
        /\ r.tmp = c.tmp /\ r.todo = Tail(c.todo) /\ r.buf = [c.buf EXCEPT ![f] = got]
    BY <1>1, <1>2, <2>3 DEF Commands
  <2>6. Set(p, r)
    BY <1>1, <1>7
  <2>. HIDE DEF r, got, f, c
  <2>7. \A g \in Files : r.buf[g] \in {0, r.pin}
    BY <1>3, <1>4, <2>1, <2>5
  <2>8. \A g \in Public : r.buf[g] = r.pin \/ Has(r.todo, g)
    BY <1>3, <1>4, <1>5, <2>1, <2>5 DEF Public, Files
  <2>9. r.rest # <<>> => r.dir \in Dirs /\ r.buf["pk"] = 0 /\ ~Has(r.todo, "pk")
    <3>1. "pk" \in Files
      BY DEF Files
    <3>. QED
      BY <1>3, <1>4, <1>5, <2>5, <3>1
  <2>10. Reading(r, made')
    BY <1>1, <1>3, <2>5, <2>7, <2>8, <2>9 DEF Reading
  <2>11. Good(r, made')
    BY <2>4, <2>5, <2>10 DEF Good, Pinned, Writing, Publishing
  <2>. QED
    BY <1>1, <1>2, <2>6, <2>11, OnlyCommand
<1>. QED
  BY <1>6, <1>7

\* With nothing left to read, everything was.
LEMMA ReadDoneIInv ==
  ASSUME IInv, NEW p \in Procs, ReadDone(p)
  PROVE  IInv'
<1>. DEFINE c == proc[p]
<1>1. c.at = "read" /\ c.todo = <<>> /\ UNCHANGED <<made, disk, durable, told, lost>>
  BY DEF ReadDone, tree, reported
<1>2. Good(c, made) /\ c \in Commands /\ made \in Nat
  BY DEF IInv, Good
<1>3. /\ c.pin \in 1 .. made /\ c.tmp = Absent
      /\ \A g \in Files : c.buf[g] \in {0, c.pin}
      /\ \A g \in Public : c.buf[g] = c.pin
      /\ c.rest # <<>> => c.dir \in Dirs /\ c.buf["pk"] = 0
  BY <1>1, <1>2, EmptyHasNothing DEF Good, Reading
<1>4. \/ Return(p)
      \/ c.rest = <<>> /\ Set(p, [c EXCEPT !.at = "loaded", !.src = <<>>])
      \/ c.rest # <<>> /\ Set(p, [c EXCEPT !.at = "mkdir", !.todo = c.rest])
  BY DEF ReadDone
<1>5. CASE Return(p)
  BY <1>1, <1>5, Returns
<1>6. CASE c.rest = <<>> /\ Set(p, [c EXCEPT !.at = "loaded", !.src = <<>>])
  <2>. DEFINE r == [c EXCEPT !.at = "loaded", !.src = <<>>]
  <2>1. r \in Commands /\ r.at = "loaded" /\ r.buf = c.buf /\ r.pin = c.pin
    BY <1>2 DEF Commands
  <2>. HIDE DEF r
  <2>2. Pinned(r)
    BY <1>3, <2>1 DEF Pinned, Files
  <2>3. Good(r, made')
    BY <2>1, <2>2 DEF Good, Reading, Writing, Publishing
  <2>. QED
    BY <1>1, <1>2, <1>6, <2>3, OnlyCommand DEF r
<1>7. CASE c.rest # <<>> /\ Set(p, [c EXCEPT !.at = "mkdir", !.todo = c.rest])
  <2>. DEFINE r == [c EXCEPT !.at = "mkdir", !.todo = c.rest]
  <2>1. c.rest = PublicFiles
    BY <1>2, <1>7 DEF Commands
  <2>2. /\ r \in Commands /\ r.at = "mkdir" /\ r.buf = c.buf /\ r.pin = c.pin /\ r.tmp = c.tmp
        /\ r.dir = c.dir /\ r.todo = PublicFiles /\ r.rest = PublicFiles
    BY <1>2, <2>1, FileNames DEF Commands
  <2>. HIDE DEF r, c
  <2>3. Pinned(r)
    BY <1>3, <2>2 DEF Pinned, Files
  <2>4. Target(r) = Public
    BY <2>2, FileNames DEF Target
  <2>5. Files \ Public = {"pk"} /\ "manifest" \in Public
    BY DEF Files, Public
  <2>6. \A g \in Files : r.tmp[g] = 0
    BY <1>3, <2>2 DEF Absent
  <2>7. Writing(r, made')
    BY <1>1, <1>3, <1>7, <2>2, <2>4, <2>5, <2>6, FileNames DEF Writing
  <2>8. Good(r, made')
    BY <2>2, <2>3, <2>7 DEF Good, Reading, Publishing
  <2>. QED
    BY <1>1, <1>2, <1>7, <2>8, OnlyCommand DEF r
<1>. QED
  BY <1>4, <1>5, <1>6, <1>7

\* The parent directory plays no part in what the commands hold.
LEMMA MkdirAllIInv ==
  ASSUME IInv, NEW p \in Procs, MkdirAll(p)
  PROVE  IInv'
<1>. DEFINE c == proc[p]
            r == [c EXCEPT !.at = "write"]
<1>1. c.at = "mkdir" /\ Set(p, r) /\ UNCHANGED <<made, disk, durable, told, lost>>
  BY DEF MkdirAll, reported
<1>2. Good(c, made) /\ c \in Commands /\ made \in Nat
  BY DEF IInv, Good
<1>3. /\ r \in Commands /\ r.at = "write" /\ r.dir = c.dir /\ r.buf = c.buf /\ r.pin = c.pin
      /\ r.rest = c.rest /\ r.tmp = c.tmp /\ r.todo = c.todo
  BY <1>2 DEF Commands
<1>. HIDE DEF r, c
<1>4. Writing(r, made') /\ Pinned(r)
  BY <1>1, <1>2, <1>3 DEF Good, Writing, Pinned, Target
<1>5. Good(r, made')
  BY <1>3, <1>4 DEF Good, Reading, Publishing
<1>. QED
  BY <1>1, <1>2, <1>5, OnlyCommand

\* A staged file moves from what is to be written to what is.
LEMMA WriteArtifactIInv ==
  ASSUME IInv, NEW p \in Procs, writeArtifact(p)
  PROVE  IInv'
<1>. DEFINE c == proc[p]
            f == Head(c.todo)
            r == [c EXCEPT !.todo = Tail(@), !.tmp[f] = c.buf[f]]
<1>1. c.at = "write" /\ c.todo # <<>> /\ Set(p, r) /\ UNCHANGED <<made, disk, durable, told, lost>>
  BY DEF writeArtifact, tree, reported
<1>2. Good(c, made) /\ c \in Commands /\ made \in Nat
  BY DEF IInv, Good
<1>3. c.todo \in Seq(Files) /\ c.buf \in [Files -> Nat] /\ c.tmp \in [Files -> Nat]
  BY <1>2 DEF Commands
<1>4. /\ f \in Files /\ Tail(c.todo) \in Seq(Files)
      /\ \A g \in Files : Has(c.todo, g) <=> g = f \/ Has(Tail(c.todo), g)
  BY <1>1, <1>3, HasTail
<1>5. r = [c EXCEPT !.todo = Tail(c.todo), !.tmp = [c.tmp EXCEPT ![f] = c.buf[f]]]
  BY <1>2 DEF Commands
<1>6. [c.tmp EXCEPT ![f] = c.buf[f]] \in [Files -> Nat]
  BY <1>3, <1>4
<1>7. r \in Commands
  BY <1>2, <1>4, <1>5, <1>6 DEF Commands
<1>8. /\ r.at = "write" /\ r.dir = c.dir /\ r.pin = c.pin /\ r.rest = c.rest /\ r.buf = c.buf
      /\ r.todo = Tail(c.todo) /\ r.tmp = [c.tmp EXCEPT ![f] = c.buf[f]]
  BY <1>1, <1>2, <1>5 DEF Commands
<1>. HIDE DEF r, f, c
<1>9. Target(r) = Target(c) /\ Target(c) \subseteq Files
  BY <1>8 DEF Target, Public, Files
<1>10. Pinned(r)
  BY <1>1, <1>2, <1>8 DEF Good, Pinned
<1>11. Writing(r, made')
  BY <1>1, <1>2, <1>3, <1>4, <1>8, <1>9 DEF Good, Writing
<1>12. Good(r, made')
  BY <1>7, <1>8, <1>10, <1>11 DEF Good, Reading, Publishing
<1>. QED
  BY <1>1, <1>2, <1>12, OnlyCommand

\* With nothing left to write, the whole bundle is staged.
LEMMA SyncStageIInv ==
  ASSUME IInv, NEW p \in Procs, SyncStage(p)
  PROVE  IInv'
<1>. DEFINE c == proc[p]
            r == [c EXCEPT !.at = "rename", !.synced = TRUE]
<1>1. c.at = "write" /\ c.todo = <<>> /\ Set(p, r) /\ UNCHANGED <<made, disk, durable, told, lost>>
  BY DEF SyncStage, tree, reported
<1>2. Good(c, made) /\ c \in Commands /\ made \in Nat
  BY DEF IInv, Good
<1>3. /\ r \in Commands /\ r.at = "rename" /\ r.dir = c.dir /\ r.buf = c.buf /\ r.pin = c.pin
      /\ r.rest = c.rest /\ r.tmp = c.tmp /\ r.synced
  BY <1>2 DEF Commands
<1>4. c.tmp \in [Files -> Nat]
  BY <1>2 DEF Commands
<1>. HIDE DEF r, c
<1>5. Target(r) = Target(c) /\ Target(c) \subseteq Files
  BY <1>3 DEF Target, Public, Files
<1>6. /\ c.dir \in Dirs /\ c.buf["manifest"] \in 1 .. made
      /\ \A f \in Target(c) : c.tmp[f] = c.buf["manifest"]
      /\ \A f \in Files \ Target(c) : c.tmp[f] = 0
  BY <1>1, <1>2, EmptyHasNothing DEF Good, Writing
<1>7. c.tmp = Bundle(c.buf["manifest"], Target(c))
  BY <1>4, <1>5, <1>6 DEF Bundle
<1>8. Publishing(r, made')
  BY <1>1, <1>3, <1>5, <1>6, <1>7 DEF Publishing
<1>9. Pinned(r)
  BY <1>1, <1>2, <1>3 DEF Good, Pinned
<1>10. Good(r, made')
  BY <1>3, <1>8, <1>9 DEF Good, Reading, Writing
<1>. QED
  BY <1>1, <1>2, <1>10, OnlyCommand

\* A published bundle is whole, and the directory it appears in had no reported one.
LEMMA RenameIInv ==
  ASSUME IInv, NEW p \in Procs, Rename(p)
  PROVE  IInv'
<1>. DEFINE c == proc[p]
            r == [c EXCEPT !.at = "settle"]
<1>1. c.at = "rename" /\ UNCHANGED <<made, durable, told, lost>>
  BY DEF Rename, reported
<1>2. Good(c, made) /\ c \in Commands /\ made \in Nat
  BY DEF IInv, Good
<1>3. CASE disk[c.dir] # Absent
  <2>1. Return(p) /\ UNCHANGED disk
    BY <1>3 DEF Rename
  <2>. QED
    BY <1>1, <2>1, Returns
<1>4. CASE disk[c.dir] = Absent
  <2>1. disk' = [disk EXCEPT ![c.dir] = c.tmp] /\ Set(p, r)
    BY <1>4 DEF Rename
  <2>2. /\ r \in Commands /\ r.at = "settle" /\ r.dir = c.dir /\ r.buf = c.buf /\ r.pin = c.pin
        /\ r.rest = c.rest /\ r.tmp = c.tmp /\ r.synced = c.synced
    BY <1>2 DEF Commands
  <2>3. c.tmp \in [Files -> Nat]
    BY <1>2 DEF Commands
  <2>. HIDE DEF r
  <2>4. /\ c.dir \in Dirs /\ c.buf["manifest"] \in 1 .. made /\ c.synced
        /\ c.tmp = Bundle(c.buf["manifest"], Target(c))
    BY <1>1, <1>2 DEF Good, Publishing
  <2>5. Target(r) = Target(c) /\ Target(c) \in {Files, Public}
    BY <2>2 DEF Target
  <2>6. Publishing(r, made')
    BY <1>1, <2>2, <2>4, <2>5 DEF Publishing
  <2>7. Pinned(r)
    BY <1>1, <1>2, <2>2 DEF Good, Pinned
  <2>8. Good(r, made')
    BY <2>2, <2>6, <2>7 DEF Good, Reading, Writing
  <2>9. Whole(c.tmp, made)
    BY <2>4, <2>5 DEF Whole
  <2>10. told[c.dir] = 0 \/ c.dir \in lost
    <3>1. told[c.dir] # 0 /\ c.dir \notin lost => disk[c.dir]["manifest"] = told[c.dir]
      BY <2>4 DEF IInv, Kept
    <3>2. disk[c.dir]["manifest"] = 0
      BY <1>4 DEF Absent, Files
    <3>. QED
      BY <3>1, <3>2
  <2>. HIDE DEF c
  <2>11. disk' \in [Dirs -> [Files -> Nat]] /\ proc' \in [Procs -> Commands]
    BY <2>1, <2>2, <2>3 DEF IInv, Set
  <2>12. \A d \in Dirs : Whole(disk'[d], made') /\ Whole(durable'[d], made')
    BY <1>1, <2>1, <2>9 DEF IInv
  <2>13. \A q \in Procs : Good(proc'[q], made')
    BY <1>1, <2>1, <2>8 DEF IInv, Set
  <2>14. \A d \in Dirs : Kept(d)'
    BY <1>1, <2>1, <2>10 DEF IInv, Kept
  <2>. QED
    BY <1>1, <2>11, <2>12, <2>13, <2>14 DEF IInv
<1>. QED
  BY <1>3, <1>4

\* What is reported is durable when it is reported.
LEMMA SyncParentIInv ==
  ASSUME IInv, NEW p \in Procs, SyncParent(p)
  PROVE  IInv'
<1>. DEFINE c == proc[p]
<1>1. /\ c.at = "settle" /\ Set(p, Idle) /\ UNCHANGED <<made, disk>>
      /\ durable' = [durable EXCEPT ![c.dir] = disk[c.dir]]
      /\ \/ /\ disk[c.dir] = c.tmp
            /\ told' = [told EXCEPT ![c.dir] = c.buf["manifest"]]
            /\ lost' = lost \ {c.dir}
         \/ UNCHANGED <<told, lost>>
  BY DEF SyncParent, Return, reported
<1>2. Good(c, made) /\ made \in Nat
  BY DEF IInv
<1>3. /\ c.dir \in Dirs /\ c.buf["manifest"] \in 1 .. made
      /\ c.tmp = Bundle(c.buf["manifest"], Target(c))
  BY <1>1, <1>2 DEF Good, Publishing
<1>4. c.tmp["manifest"] = c.buf["manifest"]
  BY <1>3 DEF Bundle, Target, Files, Public
<1>. HIDE DEF c
<1>5. durable' \in [Dirs -> [Files -> Nat]] /\ told' \in [Dirs -> Nat] /\ lost' \subseteq Dirs
  BY <1>1, <1>2, <1>3 DEF IInv
<1>6. \A d \in Dirs : Whole(disk'[d], made') /\ Whole(durable'[d], made')
  BY <1>1 DEF IInv
<1>7. Good(Idle, made') /\ Idle \in Commands
  BY <1>1, <1>2, IdleGood, IdleFields
<1>8. proc' \in [Procs -> Commands] /\ \A q \in Procs : Good(proc'[q], made')
  BY <1>1, <1>7 DEF IInv, Set
<1>9. \A d \in Dirs : Kept(d)'
  BY <1>1, <1>3, <1>4 DEF IInv, Kept
<1>. QED
  BY <1>1, <1>5, <1>6, <1>8, <1>9 DEF IInv

-----------------------------------------------------------------------------
(* The steps of the surroundings *)

LEMMA MoveAwayIInv ==
  ASSUME IInv, NEW d \in Dirs, MoveAway(d)
  PROVE  IInv'
<1>1. /\ disk' = [disk EXCEPT ![d] = Absent] /\ durable' = [durable EXCEPT ![d] = Absent]
      /\ told' = [told EXCEPT ![d] = 0] /\ lost' = lost \ {d}
      /\ UNCHANGED <<made, proc>>
  BY DEF MoveAway
<1>2. Absent \in [Files -> Nat] /\ Whole(Absent, made)
  BY DEF Absent, Whole
<1>3. /\ disk' \in [Dirs -> [Files -> Nat]] /\ durable' \in [Dirs -> [Files -> Nat]]
      /\ told' \in [Dirs -> Nat] /\ lost' \subseteq Dirs
  BY <1>1, <1>2 DEF IInv
<1>4. \A e \in Dirs : Whole(disk'[e], made') /\ Whole(durable'[e], made')
  BY <1>1, <1>2 DEF IInv
<1>5. \A e \in Dirs : Kept(e)'
  BY <1>1 DEF IInv, Kept
<1>. QED
  BY <1>1, <1>3, <1>4, <1>5 DEF IInv

\* No renamed bundle is unsynced, so none loses files, and a reported one is durable.
LEMMA PowerLossIInv ==
  ASSUME IInv, PowerLoss
  PROVE  IInv'
<1>1. /\ durable' = disk' /\ proc' = [p \in Procs |-> Idle] /\ UNCHANGED <<made, told, lost>>
      /\ DOMAIN disk' = Dirs /\ disk' = [d \in Dirs |-> disk'[d]]
      /\ \A d \in Dirs : disk'[d] \in Survivors(d)
  BY DEF PowerLoss, Crash
<1>2. \A d \in Dirs : ~Unsynced(d)
  BY DEF IInv, Good, Publishing, Unsynced
<1>3. ASSUME NEW d \in Dirs
      PROVE  /\ disk'[d] \in {durable[d], disk[d], Absent}
             /\ durable[d] = disk[d] => disk'[d] = disk[d]
  BY <1>1, <1>2, <1>3 DEF Survivors
<1>4. Absent \in [Files -> Nat] /\ Whole(Absent, made)
  BY DEF Absent, Whole
<1>5. \A d \in Dirs : disk'[d] \in [Files -> Nat] /\ Whole(disk'[d], made)
  BY <1>3, <1>4 DEF IInv
<1>6. disk' \in [Dirs -> [Files -> Nat]]
  BY <1>1, <1>5
<1>7. \A d \in Dirs : Kept(d)'
  BY <1>1, <1>3 DEF IInv, Kept
<1>8. Good(Idle, made') /\ Idle \in Commands
  BY <1>1, IdleGood, IdleFields DEF IInv
<1>9. proc' \in [Procs -> Commands] /\ \A q \in Procs : Good(proc'[q], made')
  BY <1>1, <1>8
<1>. QED
  BY <1>1, <1>5, <1>6, <1>7, <1>9 DEF IInv

\* Every report there was is one that went with the parent directory.
LEMMA ParentLossIInv ==
  ASSUME IInv, ParentLoss
  PROVE  IInv'
<1>1. /\ disk' = [d \in Dirs |-> Absent] /\ durable' = disk'
      /\ lost' = {d \in Dirs : told[d] # 0}
      /\ proc' = [p \in Procs |-> Idle] /\ UNCHANGED <<made, told>>
  BY DEF ParentLoss, Crash
<1>2. Absent \in [Files -> Nat] /\ Whole(Absent, made)
  BY DEF Absent, Whole
<1>3. Good(Idle, made') /\ Idle \in Commands
  BY <1>1, IdleGood, IdleFields DEF IInv
<1>4. proc' \in [Procs -> Commands] /\ \A q \in Procs : Good(proc'[q], made')
  BY <1>1, <1>3
<1>5. \A d \in Dirs : Kept(d)'
  BY <1>1 DEF Kept
<1>. QED
  BY <1>1, <1>2, <1>4, <1>5 DEF IInv

LEMMA InitIInv == Init => IInv
<1>. SUFFICES ASSUME Init PROVE IInv
  OBVIOUS
<1>1. Absent \in [Files -> Nat] /\ Whole(Absent, made)
  BY DEF Absent, Whole
<1>2. made = 0 /\ Good(Idle, 0) /\ Idle \in Commands
  BY IdleGood, IdleFields DEF Init
<1>. QED
  BY <1>1, <1>2 DEF Init, IInv, Kept

LEMMA NextIInv == IInv /\ [Next]_vars => IInv'
<1>. SUFFICES ASSUME IInv, [Next]_vars PROVE IInv'
  OBVIOUS
<1>1. ASSUME NEW p \in Procs,
             ExportSetup(p) \/ LoadSetup(p) \/ ExportPublicSetup(p) \/ readArtifact(p)
      PROVE  IInv'
  BY <1>1, ExportSetupIInv, LoadSetupIInv, ExportPublicSetupIInv, ReadArtifactIInv
<1>2. ASSUME NEW p \in Procs, ReadDone(p) \/ MkdirAll(p) \/ writeArtifact(p) \/ SyncStage(p)
      PROVE  IInv'
  BY <1>2, ReadDoneIInv, MkdirAllIInv, WriteArtifactIInv, SyncStageIInv
<1>3. ASSUME NEW p \in Procs, Rename(p) \/ SyncParent(p)
      PROVE  IInv'
  BY <1>3, RenameIInv, SyncParentIInv
<1>4. ASSUME NEW p \in Procs, Exit(p) \/ Fails(p)
      PROVE  IInv'
  BY <1>4, Returns DEF Exit, Fails, tree, reported
<1>5. ASSUME NEW d \in Dirs, MoveAway(d)
      PROVE  IInv'
  BY <1>5, MoveAwayIInv
<1>6. CASE PowerLoss
  BY <1>6, PowerLossIInv
<1>7. CASE ParentLoss
  BY <1>7, ParentLossIInv
<1>8. CASE UNCHANGED vars
  BY <1>8 DEF vars, tree, reported, IInv, Kept
<1>. QED
  BY <1>1, <1>2, <1>3, <1>4, <1>5, <1>6, <1>7, <1>8 DEF Next

-----------------------------------------------------------------------------
(* Theorems *)

\* The inductive invariant holds of every execution of the commands, the operator
\* and the power supply.
THEOREM Invariance == Spec => []IInv
BY InitIInv, NextIInv, PTL DEF Spec

\* A directory shows a whole bundle of one setup or none, for every number of
\* commands, directories and setups (newBundle in setup.go).
THEOREM Atomicity == Spec => []WholeOrAbsent
<1>1. IInv => WholeOrAbsent
  <2>. SUFFICES ASSUME IInv, NEW d \in Dirs
                PROVE  disk[d] \in {Absent} \cup {Bundle(g, files) : g \in 1 .. made,
                                      files \in {Range(SetupFiles), Range(PublicFiles)}}
    BY DEF WholeOrAbsent
  <2>1. Whole(disk[d], made) /\ Range(SetupFiles) = Files /\ Range(PublicFiles) = Public
    BY FileNames DEF IInv
  <2>. QED
    BY <2>1 DEF Whole
<1>. QED
  BY <1>1, Invariance, PTL

\* What loadSetup returns and ExportPublicSetup copies is the pinned setup, whatever
\* happens to the directory while it is read.
THEOREM PinHolds == Spec => []LoadedIsPinned
<1>1. IInv => LoadedIsPinned
  <2>. SUFFICES ASSUME IInv, NEW p \in Procs, proc[p].pin # 0 /\ proc[p].at # "read",
                       NEW f \in Range(PublicFiles) \cup {"pk"}
                PROVE  \/ proc[p].buf[f] = proc[p].pin
                       \/ f = "pk" /\ proc[p].buf[f] = 0
    BY DEF LoadedIsPinned
  <2>1. Pinned(proc[p]) /\ Range(PublicFiles) = Public
    BY FileNames DEF IInv, Good
  <2>. QED
    BY <2>1 DEF Pinned
<1>. QED
  BY <1>1, Invariance, PTL

\* A reported bundle is there after every crash and power loss (the syncs of
\* newBundle), until it is moved away or goes with a parent directory that newBundle
\* had made (os.MkdirAll).
THEOREM Durability == Spec => []ReportedSurvives
<1>1. IInv => ReportedSurvives
  BY DEF IInv, Kept, ReportedSurvives
<1>. QED
  BY <1>1, Invariance, PTL

-----------------------------------------------------------------------------
(* Trust *)

\* Signing a registry keeps to the types: its entries come with proofs made.
LEMMA RegistryTyped ==
  ASSUME TypeOK, SignRegistryAuthorization
  PROVE  TypeOK'
<1>1. PICK key \in Keys, dom \in Domains, terms \in Terms, w \in Windows, n \in Epochs :
      \E entries \in SUBSET {e \in Entries(enrollments) : VerifyEnrollment(e, key, dom, e.ch)} :
        registries' = registries \cup
          {[key |-> key, dom |-> dom, terms |-> terms, window |-> w, epoch |-> n,
            entries |-> entries]}
  BY DEF SignRegistryAuthorization
<1>2. PICK entries \in SUBSET Entries(enrollments) :
        registries' = registries \cup
          {[key |-> key, dom |-> dom, terms |-> terms, window |-> w, epoch |-> n,
            entries |-> entries]}
  BY <1>1
<1>3. UNCHANGED <<now, enrollments, approvals, verifier>>
  BY DEF SignRegistryAuthorization
<1>4. registries' \subseteq [key : Keys, dom : Domains, terms : Terms, window : Windows,
                             epoch : Epochs, entries : SUBSET Entries(enrollments)]
  BY <1>2 DEF TypeOK
<1>. QED
  BY <1>3, <1>4 DEF TypeOK

\* A new proof of possession leaves the registries signed before well typed.
LEMMA EnrollmentTyped ==
  ASSUME TypeOK, CreateEnrollment
  PROVE  TypeOK'
<1>1. enrollments' \subseteq Enrollments /\ enrollments \subseteq enrollments'
  BY DEF TypeOK, CreateEnrollment
<1>2. UNCHANGED <<now, approvals, registries, verifier>>
  BY DEF CreateEnrollment
<1>3. Entries(enrollments) \subseteq Entries(enrollments')
  BY <1>1 DEF Entries
<1>4. registries \subseteq [key : Keys, dom : Domains, terms : Terms, window : Windows,
                            epoch : Epochs, entries : SUBSET Entries(enrollments')]
  BY <1>3 DEF TypeOK
<1>. QED
  BY <1>1, <1>2, <1>4 DEF TypeOK

LEMMA ApprovalTyped ==
  ASSUME TypeOK, SignSetupApproval
  PROVE  TypeOK'
<1>1. PICK key \in Keys, dom \in Domains, w \in Windows :
        approvals' = approvals \cup {[key |-> key, dom |-> dom, window |-> w]}
  BY DEF SignSetupApproval
<1>2. UNCHANGED <<now, enrollments, registries, verifier>>
  BY DEF SignSetupApproval
<1>3. /\ approvals' \subseteq [key : Keys, dom : Domains, window : Windows]
      /\ approvals \subseteq approvals'
  BY <1>1 DEF TypeOK
<1>4. verifier \in [Apps -> [policy : Policies, approval : approvals'] \cup {None}]
  BY <1>3 DEF TypeOK
<1>. QED
  BY <1>2, <1>3, <1>4 DEF TypeOK

LEMMA LoadTyped ==
  ASSUME TypeOK, LoadAuthorizedVerifier
  PROVE  TypeOK'
<1>1. PICK v \in Apps, p \in Policies, a \in approvals :
        verifier' = [verifier EXCEPT ![v] = [policy |-> p, approval |-> a]]
  BY DEF LoadAuthorizedVerifier
<1>2. UNCHANGED <<now, enrollments, approvals, registries>>
  BY DEF LoadAuthorizedVerifier
<1>3. verifier' \in [Apps -> [policy : Policies, approval : approvals] \cup {None}]
  BY <1>1 DEF TypeOK
<1>. QED
  BY <1>2, <1>3 DEF TypeOK

\* Type correctness of every state: the proofs in a registry are among those that
\* were made, and a verifier's approval among those that were signed.
THEOREM TypeCorrect == TrustSpec => []TypeOK
<1>1. TrustInit => TypeOK
  BY DEF TrustInit, TypeOK
<1>2. TypeOK /\ [TrustNext]_trustVars => TypeOK'
  <2>. SUFFICES ASSUME TypeOK, [TrustNext]_trustVars PROVE TypeOK'
    OBVIOUS
  <2>1. CASE Tick
    BY <2>1 DEF Tick, TypeOK
  <2>2. CASE CreateEnrollment
    BY <2>2, EnrollmentTyped
  <2>3. CASE SignSetupApproval
    BY <2>3, ApprovalTyped
  <2>4. CASE SignRegistryAuthorization
    BY <2>4, RegistryTyped
  <2>5. CASE LoadAuthorizedVerifier
    BY <2>5, LoadTyped
  <2>6. CASE UNCHANGED trustVars
    BY <2>6 DEF trustVars, TypeOK
  <2>. QED
    BY <2>1, <2>2, <2>3, <2>4, <2>5, <2>6 DEF TrustNext
<1>. QED
  BY <1>1, <1>2, PTL DEF TrustSpec

-----------------------------------------------------------------------------
(* What a verifier accepts *)

\* A verifier that accepts has a policy and an approval that was signed.
LEMMA Loaded ==
  ASSUME TypeOK, NEW v \in Apps, NEW r, NEW sig, Verify(v, r, sig)
  PROVE  verifier[v].policy \in Policies /\ verifier[v].approval \in approvals
<1>1. verifier[v] # None
  BY DEF Verify
<1>2. verifier[v] \in [policy : Policies, approval : approvals]
  BY <1>1 DEF TypeOK
<1>. QED
  BY <1>2

\* The accounts a verifier accepts are enrolled with its registry authority, in its
\* domain and under the label the registry gives (VerifyEnrollment).
THEOREM Enrolled == TrustSpec => []AcceptedAreEnrolled
<1>1. TypeOK => AcceptedAreEnrolled
  <2>. SUFFICES ASSUME TypeOK, NEW v \in Apps, NEW r \in registries,
                       NEW sig \in Signatures(r), Verify(v, r, sig)
                PROVE  \E e \in r.entries :
                         /\ e.acct = sig.acct
                         /\ \E p \in enrollments :
                              /\ p.user = e.user /\ p.acct = e.acct
                              /\ p.key = verifier[v].policy.regKey
                              /\ p.dom = verifier[v].policy.dom
    BY DEF AcceptedAreEnrolled
  <2>1. PICK e \in r.entries : e.acct = sig.acct
    BY DEF Signatures, Ring
  <2>2. e.proof \in enrollments
    <3>1. r.entries \in SUBSET Entries(enrollments)
      BY DEF TypeOK
    <3>. QED
      BY <3>1 DEF Entries
  <2>3. VerifyEnrollment(e, verifier[v].policy.regKey, r.dom, e.ch)
    BY DEF Verify, authorizedContext, registryRegistrations
  <2>4. r.dom = verifier[v].policy.dom
    BY DEF Verify, authorizedContext
  <2>5. /\ e.proof.user = e.user /\ e.proof.acct = e.acct
        /\ e.proof.key = verifier[v].policy.regKey
        /\ e.proof.dom = verifier[v].policy.dom
    BY <2>3, <2>4 DEF VerifyEnrollment
  <2>. QED
    BY <2>1, <2>2, <2>5
<1>. QED
  BY <1>1, TypeCorrect, PTL

\* Nothing is accepted outside a window: of an approval that was signed for the
\* verifier's setup, and of the registry (Verify checks both with the current time).
THEOREM UpToDate == TrustSpec => []NeverOutOfDate
<1>1. TypeOK => NeverOutOfDate
  <2>. SUFFICES ASSUME TypeOK, NEW v \in Apps, NEW r \in registries,
                       NEW sig \in Signatures(r), Verify(v, r, sig)
                PROVE  /\ \E a \in approvals :
                            /\ a.key = verifier[v].policy.setupKey
                            /\ a.dom = verifier[v].policy.dom
                            /\ a.window.from <= now /\ now < a.window.to
                       /\ r.window.from <= now /\ now < r.window.to
                       /\ r.epoch = verifier[v].policy.epoch
    BY DEF NeverOutOfDate
  <2>. DEFINE a == verifier[v].approval
  <2>1. a \in approvals
    BY Loaded
  <2>2. verifySetupApproval(verifier[v].policy, a, now)
    BY DEF Verify
  <2>3. a.window \in [from : Nat, to : Nat] /\ r.window \in [from : Nat, to : Nat] /\ now \in Nat
    BY <2>1, TrustConstants DEF TypeOK
  <2>4. /\ a.key = verifier[v].policy.setupKey /\ a.dom = verifier[v].policy.dom
        /\ now >= a.window.from /\ now < a.window.to
    BY <2>2 DEF verifySetupApproval, validTrustTime
  <2>5. /\ now >= r.window.from /\ now < r.window.to
        /\ r.epoch = verifier[v].policy.epoch
    BY DEF Verify, authorizedContext, validTrustTime
  <2>. HIDE DEF a
  <2>. QED
    BY <2>1, <2>3, <2>4, <2>5
<1>. QED
  BY <1>1, TypeCorrect, PTL

\* The lookup of a reused slot's trace key finds exactly the user both accounts are
\* registered under (NewRegistry, Resolve).
THEOREM TraceNamesOwner == TrustSpec => []TraceResolves
<1>1. TypeOK => TraceResolves
  <2>. SUFFICES ASSUME TypeOK, NEW v \in Apps, NEW r \in registries,
                       NEW a \in Signatures(r), NEW b \in Signatures(r), Traced(v, r, a, b)
                PROVE  \E u \in Users :
                         /\ Resolve(r, SecretOf[a.acct]) = {u}
                         /\ \A e \in r.entries : e.acct \in {a.acct, b.acct} => e.user = u
    BY DEF TraceResolves
  <2>1. NewRegistry(r.entries)
    BY DEF Traced, Verify, authorizedContext, registryRegistrations
  <2>2. PICK e \in r.entries : e.acct = a.acct
    BY DEF Signatures, Ring
  <2>3. e.user \in Users
    <3>1. r.entries \in SUBSET Entries(enrollments)
      BY DEF TypeOK
    <3>. QED
      BY <3>1 DEF Entries
  <2>4. SecretOf[a.acct] = SecretOf[b.acct]
    BY DEF Traced
  <2>5. \A f \in r.entries : SecretOf[f.acct] = SecretOf[a.acct] <=> f.user = e.user
    BY <2>1, <2>2 DEF NewRegistry
  <2>6. Resolve(r, SecretOf[a.acct]) = {e.user}
    BY <2>2, <2>5 DEF Resolve
  <2>7. \A f \in r.entries : f.acct \in {a.acct, b.acct} => f.user = e.user
    BY <2>4, <2>5
  <2>. QED
    BY <2>3, <2>6, <2>7
<1>. QED
  BY <1>1, TypeCorrect, PTL
=============================================================================
