------------------------------- MODULE IsoMd5 -------------------------------
(***************************************************************************)
(* misc/isomd5sum: implantisomd5 writes the MD5 sum of an ISO image into   *)
(* the application data of its volume descriptor; checkisomd5 reads it     *)
(* there and compares it with the sum of what the media has now.  Both     *)
(* take that data for blanks, and leave the last sectors out.              *)
(*                                                                         *)
(* Sizes are in units of the image.  The real ones: SECTOR 2048, FIRST 16, *)
(* BUFSIZE 16 sectors, SKIP 15, APP_OFFSET 883, APP_LEN 512, BLOCK 64.     *)
(***************************************************************************)
EXTENDS Integers, Sequences, SequencesExt, FiniteSets, FiniteSetsExt

CONSTANTS
  SECTOR, FIRST,        \* sector size, number of the first descriptor
  APP_OFFSET, APP_LEN,  \* application data in a descriptor
  TEXT_LEN,             \* of what is implanted there; blanks follow it
  SKIPSECTORS,          \* sectors that are left out at the end
  BUFSIZE, BLOCK,       \* buffer of the checker, block of MD5
  Descriptors,          \* kinds of the descriptors, from FIRST on
  Sizes                 \* sizes of an image in sectors, as its descriptor says

VARIABLES
  kinds,     \* kinds of the descriptors: "pvd", "other", "end"
  isosize,   \* size that the descriptor says
  length,    \* length of the file or the media
  changed,   \* a unit that differs from the image, 0 if none does
  app,       \* application data: "blank", "used" or what was implanted
  offset,    \* bytes read so far
  ctx,       \* MD5 context: blocks, what is left, number of units
  isodoing,  \* step of the program that runs
  sealed,    \* history: length and changed unit when the sum was implanted
  verdict    \* of checkisomd5: "none", "pass", "fail", "na", "crash"

imVars == <<kinds, isosize, length, changed, app, offset, ctx, isodoing, sealed, verdict>>
media == <<kinds, isosize, length, changed>>

(* parsepvd: the first primary descriptor before an end. *)
Primary ==
  LET p == {i \in DOMAIN kinds : kinds[i] = "pvd" /\ \A k \in 1..i - 1 : kinds[k] # "end"}
  IN IF p = {} THEN -1 ELSE (FIRST + Min(p) - 1) * SECTOR

apoff == Primary + APP_OFFSET
Summed(skip) == isosize - skip * SECTOR

(* What a unit of the media reads as. *)
Text == CASE app.kind = "blank" -> 0 [] app.kind = "used" -> APP_LEN [] OTHER -> TEXT_LEN
Unit(i) ==
  IF i \in apoff..apoff + APP_LEN - 1 THEN (IF i < apoff + Text THEN "text" ELSE "blank")
  ELSE IF i = changed THEN "changed" ELSE "data"

Read(from, n) ==
  [i \in 1..Max({0, Min({n, length - from})}) |-> Unit(from + i - 1)]

--------------------------------------------------------------------------
MD5_Init == [blocks |-> <<>>, in |-> <<>>, count |-> 0]

(* Whole blocks of a sequence that starts at a block, and what is left. *)
Blocks(s) == [b \in 1..Len(s) \div BLOCK |-> SubSeq(s, (b - 1) * BLOCK + 1, b * BLOCK)]
Left(s) == SubSeq(s, (Len(s) \div BLOCK) * BLOCK + 1, Len(s))

(* An odd-sized beginning first fills the block that is in the context. *)
MD5_Update(c, buf) ==
  LET need == BLOCK - Len(c.in)
      tail == SubSeq(buf, need + 1, Len(buf))
  IN IF c.in = <<>>
     THEN [blocks |-> c.blocks \o Blocks(buf), in |-> Left(buf), count |-> c.count + Len(buf)]
     ELSE IF Len(buf) < need
     THEN [c EXCEPT !.in = @ \o buf, !.count = @ + Len(buf)]
     ELSE [blocks |-> c.blocks \o <<c.in \o SubSeq(buf, 1, need)>> \o Blocks(tail),
           in |-> Left(tail), count |-> c.count + Len(buf)]

(* The padded last block and the count close the sum, which stands for the  *)
(* blocks it was made of.                                                   *)
MD5_Final(c) == c

--------------------------------------------------------------------------
(* implantISOFile: used application data is kept, unless it is forced. *)
StartImplant(forceit) ==
  /\ isodoing = "idle"
  /\ IF Primary < 0 \/ (app.kind # "blank" /\ ~ forceit)
     THEN UNCHANGED <<app, isodoing>>
     ELSE isodoing' = "implant" /\ app' = [app EXCEPT !.kind = "blank"]
  /\ offset' = 0 /\ ctx' = MD5_Init /\ verdict' = "none"
  /\ UNCHANGED <<media, sealed>>

ImplantRead ==
  /\ isodoing = "implant"
  /\ offset < Summed(SKIPSECTORS) /\ offset < length
  /\ ctx' = MD5_Update(ctx, Read(offset, SECTOR))
  /\ offset' = offset + Len(Read(offset, SECTOR))
  /\ UNCHANGED <<media, app, isodoing, sealed, verdict>>

(* The sum, the number of sectors and the status are written in this order; *)
(* a failed write is only told of.                                          *)
ImplantWrite(fails) ==
  /\ isodoing = "implant"
  /\ ~ (offset < Summed(SKIPSECTORS) /\ offset < length)
  /\ app' = IF fails THEN app
            ELSE [kind |-> "implanted", sum |-> MD5_Final(ctx), skip |-> SKIPSECTORS]
  /\ sealed' = <<length, changed>>
  /\ isodoing' = "idle"
  /\ UNCHANGED <<media, offset, ctx, verdict>>

(* The media is written: a unit is not what it was, or the end is missing;   *)
(* bounded to one such damage.                                               *)
Damage(i, len) ==
  /\ isodoing = "idle" /\ changed = -1 /\ length >= isosize
  /\ changed' = i /\ length' = len /\ verdict' = "none"
  /\ UNCHANGED <<kinds, isosize, app, offset, ctx, isodoing, sealed>>

--------------------------------------------------------------------------
(* The checker's parsepvd needs the descriptor, the sum and the number of     *)
(* sectors.                                                                   *)
StartCheck ==
  /\ isodoing = "idle"
  /\ IF Primary < 0 \/ apoff + APP_LEN > length \/ app.kind # "implanted"
     THEN verdict' = "na" /\ UNCHANGED <<isodoing, offset, ctx>>
     ELSE isodoing' = "check" /\ offset' = 0 /\ ctx' = MD5_Init /\ UNCHANGED verdict
  /\ UNCHANGED <<media, app, sealed>>

(* The places of a buffer that are overwritten by blanks.  The end of the   *)
(* first part is the smaller of its end and of the LENGTH of what was read  *)
(* behind its start.                                                        *)
Blanked(from, nread) ==
  IF from < apoff /\ from + nread >= apoff
  THEN apoff - from..Min({apoff - from + Min({nread, APP_LEN}), from + nread - apoff}) - 1
  ELSE IF from >= apoff /\ from + nread < apoff + APP_LEN THEN 0..nread - 1
  ELSE IF from < apoff + APP_LEN /\ from + nread >= apoff + APP_LEN
  THEN 0..apoff + APP_LEN - from - 1
  ELSE {}

(* memset with a length below 0. *)
Overruns(from, nread) ==
  /\ from < apoff /\ from + nread >= apoff
  /\ from + nread - apoff < apoff - from

Checking == isodoing = "check" /\ offset < Summed(app.skip) /\ offset < length
Part == Read(offset, Min({BUFSIZE, Summed(app.skip) - offset}))

CheckRead ==
  /\ Checking /\ ~ Overruns(offset, Len(Part))
  /\ LET b == Blanked(offset, Len(Part)) IN
     ctx' = MD5_Update(ctx, [i \in DOMAIN Part |-> IF i - 1 \in b THEN "blank" ELSE Part[i]])
  /\ offset' = offset + Len(Part)
  /\ UNCHANGED <<media, app, isodoing, sealed, verdict>>

CheckOverruns ==
  /\ Checking /\ Overruns(offset, Len(Part))
  /\ verdict' = "crash" /\ isodoing' = "idle"
  /\ UNCHANGED <<media, app, offset, ctx, sealed>>

CheckEnds ==
  /\ isodoing = "check" /\ ~ Checking
  /\ verdict' = IF MD5_Final(ctx) = app.sum THEN "pass" ELSE "fail"
  /\ isodoing' = "idle"
  /\ UNCHANGED <<media, app, offset, ctx, sealed>>

Init ==
  /\ kinds \in Descriptors /\ isosize \in {n * SECTOR : n \in Sizes}
  /\ length \in {isosize, isosize + 1} /\ changed = -1
  /\ app \in {[kind |-> k, sum |-> MD5_Init, skip |-> 0] : k \in {"blank", "used"}}
  /\ offset = 0 /\ ctx = MD5_Init /\ isodoing = "idle" /\ sealed = <<>> /\ verdict = "none"

Next ==
  \/ \E f \in BOOLEAN : StartImplant(f) \/ ImplantWrite(f)
  \/ ImplantRead \/ StartCheck \/ CheckRead \/ CheckOverruns \/ CheckEnds
  \/ \E i \in 0..isosize : Damage(i, length)
  \/ \E n \in 0..isosize : Damage(changed, n)

--------------------------------------------------------------------------
(* The types of the media and of the running sum. *)
TypeOK ==
  /\ app.kind \in {"blank", "used", "implanted"}
  /\ offset \in 0..isosize /\ ctx.count \in 0..isosize
  /\ isodoing \in {"idle", "implant", "check"}
  /\ verdict \in {"none", "pass", "fail", "na", "crash"}

(* The summed part of the media is what it was when the sum was implanted. *)
Intact ==
  LET n == Min({sealed[1], Summed(app.skip)})
      InPart(i) == IF i \in 0..n - 1 \ apoff..apoff + APP_LEN - 1 THEN i ELSE -1
  IN Min({length, Summed(app.skip)}) = n /\ InPart(changed) = InPart(sealed[2])

(* The implanted text lies in one buffer, with at least as much behind its    *)
(* start as there is before and in it; or behind all that is summed.         *)
Usual ==
  LET from == (apoff \div BUFSIZE) * BUFSIZE
      n == Min({BUFSIZE, Summed(SKIPSECTORS) - from, length - from})
  IN Summed(SKIPSECTORS) >= apoff /\ Summed(SKIPSECTORS) > from => apoff - from + TEXT_LEN <= from + n - apoff

(* The media check (libcheckisomd5.c:135-229) never passes a media on which   *)
(* what was summed has changed, though the two programs read it in parts of   *)
(* different sizes and the sum itself stands in the middle.  It passes every  *)
(* unchanged one whose implanted text is early in its buffer, as in all       *)
(* images that begin with their primary descriptor; where it is late,         *)
(* libcheckisomd5.c:180 takes a length for an end, and no media passes.       *)
VerdictIsRight ==
  /\ verdict = "pass" => Intact /\ Usual
  /\ verdict \in {"fail", "crash"} => ~ (Intact /\ Usual)
==============================================================================
