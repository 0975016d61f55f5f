------------------------------ MODULE History ------------------------------
(***************************************************************************)
(* "Has this picture been used before?" (store/usage.py): check answers it *)
(* for one picture by looking at the whole history, check_many for a page  *)
(* of them through indexed bands of the perceptual hash.  A hash is the    *)
(* set of its one bits, and every bit belongs to a band.                   *)
(***************************************************************************)
EXTENDS Integers, FiniteSets

CONSTANTS
  Bits, Bands, BandOf,
  Bytes,    \* contents of files
  PixelHashes,   \* what they decode to
  Unknown,  \* a hash that was never computed
  MaxUses   \* bounds the history

ASSUME HistoryAssumption ==
  /\ IsFiniteSet(Bits) /\ IsFiniteSet(Bands) /\ BandOf \in [Bits -> Bands]
  /\ MaxUses \in Nat
  /\ Unknown \notin Bytes \cup PixelHashes

VARIABLES
  uses,   \* image_usage, without what no comparison reads
  page,   \* the pictures asked about
  limit   \* threshold(): how far two hashes may differ

historyVars == <<uses, page, limit>>

Picture == [sha : Bytes, pixels : PixelHashes \cup {Unknown}, hash : {Unknown} \cup SUBSET Bits]
Use == [sha : Bytes, pixels : PixelHashes \cup {Unknown}, hash : {Unknown} \cup SUBSET Bits,
        withdrawn : BOOLEAN]

HistoryTypeOK == uses \in SUBSET Use /\ page \in SUBSET Picture /\ limit \in Nat

HistoryInit ==
  /\ uses = {} /\ page = {} /\ limit \in 0 .. Cardinality(Bits)

(* The history grows, and fills in a pixel hash once it is known; it is    *)
(* withdrawn but never forgotten.  One file has one set of pixels.         *)
Agrees(picture) == \A u \in uses \cup page : u.sha = picture.sha => u.hash = picture.hash

Record(u) ==
  /\ Cardinality(uses) < MaxUses /\ page = {} /\ Agrees(u)
  /\ uses' = uses \cup {u} /\ UNCHANGED <<page, limit>>

FillPixelHash(sha, pixels) ==
  /\ page = {}
  /\ uses' = {IF u.sha = sha /\ u.pixels = Unknown THEN [u EXCEPT !.pixels = pixels] ELSE u : u \in uses}
  /\ UNCHANGED <<page, limit>>

Withdraw(sha) ==
  /\ page = {}
  /\ uses' = {IF u.sha = sha THEN [u EXCEPT !.withdrawn = TRUE] ELSE u : u \in uses}
  /\ UNCHANGED <<page, limit>>

AskAbout(picture) ==
  /\ Cardinality(page) < 2 /\ Agrees(picture)
  /\ \A other \in page : other.sha # picture.sha
  /\ page' = page \cup {picture} /\ UNCHANGED <<uses, limit>>

HistoryNext ==
  \/ \E u \in Use : Record(u)
  \/ \E sha \in Bytes : Withdraw(sha) \/ \E pixels \in PixelHashes : FillPixelHash(sha, pixels)
  \/ \E picture \in Picture : AskAbout(picture)

-----------------------------------------------------------------------------

Counted == {u \in uses : ~u.withdrawn}
Differing(g, h) == (g \ h) \cup (h \ g)
Distance(g, h) == Cardinality(Differing(g, h))

(* The same bytes, else the same pixels.                                   *)
SameBytes(p) == {u \in Counted : u.sha = p.sha}
SamePixels(p) ==
  IF SameBytes(p) # {} \/ p.pixels = Unknown THEN {}
  ELSE {u \in Counted : u.pixels = p.pixels /\ u.sha # p.sha}
Certain(p) == SameBytes(p) \cup SamePixels(p)

(* check: if neither, what looks alike, over the whole history.            *)
Near(p, candidates) ==
  IF Certain(p) # {} \/ p.hash = Unknown THEN {}
  ELSE {u \in candidates : u.sha # p.sha /\ Distance(p.hash, u.hash) <= limit}
Hashed == {u \in Counted : u.hash # Unknown}
Check(p) == [exact |-> SameBytes(p), certain |-> Certain(p), similar |-> SamePixels(p) \cup Near(p, Hashed)]

(* check_many: only what shares a band with some picture of the page, as   *)
(* long as that cannot miss anything.                                      *)
BandValue(h, b) == {i \in h : BandOf[i] = b}
SharesBand(p, u) == \E b \in Bands : BandValue(p.hash, b) = BandValue(u.hash, b)
BandsHoldAtEdge == limit <= Cardinality(Bands)
BandsHold == limit < Cardinality(Bands)
Candidates(p) ==
  IF BandsHold THEN {u \in Hashed : SharesBand(p, u)} ELSE Hashed
CheckMany(p) ==
  LET nearby == IF Certain(p) # {} \/ p.hash = Unknown THEN {} ELSE Candidates(p)
  IN [exact |-> SameBytes(p), certain |-> Certain(p), similar |-> SamePixels(p) \cup Near(p, nearby)]

HistorySpec == HistoryInit /\ [][HistoryNext]_historyVars

-----------------------------------------------------------------------------

(* The page of the library warns of exactly what the single picture's view *)
(* warns of, at every threshold, although it looks at the bands only.      *)
PageAgrees == \A p \in page : CheckMany(p) = Check(p)
=============================================================================
