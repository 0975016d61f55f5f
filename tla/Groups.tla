------------------------------- MODULE Groups -------------------------------
(***************************************************************************)
(* Which pictures are the same (duplicates.py): the report of exact copies*)
(* and of lookalikes, the stacks the library shows instead of tiles, and *)
(* the maintainer's "these are not the same".                            *)
(***************************************************************************)
EXTENDS Ordering, SequencesExt, FiniteSetsExt

CONSTANTS
  Looks,          \* contents of files: digests, bits of the perceptual hash, ratio in percent
  HashBands,      \* the bands, each a set of bits
  Thresholds,     \* how many bits lookalikes may differ in
  MaxRows, MaxReported, MaxDismissals   \* bound the images, those of a search, the dismissals

ASSUME GroupsAssumption ==
  /\ \A look \in Looks :
       /\ DOMAIN look = {"sha", "pixels", "hash", "ratio", "stamp"}
       /\ look.sha \in Nat /\ look.pixels \in Nat /\ look.ratio \in Nat /\ look.stamp \in Nat
       /\ IsFiniteSet(look.hash)
  /\ IsFiniteSet(HashBands) /\ \A b, c \in HashBands : b # c => b \cap c = {}
  /\ Thresholds \subseteq Nat /\ MaxRows \in Nat /\ MaxDismissals \in Nat
  /\ MaxReported \in 0 .. MaxRows

VARIABLES
  shown,    \* images that are neither missing nor trashed, by id
  apart,   \* duplicate_dismissals: pairs that are not the same picture
  threshold,   \* usage.threshold()
  report   \* the result of the newest finished search

groupsVars == <<shown, apart, threshold, report>>

Ids == DOMAIN shown
Group == [members : SUBSET (1 .. MaxRows), certain : BOOLEAN]

GroupsTypeOK ==
  /\ Ids \subseteq 1 .. MaxRows /\ shown \in [Ids -> Looks]
  /\ \A pair \in apart : Cardinality(pair) = 2 /\ pair \subseteq Ids
  /\ report \in Seq(Group) /\ threshold \in Thresholds

GroupsInit == shown = <<>> /\ apart = {} /\ report = <<>> /\ threshold \in Thresholds

-----------------------------------------------------------------------------

MembersOf(groups) == {g.members : g \in Range(groups)}
Torn(ids) == \E pair \in apart : pair \subseteq ids

(* _without_dismissed_pairs: in the order of their ids, each one that    *)
(* contradicts none already kept.                                        *)
Kept(ids) ==
  CHOOSE kept \in SUBSET ids :
    \A id \in ids : id \in kept <=> \A other \in kept : other < id => {id, other} \notin apart

(* _groups_without_dismissed_pairs: again without the first, until all are*)
(* kept.                                                                 *)
From(ids, id) == {other \in ids : other >= id}
Anchors(ids) ==
  {id \in ids : /\ \A earlier \in ids : earlier < id => Kept(From(ids, earlier)) # From(ids, earlier)
                /\ Cardinality(Kept(From(ids, id))) >= 2}
Split(ids) ==
  LET anchors == ById(Anchors(ids)) IN [i \in DOMAIN anchors |-> Kept(From(ids, anchors[i]))]

(* match_confidence, from the first member.                              *)
Same(a, b) == shown[a].sha = shown[b].sha \/ shown[a].pixels = shown[b].pixels
Confident(ids, first) == \A id \in ids : Same(first, id)
Grouped(ids, first) == [members |-> ids, certain |-> Confident(ids, first)]

(* exact_groups: by pixels, then by bytes what pixels did not cover, the *)
(* largest classes first.                                                *)
Classes(ids, digest) ==
  LET digests == {digest[id] : id \in ids}
      class == [d \in digests |-> {id \in ids : digest[id] = d}]
      larger == {p \in digests \X digests :
                   LET n == Cardinality(class[p[1]])
                       k == Cardinality(class[p[2]])
                   IN n > k \/ (n = k /\ p[1] < p[2])}
      order == Ordered(digests, larger)
      split == FlattenSeq([i \in DOMAIN order |-> Split(class[order[i]])])
  IN [i \in DOMAIN split |-> Grouped(split[i], Min(split[i]))]
Pixels == [id \in Ids |-> shown[id].pixels]
Sha == [id \in Ids |-> shown[id].sha]
Exact(ids) ==
  LET pixels == Classes(ids, Pixels)
      bytes == Classes(ids, Sha)
      covered == UNION MembersOf(pixels)
  IN pixels \o AtPlaces(bytes, {i \in DOMAIN bytes : ~ bytes[i].members \subseteq covered})

(* _order_members: by the time in the file name when every name has one. *)
GenerationTime(id) == shown[id].stamp
Oldest(ids) ==
  IF \A id \in ids : GenerationTime(id) > 0
  THEN CHOOSE id \in ids : \A other \in ids :
         \/ GenerationTime(id) < GenerationTime(other)
         \/ GenerationTime(id) = GenerationTime(other) /\ id <= other
  ELSE Min(ids)

-----------------------------------------------------------------------------

Known(id) == shown[id].ratio > 0
Comparable(a, b) ==
  Known(a) /\ Known(b) =>
    4 * Max({shown[a].ratio, shown[b].ratio}) <= 5 * Min({shown[a].ratio, shown[b].ratio})
Differ(a, b) == (shown[a].hash \ shown[b].hash) \cup (shown[b].hash \ shown[a].hash)

(* _candidates_for: the bands narrow the field while they miss nothing.  *)
CandidatesAtEdge(id, ids) ==
  IF threshold > Cardinality(HashBands) THEN ids
  ELSE {other \in ids : \E band \in HashBands : band \cap Differ(id, other) = {}}
CandidatesFor(id, ids) ==
  IF threshold >= Cardinality(HashBands) THEN ids
  ELSE {other \in ids : \E band \in HashBands : band \cap Differ(id, other) = {}}
Alike(a, b) ==
  /\ Cardinality(Differ(a, b)) <= threshold
  /\ Comparable(a, b)
  /\ {a, b} \notin apart
Admissible(ids) == 
  {p \in ids \X ids : p[2] \in CandidatesFor(p[1], ids) \ {p[1]} /\ Alike(p[1], p[2])}

(* _Union: the classes of the pairs that join images of one kind; an     *)
(* image's class is the least that holds it and all that join its members.*)
Joins(a, b) == Known(a) = Known(b)
Closed(class, pairs) == \A p \in pairs : Joins(p[1], p[2]) /\ p[1] \in class => p[2] \in class
Component(id, ids, pairs) ==
  {other \in ids : \A class \in SUBSET ids : id \in class /\ Closed(class, pairs) => other \in class}
Components(ids, pairs) == {Component(id, ids, pairs) : id \in ids}

(* similar_groups: one member stands for an exact group; what has no shape*)
(* attaches to one component that has, the one of the lowest id.         *)
Collapsed(exact) == UNION {ids \ {Oldest(ids)} : ids \in MembersOf(exact)}
Attached(unknown, shaped, pairs) ==
  LET targets == {ids \in shaped : \E u \in unknown, k \in ids : <<u, k>> \in pairs}
  IN IF targets = {} THEN {} ELSE {CHOOSE ids \in targets : \A other \in targets : Min(ids) <= Min(other)}
Shaped(components) == {c \in components : \E id \in c : Known(id)}
Shapeless(components) == components \ Shaped(components)
Grown(c, components, pairs) ==
  c \cup UNION {u \in Shapeless(components) : c \in Attached(u, Shaped(components), pairs)}
Loose(components, pairs) ==
  {u \in Shapeless(components) : Attached(u, Shaped(components), pairs) = {}}
ByFirst(sets) == Ordered(sets, {p \in sets \X sets : Min(p[1]) < Min(p[2])})
Lookalikes(ids, pairs) ==
  LET components == Components(ids, pairs)
      shaped == ByFirst(Shaped(components))
  IN [i \in DOMAIN shaped |-> Grown(shaped[i], components, pairs)] \o ByFirst(Loose(components, pairs))
Similar(ids, exact) ==
  LET candidates == ids \ Collapsed(exact)
      all == Lookalikes(candidates, Admissible(candidates))
      many == AtPlaces(all, {i \in DOMAIN all : Cardinality(all[i]) >= 2})
  IN [i \in DOMAIN many |-> Grouped(many[i], Min(many[i]))]

(* library_groups: a group joins the stacks it shares members with, unless*)
(* that brought a dismissed pair together; then it loses those members.  *)
Clashes(ids) == Torn(ids)
LosesNothing(s, shared) == s
Loses(s, shared) == [s EXCEPT !.own = @ \ shared, !.all = @ \ shared]
Meets(s, members, i) ==
  LET shared == s.own \cap members IN
  IF shared = {} THEN s
  ELSE IF Clashes(s.all \cup members) THEN Loses(s, shared)
  ELSE [s EXCEPT !.all = @ \cup members, !.over = @ \cup {i}]
Met(merged, group) ==
  LET met[i \in 0 .. Len(merged)] ==
        IF i = 0 THEN [own |-> group.members, all |-> group.members, over |-> {}]
        ELSE Meets(met[i - 1], merged[i].members, i)
  IN met[Len(merged)]
Joined(merged, group, met) ==
  [members |-> met.own \cup UNION {merged[i].members : i \in met.over},
   certain |-> group.certain /\ \A i \in met.over : merged[i].certain]
Merge(merged, group) ==
  LET met == Met(merged, group)
      into == Min(met.over)
      rest == ById(DOMAIN merged \ (met.over \ {into}))
  IN CASE Cardinality(met.own) < 2 -> merged
       [] Cardinality(met.own) >= 2 /\ met.over = {} -> Append(merged, [group EXCEPT !.members = met.own])
       [] OTHER -> [i \in DOMAIN rest |->
                      IF rest[i] = into THEN Joined(merged, group, met) ELSE merged[rest[i]]]

WithSimilar(ids, exact) == exact \o Similar(ids, exact)
Reported(ids) == WithSimilar(ids, Exact(ids))
Stacked(groups) ==
  LET merged[i \in 0 .. Len(groups)] == IF i = 0 THEN <<>> ELSE Merge(merged[i - 1], groups[i])
  IN merged[Len(groups)]
Library(ids) == Stacked(Reported(ids))

(* current_groups: the finished search, against the images there are now.*)
Filtered(groups) ==
  FlattenSeq([i \in DOMAIN groups |->
    LET split == Split(groups[i].members \cap Ids)
    IN [j \in DOMAIN split |-> [groups[i] EXCEPT !.members = split[j]]]])
CurrentGroups == Filtered(report)

-----------------------------------------------------------------------------

Rescanned(look) ==
  LET id == Max(Ids \cup {0}) + 1 IN
  /\ id <= IF report = <<>> THEN MaxRows ELSE MaxReported
  /\ shown' = [i \in Ids \cup {id} |-> IF i = id THEN look ELSE shown[i]]
  /\ UNCHANGED <<apart, threshold, report>>

(* One search suffices: a later one forgets what this one said.          *)
Search ==
  /\ Ids \subseteq 1 .. MaxReported
  /\ report = <<>> /\ report' = Reported(Ids) /\ UNCHANGED <<shown, apart, threshold>>

Pairs(ids) == {{p[1], p[2]} : p \in {p \in ids \X ids : p[1] < p[2]}}
Dismiss(ids) ==
  /\ Cardinality(ids) >= 2 /\ Cardinality(apart \cup Pairs(ids)) <= MaxDismissals
  /\ apart' = apart \cup Pairs(ids) /\ UNCHANGED <<shown, threshold, report>>

Gone(id) ==
  /\ shown' = [i \in Ids \ {id} |-> shown[i]]
  /\ apart' = {pair \in apart : id \notin pair} /\ UNCHANGED <<threshold, report>>

GroupsNext ==
  \/ Search
  \/ \E look \in Looks : Rescanned(look)
  \/ \E ids \in SUBSET Ids : Dismiss(ids)
  \/ \E id \in Ids : Gone(id)

GroupsSpec == GroupsInit /\ [][GroupsNext]_groupsVars

-----------------------------------------------------------------------------

(* The stacks share no member, none is a single picture, and merging has   *)
(* brought no dismissed pair together: a stack that holds one is (part of) *)
(* a single group of lookalikes.                                           *)
OneTile(stacks, lookalikes) ==
  /\ \A i, j \in DOMAIN stacks : i # j => stacks[i].members \cap stacks[j].members = {}
  /\ \A i \in DOMAIN stacks : Cardinality(stacks[i].members) >= 2
  /\ \A i \in DOMAIN stacks : Torn(stacks[i].members) =>
       \E ids \in lookalikes : stacks[i].members \subseteq ids
StillApart(groups) ==
  \A i \in DOMAIN groups : groups[i].members \subseteq Ids /\ ~Torn(groups[i].members)

(* The library shows a picture on one tile, whatever groups overlapped and *)
(* in whatever order they were merged.  And the groups of a finished       *)
(* search, filtered as they are shown, hold no dismissed pair, whatever    *)
(* was dismissed, deleted or found since.                                  *)
OneTileEach ==
  /\ OneTile(Library(Ids), MembersOf(Similar(Ids, Exact(Ids))))
  /\ StillApart(CurrentGroups)

(* A picture that looks like another appears in some group: the bands find*)
(* every pair, and no order of the images takes its partners away.  (One *)
(* with dimensions may still lose a partner without to another.)         *)
NoneLeftOut ==
  LET exact == Exact(Ids)
      candidates == Ids \ Collapsed(exact)
      grouped == UNION MembersOf(Similar(Ids, exact))
  IN \A a, b \in candidates : a # b /\ Alike(a, b) /\ (Known(a) => Known(b)) => a \in grouped

(* What the code says of a dismissal: these two images are not the same   *)
(* picture, so no stack of the library holds both.                       *)
DismissedStayApart == \A g \in Range(Library(Ids)) : ~Torn(g.members)

(* ... and a copy that was rejected from one group anchors another: every*)
(* picture with a copy it was not dismissed from is in some group.       *)
RejectedAnchors ==
  LET grouped == UNION MembersOf(Exact(Ids)) IN
  \A a, b \in Ids : a # b /\ Same(a, b) /\ {a, b} \notin apart => a \in grouped
=============================================================================
