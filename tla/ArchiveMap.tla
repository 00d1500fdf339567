---------------------------- MODULE ArchiveMap ----------------------------
(***************************************************************************)
(* What the archive builder promises about its entries: a zipper is a map  *)
(* from logical paths to entries.  Adding one entry touches one path,      *)
(* adding a directory never loses a path, removing takes away one name and *)
(* nothing else, a sealed zipper does not change, and copies share nothing.*)
(***************************************************************************)

CONSTANTS Handles

VARIABLES
  content,   \* the map of each zipper
  sealed     \* the sealed zippers

vars == <<content, sealed>>

Init ==
  /\ \A h \in Handles : DOMAIN content[h] = {}
  /\ sealed = {}

\* Only the map of h changes.
Edit(h) ==
  /\ h \notin sealed
  /\ DOMAIN content' = Handles
  /\ \A g \in Handles \ {h} : content'[g] = content[g]
  /\ UNCHANGED sealed

SameAt(h, p) ==
  p \in DOMAIN content[h] /\ p \in DOMAIN content'[h]
    /\ content'[h][p] = content[h][p]

Put(h) ==
  /\ Edit(h)
  /\ DOMAIN content[h] \subseteq DOMAIN content'[h]
  /\ \E p \in DOMAIN content'[h] :
       \A q \in DOMAIN content'[h] \ {p} : SameAt(h, q)

PutTree(h) ==
  /\ Edit(h)
  /\ DOMAIN content[h] \subseteq DOMAIN content'[h]
  /\ \A p \in DOMAIN content'[h] :
       SameAt(h, p) \/ content'[h][p].kind \in {"file", "directory"}

\* The file and the directory of one name.
Remove(h) ==
  /\ Edit(h)
  /\ DOMAIN content'[h] \subseteq DOMAIN content[h]
  /\ \A p \in DOMAIN content'[h] : SameAt(h, p)
  /\ \A p, q \in DOMAIN content[h] \ DOMAIN content'[h] : p.parts = q.parts

Seal(h) == sealed' = sealed \cup {h} /\ UNCHANGED content

Reopen(h) == sealed' = sealed \ {h} /\ UNCHANGED content

Assign(h, g) ==
  /\ content' = [content EXCEPT ![g] = content[h]]
  /\ sealed' = IF h \in sealed THEN sealed \cup {g} ELSE sealed \ {g}

Next ==
  \E h \in Handles :
    \/ Put(h)
    \/ PutTree(h)
    \/ Remove(h)
    \/ Seal(h)
    \/ Reopen(h)
    \/ \E g \in Handles : Assign(h, g)

Spec == Init /\ [][Next]_vars

=============================================================================
