--------------------------- MODULE ReleasePackaging ---------------------------
(***************************************************************************)
(* How a release is assembled (scripts/package_updater_release.py):        *)
(* package writes the assets of one platform into a directory, with a      *)
(* catalog that says where they will be downloaded and their digests;      *)
(* combine checks the directories of both platforms and copies them into   *)
(* what is published.                                                      *)
(*                                                                         *)
(* A refused operation raises before it writes anything, and is no step;   *)
(* one whose copying fails leaves a part.  Contents are digests; a         *)
(* platform's directory has its name.  Between the two operations the      *)
(* files go from two build machines to a third one: Tamper changes what is *)
(* there, one thing at a time and MaxTouches times.                        *)
(*                                                                         *)
(* Operators named Faulty... are plausible defects: the specification does *)
(* not use them, they serve to test that the properties notice.            *)
(***************************************************************************)
EXTENDS Naturals, FiniteSets

CONSTANTS Platforms,   \* two of them
          Logical,     \* names of the files of a release, as the recipe has them
          Refs,        \* those whose digest the template of the recipe leaves open
          FlatNames,
          Flat,        \* "/" becomes "__", so that two names may become one
          Digests,
          Revisions, Releases,
          ReleaseOf,   \* the application and version in the sources of a revision
          Head,        \* the revision of combine's own sources
          Cut,         \* the contents of a catalog or manifest that is cut off
          NoRun, NoFlat,
          MaxTouches   \* bounds what happens to the directories

ASSUME PackagingAssumption ==
  /\ IsFiniteSet(Platforms) /\ Cardinality(Platforms) = 2
  /\ IsFiniteSet(Logical) /\ Refs \subseteq Logical /\ Flat \in [Logical -> FlatNames]
  /\ ReleaseOf \in [Revisions -> Releases] /\ Head \in Revisions
  /\ NoFlat \notin FlatNames /\ MaxTouches \in Nat

\* The files of a release, with their digests: it has those that its recipe refers to.
Hashes == UNION {[F -> Digests] : F \in {G \in SUBSET Logical : Refs \subseteq G}}

ASSUME NoRunAssumption == NoRun \notin [revision : Revisions, hashes : Hashes]

VARIABLES
  dirs,       \* the platforms whose directory exists
  assets,     \* the files in these directories
  made,       \* what package has completed: the revision, and the files with their digests
  touched,    \* how often Tamper changed something
  assembled,  \* combine's output: "none", "part" or "all" of it
  output      \* its files, once it is complete; catalog.json and SHA256SUMS follow from them

vars == <<dirs, assets, made, touched, assembled, output>>
candidateVars == <<dirs, assets, made, touched>>
outputVars == <<assembled, output>>

Name(kind, p, f) == [kind |-> kind, platform |-> p, flat |-> f]

Asset(p, name, body) == [dir |-> p, name |-> name, linked |-> FALSE, body |-> body]

Files(kind) == {a \in assets : a.name.kind = kind}

Init == /\ dirs = {} /\ assets = {} /\ made = [p \in Platforms |-> NoRun] /\ touched = 0
        /\ assembled = "none" /\ output = {}
-----------------------------------------------------------------------------
(* package                                                                 *)

\* "own" if it begins with the address of this repository's release.
Download(p, n, digest) == [own |-> TRUE, name |-> Name("payload", p, Flat[n]),
                           digest |-> digest]

\* The recipe for files with these hashes: its references are bound to them.  What else it says
\* of the application, the image's id and the wheels is bound likewise.
Recipe(p, r, hashes) ==
  [platform |-> p, release |-> ReleaseOf[r],
   bound |-> [n \in Refs |-> hashes[n]],
   downloads |-> [n \in DOMAIN hashes |-> Download(p, n, hashes[n])]]

Manifest(p, r, hashes) ==
  [release |-> ReleaseOf[r], platform |-> p, revision |-> r, files |-> hashes]

ASSUME CutAssumption ==
  \A p \in Platforms, r \in Revisions, hashes \in Hashes :
    Recipe(p, r, hashes) # Cut /\ Manifest(p, r, hashes) # Cut

FaultyCollide(F) == FALSE

Collide(F) == \E m, n \in F : m # n /\ Flat[m] = Flat[n]

\* What package writes, in this order; a file that shares its name is overwritten.
Payloads(p, hashes) ==
  {Asset(p, Name("payload", p, f), hashes[CHOOSE n \in DOMAIN hashes : Flat[n] = f]) :
     f \in {Flat[n] : n \in DOMAIN hashes}}

CatalogFile(p, r, hashes) == Asset(p, Name("catalog", p, NoFlat), Recipe(p, r, hashes))

ManifestFile(p, r, hashes) == Asset(p, Name("candidate", p, NoFlat), Manifest(p, r, hashes))

\* All that package writes.
Whole(p, r, hashes) ==
  Payloads(p, hashes) \cup {CatalogFile(p, r, hashes), ManifestFile(p, r, hashes)}

Rewritten(a, body) == [a EXCEPT !.body = body]

\* Copying failed before a, or within it: what is cut off has another digest.
FailedAt(written, a) ==
  {written} \cup {written \cup {Rewritten(a, d)} :
                   d \in IF a.name.kind = "payload" THEN Digests \ {a.body} ELSE {Cut}}

\* What package leaves when its copying fails: some of the files, the payloads first.
Parts(p, r, hashes) ==
  LET payloads == Payloads(p, hashes)
      catalog  == CatalogFile(p, r, hashes)
      manifest == ManifestFile(p, r, hashes)
  IN  (UNION {FailedAt(others \ {a}, a) : others \in SUBSET payloads, a \in payloads})
      \cup FailedAt(payloads, catalog)
      \cup FailedAt(payloads \cup {catalog}, manifest)

\* p is packaged from r, with some of the files of the release.  An output that exists, were it
\* empty, is not replaced.
Package(p, r, F) == \E hashes \in [F -> Digests] :
  /\ p \notin dirs /\ F # {} /\ Refs \subseteq F /\ ~Collide(F)
  /\ dirs' = dirs \cup {p}
  /\ \/ /\ assets' = assets \cup Whole(p, r, hashes)
        /\ made' = [made EXCEPT ![p] = [revision |-> r, hashes |-> hashes]]
     \/ /\ \E part \in Parts(p, r, hashes) : assets' = assets \cup part
        /\ UNCHANGED made
  /\ UNCHANGED <<touched, outputVars>>
-----------------------------------------------------------------------------
(* What may happen to the directories before they are combined.            *)

Touch(changed) == /\ touched < MaxTouches /\ assembled = "none"
                  /\ changed # assets /\ assets' = changed
                  /\ touched' = touched + 1 /\ UNCHANGED <<dirs, made, outputVars>>

\* A download of a catalog with another address, file or digest.
Redirections(d) ==
  {[d EXCEPT !.own = FALSE]} \cup {[d EXCEPT !.digest = e] : e \in Digests}
  \cup {[d EXCEPT !.name = m] : m \in {a.name : a \in Files("payload") \cup Files("private")}}

\* A recipe of which one thing is different.
RecipeEdits(c) ==
  {[c EXCEPT !.platform = p] : p \in Platforms} \cup {[c EXCEPT !.release = v] : v \in Releases}
  \cup {[c EXCEPT !.bound = [@ EXCEPT ![n] = d]] : n \in DOMAIN c.bound, d \in Digests}
  \cup (UNION {{[c EXCEPT !.downloads = [@ EXCEPT ![n] = e]] : e \in Redirections(c.downloads[n])} :
                  n \in DOMAIN c.downloads})
  \cup {[c EXCEPT !.downloads = [m \in (DOMAIN @) \ {n} |-> @[m]]] : n \in DOMAIN c.downloads}

ManifestEdits(c) ==
  {[c EXCEPT !.revision = r] : r \in Revisions}
  \cup {[c EXCEPT !.files = [@ EXCEPT ![n] = d]] : n \in DOMAIN c.files, d \in Digests}

Edits(a) ==
  IF a.name.kind \in {"payload", "private"} THEN Digests
  ELSE IF a.body = Cut THEN {}
  ELSE {Cut} \cup IF a.name.kind = "catalog" THEN RecipeEdits(a.body) ELSE ManifestEdits(a.body)

Edited(a) == \E body \in Edits(a) : Touch((assets \ {a}) \cup {Rewritten(a, body)})

Linked(a) == Touch((assets \ {a}) \cup {[a EXCEPT !.linked = TRUE]})

Lost(a) == Touch(assets \ {a})

Copied(a) == \E p \in dirs : Touch(assets \cup {[a EXCEPT !.dir = p]})

Private(p) == \E d \in Digests : Touch(assets \cup {Asset(p, Name("private", p, NoFlat), d)})

Tamper == \/ \E a \in assets : Edited(a) \/ Linked(a) \/ Lost(a) \/ Copied(a)
          \/ \E p \in dirs : Private(p)
-----------------------------------------------------------------------------
(* combine                                                                 *)

\* What is cut off is not JSON.
Readable == \A a \in Files("catalog") \cup Files("candidate") : a.body # Cut

Recipes == {a.body : a \in Files("catalog")}

BothPlatforms == /\ Cardinality(Files("catalog")) = 2
                 /\ {r.platform : r \in Recipes} = Platforms

OneRevision == /\ Cardinality(Files("candidate")) = 2
               /\ Cardinality({a.body.revision : a \in Files("candidate")}) = 1

NoDuplicates == \A a, b \in assets : a.name = b.name => a = b

\* The file that will be downloaded is there, with the digest that the recipe gives.
Served(d) == d.own /\ \E a \in assets : a.name = d.name /\ a.body = d.digest

OwnRecipe(r) == /\ r.release = ReleaseOf[Head]
                /\ \A n \in DOMAIN r.downloads : Served(r.downloads[n])

Described == UNION {{r.downloads[n].name : n \in DOMAIN r.downloads} : r \in Recipes}

FaultyExpected == Described \subseteq {a.name : a \in assets}

\* Nothing is missing, and nothing else is there.
Expected == /\ {a.name : a \in assets}
                 = Described \cup {Name(k, p, NoFlat) : k \in {"catalog", "candidate"},
                                                        p \in Platforms}
            /\ \A a \in assets : ~a.linked

Acceptable == /\ Readable /\ BothPlatforms /\ OneRevision /\ NoDuplicates
              /\ \A r \in Recipes : OwnRecipe(r)
              /\ Expected

\* Copying gives up the directories: a file is published under its name.
Published(a) == [name |-> a.name, body |-> a.body]

Combine ==
  /\ Acceptable /\ assembled = "none"
  /\ \/ assembled' = "all" /\ output' = {Published(a) : a \in assets}
     \/ assembled' = "part" /\ UNCHANGED output
  /\ UNCHANGED candidateVars

Next == \/ \E p \in Platforms, r \in Revisions, F \in SUBSET Logical : Package(p, r, F)
        \/ Tamper \/ Combine

Spec == Init /\ [][Next]_vars
-----------------------------------------------------------------------------
\* The file is published as package wrote it.
Genuine(p, File(_, _, _)) ==
  made[p] # NoRun /\ Published(File(p, made[p].revision, made[p].hashes)) \in output

\* What package writes for p is published.
AllOf(p) == {Published(a) : a \in Whole(p, made[p].revision, made[p].hashes)}

PayloadsOf(p) == {Published(a) : a \in Payloads(p, made[p].hashes)}

Matching == \E r \in Revisions : /\ ReleaseOf[r] = ReleaseOf[Head]
                                 /\ \A p \in Platforms : made[p] # NoRun /\ made[p].revision = r

\* Whatever happens to the directories, with a catalog that is published as package wrote it go
\* all the payloads that package wrote beside it, unaltered; and if that holds of both catalogs and
\* both manifests, what is published is what package wrote on both machines, from one revision
\* of the release at hand, and nothing besides.  (A change of the catalogs and manifests themselves,
\* or of a payload together with its catalog, is published if it contradicts nothing.)
PublishedIsGenuine == assembled = "all" =>
  /\ \A p \in Platforms : Genuine(p, CatalogFile) => PayloadsOf(p) \subseteq output
  /\ (\A p \in Platforms : Genuine(p, CatalogFile) /\ Genuine(p, ManifestFile))
       => Matching /\ output = UNION {AllOf(p) : p \in Platforms}

\* Untouched directories are accepted exactly if both platforms were packaged completely, from
\* one revision of the release at hand: what copying left when it failed is refused, and no
\* file that package lets through makes combine refuse the release.
PackagedIsAccepted == touched = 0 => (Acceptable <=> Matching)
=============================================================================
