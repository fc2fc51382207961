------------------------ MODULE ReleasePackagingProofs ------------------------
(* Theorems about ReleasePackaging: what combine refuses and what it       *)
(* publishes, for any files, contents, revisions and changes.              *)
EXTENDS ReleasePackaging, FiniteSetTheorems, TLAPS

\* The directory of p.
In(p) == {a \in assets : a.dir = p}

\* Files that package lets through, with their contents.
Release(hashes) ==
  \E F \in SUBSET Logical : /\ hashes \in [F -> Digests]
                            /\ F # {} /\ Refs \subseteq F /\ ~Collide(F)

\* What package has completed.
MadeInv ==
  /\ made \in [Platforms -> [revision : Revisions, hashes : Hashes] \cup {NoRun}]
  /\ \A p \in Platforms : made[p] # NoRun => Release(made[p].hashes)

\* There is no directory of p, or what copying left when it failed, or all that package wrote.
Packaged(p) ==
  \/ p \notin dirs /\ made[p] = NoRun /\ In(p) = {}
  \/ /\ p \in dirs /\ made[p] = NoRun
     /\ \E r \in Revisions, hashes \in Hashes : Release(hashes) /\ In(p) \in Parts(p, r, hashes)
  \/ /\ p \in dirs /\ made[p] # NoRun
     /\ In(p) = Whole(p, made[p].revision, made[p].hashes)

PackagedInv ==
  /\ touched \in Nat /\ IsFiniteSet(assets)
  /\ touched = 0 => /\ \A a \in assets : a.dir \in Platforms
                    /\ \A p \in Platforms : Packaged(p)

\* What combine's checks mean for the files it publishes.
DistinctNames(O) == \A x, y \in O : x.name = y.name => x = y

Links(O) ==
  UNION {{x.body.downloads[n].name : n \in DOMAIN x.body.downloads} :
           x \in {y \in O : y.name.kind = "catalog"}}

AllNamed(O) ==
  {x.name : x \in O} = Links(O) \cup {Name(k, p, NoFlat) : k \in {"catalog", "candidate"},
                                                           p \in Platforms}

AllServed(O) ==
  \A x \in O : x.name.kind = "catalog" =>
    /\ x.body.release = ReleaseOf[Head]
    /\ \A n \in DOMAIN x.body.downloads :
         \E y \in O : y.name = x.body.downloads[n].name /\ y.body = x.body.downloads[n].digest

SameRevision(O) ==
  \A x, y \in O : x.name.kind = "candidate" /\ y.name.kind = "candidate"
                    => x.body.revision = y.body.revision

TwoOfAKind(O) ==
  \A x \in O : x.name.kind \in {"catalog", "candidate"}
              => \E p \in Platforms : x.name = Name(x.name.kind, p, NoFlat)

NamedBodies(O) == \A x \in O : x = [name |-> x.name, body |-> x.body]

Checked(O) == /\ DistinctNames(O) /\ AllNamed(O) /\ AllServed(O) /\ SameRevision(O)
              /\ TwoOfAKind(O) /\ NamedBodies(O)

IInv == MadeInv /\ PackagedInv /\ (assembled = "all" => Checked(output))
-----------------------------------------------------------------------------
(* What package writes.                                                    *)

LEMMA AssetFields ==
  ASSUME NEW p, NEW name, NEW body
  PROVE  /\ Asset(p, name, body).dir = p /\ Asset(p, name, body).name = name
         /\ Asset(p, name, body).body = body /\ ~Asset(p, name, body).linked
BY DEF Asset

LEMMA AssetShape ==
  ASSUME NEW p, NEW name, NEW body
  PROVE  DOMAIN Asset(p, name, body) = {"dir", "name", "linked", "body"}
BY DEF Asset

LEMMA NameFields ==
  ASSUME NEW k, NEW p, NEW f
  PROVE  Name(k, p, f).kind = k /\ Name(k, p, f).platform = p /\ Name(k, p, f).flat = f
BY DEF Name

\* No file of a release replaces another: each is there under its name.
LEMMA EachPayload ==
  ASSUME NEW p, NEW hashes, Release(hashes)
  PROVE  Payloads(p, hashes)
           = {Asset(p, Name("payload", p, Flat[n]), hashes[n]) : n \in DOMAIN hashes}
<1>1. \A m, n \in DOMAIN hashes : Flat[m] = Flat[n] => m = n
  BY DEF Release, Collide
<1>2. \A n \in DOMAIN hashes : (CHOOSE m \in DOMAIN hashes : Flat[m] = Flat[n]) = n
  BY <1>1
<1> DEFINE First(f) == CHOOSE m \in DOMAIN hashes : Flat[m] = f
           Written(n) == Asset(p, Name("payload", p, Flat[n]), hashes[n])
<1>3. Payloads(p, hashes)
        = {Asset(p, Name("payload", p, f), hashes[First(f)]) : f \in {Flat[n] : n \in DOMAIN hashes}}
  BY DEF Payloads
<1>4. \A n \in DOMAIN hashes :
        Asset(p, Name("payload", p, Flat[n]), hashes[First(Flat[n])]) = Written(n)
  BY <1>2
<1> HIDE DEF First, Written
<1>5. Payloads(p, hashes) = {Written(n) : n \in DOMAIN hashes}
  BY <1>3, <1>4
<1> QED
  BY <1>5 DEF Written

LEMMA PayloadFields ==
  ASSUME NEW p, NEW hashes, NEW a \in Payloads(p, hashes)
  PROVE  a.dir = p /\ a.name.platform = p /\ a.name.kind = "payload" /\ ~a.linked
BY AssetFields, NameFields DEF Payloads

LEMMA DescribedFields ==
  ASSUME NEW p, NEW r, NEW hashes
  PROVE  /\ CatalogFile(p, r, hashes).dir = p
         /\ CatalogFile(p, r, hashes).name = Name("catalog", p, NoFlat)
         /\ CatalogFile(p, r, hashes).body = Recipe(p, r, hashes)
         /\ ManifestFile(p, r, hashes).dir = p
         /\ ManifestFile(p, r, hashes).name = Name("candidate", p, NoFlat)
         /\ ManifestFile(p, r, hashes).body = Manifest(p, r, hashes)
         /\ ~CatalogFile(p, r, hashes).linked /\ ~ManifestFile(p, r, hashes).linked
BY AssetFields DEF CatalogFile, ManifestFile

LEMMA RecipeFields ==
  ASSUME NEW p, NEW r, NEW hashes
  PROVE  /\ Recipe(p, r, hashes).platform = p /\ Recipe(p, r, hashes).release = ReleaseOf[r]
         /\ DOMAIN Recipe(p, r, hashes).downloads = DOMAIN hashes
         /\ \A n \in DOMAIN hashes :
              Recipe(p, r, hashes).downloads[n] = Download(p, n, hashes[n])
         /\ Manifest(p, r, hashes).revision = r
BY DEF Recipe, Manifest

LEMMA DownloadFields ==
  ASSUME NEW p, NEW n, NEW d
  PROVE  /\ Download(p, n, d).own /\ Download(p, n, d).digest = d
         /\ Download(p, n, d).name = Name("payload", p, Flat[n])
BY DEF Download

\* What the files of a directory are, by their kind.
LEMMA WholeFields ==
  ASSUME NEW p, NEW r, NEW hashes, NEW a \in Whole(p, r, hashes)
  PROVE  /\ a.dir = p /\ a.name.platform = p /\ ~a.linked
         /\ a.name.kind \in {"payload", "catalog", "candidate"}
         /\ a.name.kind = "payload" => a \in Payloads(p, hashes)
         /\ a.name.kind = "catalog" => a = CatalogFile(p, r, hashes)
         /\ a.name.kind = "candidate" => a = ManifestFile(p, r, hashes)
<1>1. CASE a \in Payloads(p, hashes)
  BY <1>1, PayloadFields
<1>2. CASE a = CatalogFile(p, r, hashes)
  BY <1>2, DescribedFields, NameFields
<1>3. CASE a = ManifestFile(p, r, hashes)
  BY <1>3, DescribedFields, NameFields
<1> QED
  BY <1>1, <1>2, <1>3 DEF Whole

\* What a file that is cut off keeps.
LEMMA CutFields ==
  ASSUME NEW p, NEW name, NEW body, NEW d
  PROVE  LET cut == Rewritten(Asset(p, name, body), d)
         IN cut.dir = p /\ cut.name = name /\ cut.body = d
<1>1. {"dir", "name", "body"} \subseteq DOMAIN Asset(p, name, body)
  BY AssetShape
<1> QED
  BY <1>1, AssetFields DEF Rewritten

\* In what copying left there is no manifest, if not one that is cut off.
LEMMA PartFields ==
  ASSUME NEW p, NEW r, NEW hashes, Release(hashes), NEW part \in Parts(p, r, hashes),
         NEW a \in part
  PROVE  /\ a.dir = p /\ a.name.platform = p
         /\ a.name.kind = "candidate" => a.body = Cut
<1> DEFINE files == Payloads(p, hashes)
           c == CatalogFile(p, r, hashes)
           m == ManifestFile(p, r, hashes)
<1>1. ASSUME NEW b \in files PROVE b.dir = p /\ b.name.platform = p /\ b.name.kind = "payload"
  BY PayloadFields
<1>2. c.dir = p /\ c.name.platform = p /\ c.name.kind = "catalog"
  BY DescribedFields, NameFields
<1>3. ASSUME NEW b \in files, NEW d PROVE LET x == Rewritten(b, d)
                                         IN x.dir = p /\ x.name = b.name
  <2>1. PICK n \in DOMAIN hashes : b = Asset(p, Name("payload", p, Flat[n]), hashes[n])
    BY EachPayload
  <2> QED
    BY <2>1, CutFields, AssetFields
<1>4. LET x == Rewritten(c, Cut) IN x.dir = p /\ x.name = c.name
  BY CutFields, AssetFields DEF CatalogFile
<1>5. LET x == Rewritten(m, Cut) IN x.dir = p /\ x.name = m.name /\ x.body = Cut
  BY CutFields, AssetFields DEF ManifestFile
<1>6. m.name.platform = p /\ m.name.kind = "candidate"
  BY DescribedFields, NameFields
<1> HIDE DEF files, c, m
<1>7. CASE \E w \in SUBSET files : \E b \in files : part \in FailedAt(w \ {b}, b)
  <2>1. PICK w, b : w \in SUBSET files /\ b \in files /\ part \in FailedAt(w \ {b}, b)
    BY <1>7
  <2>2. a \in w \/ \E d : a = Rewritten(b, d)
    BY <2>1 DEF FailedAt
  <2> QED
    BY <2>1, <2>2, <1>1, <1>3
<1>8. CASE part \in FailedAt(files, c)
  <2>1. a \in files \/ a = Rewritten(c, Cut)
    BY <1>8, <1>2 DEF FailedAt
  <2> QED
    BY <2>1, <1>1, <1>2, <1>4
<1>9. CASE part \in FailedAt(files \cup {c}, m)
  <2>1. a \in files \/ a = c \/ a = Rewritten(m, Cut)
    BY <1>9, <1>6 DEF FailedAt
  <2> QED
    BY <2>1, <1>1, <1>2, <1>5, <1>6
<1> QED
  BY <1>7, <1>8, <1>9 DEF Parts, files, c, m

\* The files that a package run writes are finitely many, whether it fails or not.
LEMMA FiniteWhole ==
  ASSUME NEW p, NEW r, NEW hashes, Release(hashes)
  PROVE  IsFiniteSet(Payloads(p, hashes)) /\ IsFiniteSet(Whole(p, r, hashes))
<1>1. PICK F \in SUBSET Logical : hashes \in [F -> Digests]
  BY DEF Release
<1>2. IsFiniteSet(DOMAIN hashes)
  BY <1>1, FS_Subset, PackagingAssumption
<1> DEFINE Written(n) == Asset(p, Name("payload", p, Flat[n]), hashes[n])
<1>3. Payloads(p, hashes) = {Written(n) : n \in DOMAIN hashes}
  BY EachPayload
<1> HIDE DEF Written
<1> DEFINE write == [n \in DOMAIN hashes |-> Written(n)]
<1>4. IsFiniteSet(Payloads(p, hashes))
  <2>1. write \in Surjection(DOMAIN hashes, Payloads(p, hashes))
    BY <1>3 DEF Surjection
  <2> QED
    BY <1>2, <2>1, FS_Surjection
<1>5. IsFiniteSet({CatalogFile(p, r, hashes)}) /\ IsFiniteSet({ManifestFile(p, r, hashes)})
  BY FS_Singleton
<1>6. IsFiniteSet({CatalogFile(p, r, hashes), ManifestFile(p, r, hashes)})
  BY <1>5, FS_AddElement
<1> QED
  BY <1>3, <1>4, <1>6, FS_Union DEF Whole

LEMMA FinitePart ==
  ASSUME NEW p, NEW r, NEW hashes, Release(hashes), NEW part \in Parts(p, r, hashes)
  PROVE  IsFiniteSet(part)
<1>1. ASSUME NEW w, NEW a, part \in FailedAt(w, a), IsFiniteSet(w) PROVE IsFiniteSet(part)
  <2>1. part = w \/ \E d : part = w \cup {Rewritten(a, d)}
    BY <1>1 DEF FailedAt
  <2> QED
    BY <1>1, <2>1, FS_AddElement
<1>2. IsFiniteSet(Payloads(p, hashes))
  BY FiniteWhole
<1>3. IsFiniteSet(Payloads(p, hashes) \cup {CatalogFile(p, r, hashes)})
  BY <1>2, FS_AddElement
<1>4. \A w \in SUBSET Payloads(p, hashes) : \A a : IsFiniteSet(w \ {a})
  BY <1>2, FS_Subset
<1> DEFINE files == Payloads(p, hashes)
           c == CatalogFile(p, r, hashes)
           m == ManifestFile(p, r, hashes)
<1>5. \/ \E w \in SUBSET files : \E a \in files : part \in FailedAt(w \ {a}, a)
      \/ part \in FailedAt(files, c)
      \/ part \in FailedAt(files \cup {c}, m)
  BY DEF Parts
<1> HIDE DEF files, c, m
<1>6. IsFiniteSet(files) /\ IsFiniteSet(files \cup {c})
      /\ \A w \in SUBSET files : \A a : IsFiniteSet(w \ {a})
  BY <1>2, <1>3, <1>4 DEF files, c
<1> QED
  BY <1>1, <1>5, <1>6

LEMMA TwoPlatforms == \E p, q : p # q /\ Platforms = {p, q}
<1>1. IsFiniteSet(Platforms) /\ Cardinality(Platforms) = 2
  BY PackagingAssumption
<1>2. PICK p : p \in Platforms
  BY <1>1, FS_EmptySet
<1>3. IsFiniteSet(Platforms \ {p}) /\ Cardinality(Platforms \ {p}) = 1
  BY <1>1, <1>2, FS_RemoveElement
<1>4. PICK q : Platforms \ {p} = {q}
  BY <1>3, FS_Singleton
<1> QED
  BY <1>2, <1>4

LEMMA PairCardinality ==
  ASSUME NEW x, NEW y
  PROVE  (x = y => Cardinality({x, y}) = 1) /\ (x # y => Cardinality({x, y}) = 2)
<1>1. {x, y} = {x} \cup {y}
  OBVIOUS
<1>2. IsFiniteSet({x}) /\ Cardinality({x}) = 1
  BY FS_Singleton
<1> QED
  BY <1>1, <1>2, FS_AddElement
-----------------------------------------------------------------------------
(* What combine accepts.                                                   *)

\* What untouched directories hold, kind by kind.
LEMMA UntouchedFiles ==
  ASSUME PackagedInv, MadeInv, touched = 0, NEW a \in assets
  PROVE  LET p == a.dir
         IN /\ p \in Platforms /\ a.name.platform = p
            /\ \/ /\ made[p] = NoRun
                  /\ a.name.kind = "candidate" => a.body = Cut
               \/ /\ made[p] # NoRun
                  /\ a \in Whole(p, made[p].revision, made[p].hashes)
<1> DEFINE p == a.dir
<1>1. p \in Platforms /\ Packaged(p) /\ a \in In(p)
  BY DEF PackagedInv, In
<1> HIDE DEF p
<1>2. ASSUME made[p] = NoRun, NEW r \in Revisions, NEW hashes \in Hashes, Release(hashes),
             In(p) \in Parts(p, r, hashes)
      PROVE  a.name.platform = p /\ (a.name.kind = "candidate" => a.body = Cut)
  BY <1>1, <1>2, PartFields
<1>3. ASSUME made[p] # NoRun, In(p) = Whole(p, made[p].revision, made[p].hashes)
      PROVE  /\ a.name.platform = p
             /\ a \in Whole(p, made[p].revision, made[p].hashes)
  BY <1>1, <1>3, WholeFields
<1> QED
  BY <1>1, <1>2, <1>3 DEF Packaged, p

\* Where a readable manifest is, package has come to its end.
LEMMA ManifestIsLast ==
  ASSUME PackagedInv, MadeInv, touched = 0, NEW a \in assets,
         a.name.kind = "candidate", a.body # Cut
  PROVE  LET p == a.dir
         IN /\ p \in Platforms /\ a.name.platform = p /\ made[p] # NoRun
            /\ a.body.revision = made[p].revision
<1> DEFINE p == a.dir
<1>1. /\ p \in Platforms /\ a.name.platform = p /\ made[p] # NoRun
      /\ a \in Whole(p, made[p].revision, made[p].hashes)
  BY UntouchedFiles
<1> HIDE DEF p
<1>2. a.body = Manifest(p, made[p].revision, made[p].hashes)
  BY <1>1, WholeFields, DescribedFields
<1> QED
  BY <1>1, <1>2, RecipeFields DEF p

LEMMA FilesFinite ==
  ASSUME IsFiniteSet(assets), NEW kind PROVE IsFiniteSet(Files(kind))
<1>1. Files(kind) \subseteq assets
  BY DEF Files
<1> QED
  BY <1>1, FS_Subset

LEMMA AcceptedIsMatching ==
  ASSUME PackagedInv, MadeInv, touched = 0, Acceptable PROVE Matching
<1>1. ASSUME NEW p \in Platforms
      PROVE  \E a \in Files("candidate") : a.dir = p /\ a.body.revision = made[p].revision
                                          /\ made[p] # NoRun
  <2>1. Name("candidate", p, NoFlat) \in {a.name : a \in assets}
    BY DEF Acceptable, Expected
  <2>2. PICK a \in assets : a.name = Name("candidate", p, NoFlat)
    BY <2>1
  <2>3. a \in Files("candidate") /\ a.name.kind = "candidate" /\ a.name.platform = p
    BY <2>2, NameFields DEF Files
  <2>4. a.body # Cut
    BY <2>3 DEF Acceptable, Readable
  <2> QED
    BY <2>3, <2>4, ManifestIsLast
<1>2. PICK p, q : p # q /\ Platforms = {p, q}
  BY TwoPlatforms
<1>3. {a.body.revision : a \in Files("candidate")} = {made[p].revision, made[q].revision}
  <2>1. ASSUME NEW a \in Files("candidate")
        PROVE  a.body.revision \in {made[p].revision, made[q].revision}
    <3>1. a \in assets /\ a.name.kind = "candidate" /\ a.body # Cut
      BY DEF Files, Acceptable, Readable
    <3> QED
      BY <3>1, <1>2, ManifestIsLast
  <2> QED
    BY <1>1, <1>2, <2>1
<1>4. made[p].revision = made[q].revision
  <2>1. Cardinality({made[p].revision, made[q].revision}) = 1
    BY <1>3 DEF Acceptable, OneRevision
  <2>2. made[p].revision # made[q].revision
          => Cardinality({made[p].revision, made[q].revision}) = 2
    BY PairCardinality, Zenon
  <2> QED
    BY <2>1, <2>2
<1>5. made[p].revision \in Revisions
  BY <1>1, <1>2 DEF MadeInv
<1>6. PICK a \in assets : a.name = Name("catalog", p, NoFlat)
  BY <1>2 DEF Acceptable, Expected
<1>7. /\ a.name.kind = "catalog" /\ a.name.platform = p /\ a.dir = p
      /\ a \in Whole(p, made[p].revision, made[p].hashes)
  BY <1>1, <1>2, <1>6, NameFields, UntouchedFiles
<1>8. a.body.release = ReleaseOf[made[p].revision]
  BY <1>7, WholeFields, DescribedFields, RecipeFields
<1>9. a.body.release = ReleaseOf[Head]
  BY <1>7 DEF Acceptable, OwnRecipe, Recipes, Files
<1> QED
  BY <1>1, <1>2, <1>4, <1>5, <1>8, <1>9 DEF Matching
\* No two files of completed directories have one name.
LEMMA UntouchedDistinct ==
  ASSUME PackagedInv, MadeInv, touched = 0, \A p \in Platforms : made[p] # NoRun
  PROVE  NoDuplicates
<1> SUFFICES ASSUME NEW a \in assets, NEW b \in assets, a.name = b.name PROVE a = b
  BY DEF NoDuplicates
<1> DEFINE x == a.dir
           r == made[x].revision
           hashes == made[x].hashes
<1>1. a.dir = b.dir /\ x \in Platforms
  BY UntouchedFiles
<1>2. Release(hashes)
  BY <1>1 DEF MadeInv
<1>3. a \in Whole(x, r, hashes) /\ b \in Whole(x, r, hashes)
  BY <1>1, UntouchedFiles
<1> HIDE DEF x, r, hashes
<1>4. CASE a \in Payloads(x, hashes) /\ b \in Payloads(x, hashes)
  <2>1. PICK n \in DOMAIN hashes : a = Asset(x, Name("payload", x, Flat[n]), hashes[n])
    BY <1>2, <1>4, EachPayload
  <2>2. PICK m \in DOMAIN hashes : b = Asset(x, Name("payload", x, Flat[m]), hashes[m])
    BY <1>2, <1>4, EachPayload
  <2>3. Flat[n] = Flat[m]
    BY <2>1, <2>2, AssetFields, NameFields
  <2>4. n = m
    BY <1>2, <2>3 DEF Release, Collide
  <2> QED
    BY <2>1, <2>2, <2>4
<1> QED
  BY <1>3, <1>4, WholeFields, DescribedFields, NameFields

LEMMA MatchingIsAccepted ==
  ASSUME PackagedInv, MadeInv, touched = 0, Matching PROVE Acceptable
<1>1. PICK r \in Revisions :
        /\ ReleaseOf[r] = ReleaseOf[Head]
        /\ \A p \in Platforms : made[p] # NoRun /\ made[p].revision = r
  BY DEF Matching
<1> DEFINE H(p) == made[p].hashes
<1>2. \A p \in Platforms : /\ Release(H(p)) /\ H(p) \in Hashes
                           /\ In(p) = Whole(p, r, H(p))
  BY <1>1 DEF PackagedInv, MadeInv, Packaged
<1> HIDE DEF H
<1>3. ASSUME NEW a \in assets PROVE a.dir \in Platforms /\ a \in Whole(a.dir, r, H(a.dir))
  BY <1>2 DEF PackagedInv, In
<1>4. ASSUME NEW p \in Platforms, NEW a \in Whole(p, r, H(p)) PROVE a \in assets
  BY <1>2, <1>4 DEF In
<1>5. \A p \in Platforms : /\ CatalogFile(p, r, H(p)) \in assets
                           /\ ManifestFile(p, r, H(p)) \in assets
  BY <1>4 DEF Whole
<1>6. Files("catalog") = {CatalogFile(p, r, H(p)) : p \in Platforms}
  BY <1>3, <1>5, WholeFields, DescribedFields, NameFields DEF Files
<1>7. Files("candidate") = {ManifestFile(p, r, H(p)) : p \in Platforms}
  BY <1>3, <1>5, WholeFields, DescribedFields, NameFields DEF Files
<1>8. Recipes = {Recipe(p, r, H(p)) : p \in Platforms}
  BY <1>6, DescribedFields DEF Recipes
<1>9. PICK p, q : p # q /\ Platforms = {p, q}
  BY TwoPlatforms
<1>10. BothPlatforms
  <2>1. CatalogFile(p, r, H(p)) # CatalogFile(q, r, H(q))
    BY <1>9, DescribedFields
  <2>2. Files("catalog") = {CatalogFile(p, r, H(p)), CatalogFile(q, r, H(q))}
    BY <1>6, <1>9
  <2>3. {x.platform : x \in Recipes} = Platforms
    BY <1>8, RecipeFields
  <2>4. Cardinality({CatalogFile(p, r, H(p)), CatalogFile(q, r, H(q))}) = 2
    BY <2>1, PairCardinality, Zenon
  <2> QED
    BY <2>2, <2>3, <2>4 DEF BothPlatforms
<1>11. OneRevision
  <2>1. ManifestFile(p, r, H(p)) # ManifestFile(q, r, H(q))
    BY <1>9, DescribedFields
  <2>2. Files("candidate") = {ManifestFile(p, r, H(p)), ManifestFile(q, r, H(q))}
    BY <1>7, <1>9
  <2>3. {a.body.revision : a \in Files("candidate")} = {r}
    BY <2>2, DescribedFields, RecipeFields
  <2>4. Cardinality({ManifestFile(p, r, H(p)), ManifestFile(q, r, H(q))}) = 2
    BY <2>1, PairCardinality, Zenon
  <2>5. Cardinality({r}) = 1
    BY FS_Singleton
  <2> QED
    BY <2>2, <2>3, <2>4, <2>5 DEF OneRevision
<1>12. NoDuplicates
  BY <1>1, UntouchedDistinct
<1>13. ASSUME NEW x \in Platforms, NEW n \in DOMAIN H(x)
       PROVE  Served(Download(x, n, H(x)[n]))
  <2>1. Asset(x, Name("payload", x, Flat[n]), H(x)[n]) \in assets
    BY <1>2, <1>4, <1>13, EachPayload DEF Whole
  <2> QED
    BY <2>1, AssetFields, DownloadFields DEF Served
<1>14. \A x \in Recipes : OwnRecipe(x)
  BY <1>1, <1>8, <1>13, RecipeFields DEF OwnRecipe
<1>15. ASSUME NEW a \in assets
       PROVE  a.name \in Described \cup {Name(k, p1, NoFlat) : k \in {"catalog", "candidate"},
                                                              p1 \in Platforms}
  <2> DEFINE x == a.dir
  <2>1. x \in Platforms /\ a \in Whole(x, r, H(x))
    BY <1>3
  <2> HIDE DEF x
  <2>2. CASE a \in Payloads(x, H(x))
    <3>1. PICK n \in DOMAIN H(x) : a = Asset(x, Name("payload", x, Flat[n]), H(x)[n])
      BY <1>2, <2>1, <2>2, EachPayload
    <3>2. Recipe(x, r, H(x)) \in Recipes
      BY <1>8, <2>1
    <3>3. a.name = Recipe(x, r, H(x)).downloads[n].name
      BY <3>1, AssetFields, RecipeFields, DownloadFields
    <3>4. n \in DOMAIN Recipe(x, r, H(x)).downloads
      BY <3>1, RecipeFields
    <3> QED
      BY <3>2, <3>3, <3>4 DEF Described
  <2>3. CASE a = CatalogFile(x, r, H(x)) \/ a = ManifestFile(x, r, H(x))
    BY <2>1, <2>3, DescribedFields
  <2> QED
    BY <2>1, <2>2, <2>3 DEF Whole
<1>16. Described \subseteq {a.name : a \in assets}
  <2> SUFFICES ASSUME NEW x \in Platforms, NEW n \in DOMAIN H(x)
               PROVE  Recipe(x, r, H(x)).downloads[n].name \in {a.name : a \in assets}
    BY <1>8, RecipeFields DEF Described
  <2>1. Recipe(x, r, H(x)).downloads[n] = Download(x, n, H(x)[n])
    BY RecipeFields
  <2> QED
    BY <1>13, <2>1 DEF Served
<1>17. Expected
  <2>1. ASSUME NEW k \in {"catalog", "candidate"}, NEW x \in Platforms
        PROVE  Name(k, x, NoFlat) \in {a.name : a \in assets}
    BY <1>5, DescribedFields
  <2>2. \A a \in assets : ~a.linked
    BY <1>3, WholeFields
  <2> QED
    BY <1>15, <1>16, <2>1, <2>2 DEF Expected
<1>18. Readable
  <2>1. \A x \in Platforms : Recipe(x, r, H(x)) # Cut /\ Manifest(x, r, H(x)) # Cut
    BY <1>1, <1>2, CutAssumption
  <2> QED
    BY <1>6, <1>7, <2>1, DescribedFields DEF Readable
<1> QED
  BY <1>10, <1>11, <1>12, <1>14, <1>17, <1>18 DEF Acceptable
-----------------------------------------------------------------------------
(* What combine publishes.                                                 *)

LEMMA PublishedFields ==
  ASSUME NEW a PROVE Published(a).name = a.name /\ Published(a).body = a.body
BY DEF Published

LEMMA RevisionsAgree ==
  ASSUME IsFiniteSet(assets), OneRevision, NEW a \in Files("candidate"), NEW b \in Files("candidate")
  PROVE  a.body.revision = b.body.revision
<1> DEFINE revisions == {x.body.revision : x \in Files("candidate")}
           read == [x \in Files("candidate") |-> x.body.revision]
<1>1. read \in Surjection(Files("candidate"), revisions)
  BY DEF Surjection
<1>2. IsFiniteSet(revisions)
  BY <1>1, FilesFinite, FS_Surjection
<1>3. PICK r : revisions = {r}
  BY <1>2, FS_Singleton DEF OneRevision
<1> QED
  BY <1>3

\* There is no catalog and no manifest but those of the platforms.
LEMMA TwoFiles ==
  ASSUME IsFiniteSet(assets), Expected, NEW k \in {"catalog", "candidate"},
         Cardinality(Files(k)) = 2, NEW a \in Files(k)
  PROVE  \E p \in Platforms : a.name = Name(k, p, NoFlat)
<1>1. PICK p, q : p # q /\ Platforms = {p, q}
  BY TwoPlatforms
<1>2. \A x \in Platforms : \E b \in assets : b.name = Name(k, x, NoFlat)
  BY DEF Expected
<1>3. PICK b, c : /\ b \in assets /\ b.name = Name(k, p, NoFlat)
                  /\ c \in assets /\ c.name = Name(k, q, NoFlat)
  BY <1>1, <1>2
<1>4. b # c /\ {b, c} \subseteq Files(k)
  BY <1>1, <1>3, NameFields DEF Files
<1>5. Cardinality({b, c}) = 2
  BY <1>4, PairCardinality, Zenon
<1>6. {b, c} = Files(k)
  BY <1>4, <1>5, FilesFinite, FS_Subset
<1> QED
  BY <1>1, <1>3, <1>6

LEMMA AcceptedIsChecked ==
  ASSUME IsFiniteSet(assets), Acceptable
  PROVE  Checked({Published(a) : a \in assets})
<1> DEFINE O == {Published(a) : a \in assets}
<1>1. \A x \in O : \E a \in assets : x = Published(a) /\ x.name = a.name /\ x.body = a.body
  BY PublishedFields
<1>2. \A a \in assets : \E x \in O : x = Published(a) /\ x.name = a.name /\ x.body = a.body
  BY PublishedFields
<1> HIDE DEF O
<1>3. DistinctNames(O)
  BY <1>1 DEF DistinctNames, Acceptable, NoDuplicates
<1>4. Links(O) = Described
  <2>1. ASSUME NEW x \in O, x.name.kind = "catalog" PROVE x.body \in Recipes
    BY <1>1, <2>1 DEF Recipes, Files
  <2>2. ASSUME NEW r \in Recipes PROVE \E x \in O : x.name.kind = "catalog" /\ x.body = r
    BY <1>2 DEF Recipes, Files
  <2>3. Links(O) \subseteq Described
    <3> SUFFICES ASSUME NEW l \in Links(O) PROVE l \in Described
      OBVIOUS
    <3>1. PICK x \in O : /\ x.name.kind = "catalog"
                         /\ \E n \in DOMAIN x.body.downloads : l = x.body.downloads[n].name
      BY DEF Links
    <3> QED
      BY <2>1, <3>1 DEF Described
  <2>4. Described \subseteq Links(O)
    <3> SUFFICES ASSUME NEW l \in Described PROVE l \in Links(O)
      OBVIOUS
    <3>1. PICK r \in Recipes : \E n \in DOMAIN r.downloads : l = r.downloads[n].name
      BY DEF Described
    <3> QED
      BY <2>2, <3>1 DEF Links
  <2> QED
    BY <2>3, <2>4
<1>5. {x.name : x \in O} = {a.name : a \in assets}
  BY <1>1, <1>2
<1>6. AllNamed(O)
  BY <1>4, <1>5 DEF AllNamed, Acceptable, Expected
<1>7. AllServed(O)
  <2> SUFFICES ASSUME NEW x \in O, x.name.kind = "catalog"
               PROVE  /\ x.body.release = ReleaseOf[Head]
                      /\ \A n \in DOMAIN x.body.downloads :
                           \E y \in O : /\ y.name = x.body.downloads[n].name
                                        /\ y.body = x.body.downloads[n].digest
    BY DEF AllServed
  <2>1. x.body \in Recipes
    BY <1>1 DEF Recipes, Files
  <2>2. OwnRecipe(x.body)
    BY <2>1 DEF Acceptable
  <2> QED
    BY <1>2, <2>2 DEF OwnRecipe, Served
<1>8. SameRevision(O)
  <2> SUFFICES ASSUME NEW x \in O, NEW y \in O,
                      x.name.kind = "candidate", y.name.kind = "candidate"
               PROVE  x.body.revision = y.body.revision
    BY DEF SameRevision
  <2>1. PICK a \in assets, b \in assets : /\ x.name = a.name /\ x.body = a.body
                                         /\ y.name = b.name /\ y.body = b.body
    BY <1>1
  <2>2. a \in Files("candidate") /\ b \in Files("candidate")
    BY <2>1 DEF Files
  <2> QED
    BY <2>1, <2>2, RevisionsAgree DEF Acceptable
<1>9. TwoOfAKind(O)
  <2> SUFFICES ASSUME NEW x \in O, x.name.kind \in {"catalog", "candidate"}
               PROVE  \E p \in Platforms : x.name = Name(x.name.kind, p, NoFlat)
    BY DEF TwoOfAKind
  <2>1. PICK a \in assets : x.name = a.name
    BY <1>1
  <2>2. a \in Files(x.name.kind)
    BY <2>1 DEF Files
  <2>3. Cardinality(Files(x.name.kind)) = 2
    BY DEF Acceptable, BothPlatforms, OneRevision
  <2> QED
    BY <2>1, <2>2, <2>3, TwoFiles DEF Acceptable
<1>10. NamedBodies(O)
  BY <1>1 DEF NamedBodies, Published
<1> QED
  BY <1>3, <1>6, <1>7, <1>8, <1>9, <1>10 DEF Checked, O

\* The files of p that are published as package wrote them.
LEMMA GenuineCatalog ==
  ASSUME MadeInv, NEW p \in Platforms, Genuine(p, CatalogFile)
  PROVE  /\ made[p] # NoRun /\ Release(made[p].hashes) /\ made[p].revision \in Revisions
         /\ \E x \in output : /\ x.name = Name("catalog", p, NoFlat) /\ x.name.kind = "catalog"
                              /\ x.body = Recipe(p, made[p].revision, made[p].hashes)
<1> DEFINE f == CatalogFile(p, made[p].revision, made[p].hashes)
<1>1. made[p] # NoRun /\ Published(f) \in output
  BY DEF Genuine
<1>2. f.name = Name("catalog", p, NoFlat) /\ f.body = Recipe(p, made[p].revision, made[p].hashes)
  BY DescribedFields
<1> QED
  BY <1>1, <1>2, PublishedFields, NameFields DEF MadeInv

LEMMA GenuineManifest ==
  ASSUME NEW p \in Platforms, Genuine(p, ManifestFile)
  PROVE  \E x \in output : /\ x.name = Name("candidate", p, NoFlat) /\ x.name.kind = "candidate"
                           /\ x.body = Manifest(p, made[p].revision, made[p].hashes)
<1> DEFINE f == ManifestFile(p, made[p].revision, made[p].hashes)
<1>1. Published(f) \in output
  BY DEF Genuine
<1>2. f.name = Name("candidate", p, NoFlat)
      /\ f.body = Manifest(p, made[p].revision, made[p].hashes)
  BY DescribedFields
<1> QED
  BY <1>1, <1>2, PublishedFields, NameFields

LEMMA CatalogBringsPayloads ==
  ASSUME MadeInv, Checked(output), NEW p \in Platforms, Genuine(p, CatalogFile)
  PROVE  PayloadsOf(p) \subseteq output
<1> DEFINE hashes == made[p].hashes
<1>1. PICK c \in output : c.name.kind = "catalog" /\ c.body = Recipe(p, made[p].revision, hashes)
  BY GenuineCatalog
<1>2. Release(hashes)
  BY GenuineCatalog
<1> SUFFICES ASSUME NEW a \in Payloads(p, hashes) PROVE Published(a) \in output
  BY DEF PayloadsOf
<1>3. PICK n \in DOMAIN hashes : a = Asset(p, Name("payload", p, Flat[n]), hashes[n])
  BY <1>2, EachPayload
<1>4. c.body.downloads[n] = Download(p, n, hashes[n]) /\ n \in DOMAIN c.body.downloads
  BY <1>1, <1>3, RecipeFields
<1>5. PICK y \in output : /\ y.name = c.body.downloads[n].name
                          /\ y.body = c.body.downloads[n].digest
  BY <1>1, <1>4 DEF Checked, AllServed
<1>6. y.name = Published(a).name /\ y.body = Published(a).body
  BY <1>3, <1>4, <1>5, AssetFields, DownloadFields, PublishedFields
<1> QED
  BY <1>6 DEF Checked, NamedBodies, Published

LEMMA GenuineIsMatching ==
  ASSUME MadeInv, Checked(output),
         \A p \in Platforms : Genuine(p, CatalogFile) /\ Genuine(p, ManifestFile)
  PROVE  Matching
<1>1. PICK p : p \in Platforms
  BY TwoPlatforms
<1>2. \A x \in Platforms : \E m \in output :
        m.name.kind = "candidate" /\ m.body.revision = made[x].revision
  BY GenuineManifest, RecipeFields
<1>3. \A x \in Platforms : made[x].revision = made[p].revision
  BY <1>1, <1>2 DEF Checked, SameRevision
<1>4. PICK c \in output : /\ c.name.kind = "catalog"
                          /\ c.body = Recipe(p, made[p].revision, made[p].hashes)
  BY <1>1, GenuineCatalog
<1>5. ReleaseOf[made[p].revision] = ReleaseOf[Head]
  BY <1>4, RecipeFields DEF Checked, AllServed
<1>6. made[p].revision \in Revisions /\ \A x \in Platforms : made[x] # NoRun
  BY <1>1, GenuineCatalog
<1> QED
  BY <1>3, <1>5, <1>6 DEF Matching

LEMMA GenuineIsAll ==
  ASSUME MadeInv, Checked(output),
         \A p \in Platforms : Genuine(p, CatalogFile) /\ Genuine(p, ManifestFile)
  PROVE  output = UNION {AllOf(p) : p \in Platforms}
<1> DEFINE r(p) == made[p].revision
           h(p) == made[p].hashes
<1>1. ASSUME NEW p \in Platforms
      PROVE  /\ Published(CatalogFile(p, r(p), h(p))) \in output
             /\ Published(ManifestFile(p, r(p), h(p))) \in output
             /\ PayloadsOf(p) \subseteq output
  BY CatalogBringsPayloads DEF Genuine
<1>2. ASSUME NEW p \in Platforms
      PROVE  AllOf(p) = PayloadsOf(p) \cup {Published(CatalogFile(p, r(p), h(p))),
                                           Published(ManifestFile(p, r(p), h(p)))}
  BY DEF AllOf, PayloadsOf, Whole
<1>3. \A p \in Platforms : AllOf(p) \subseteq output
  BY <1>1, <1>2
<1>4. ASSUME NEW x \in output, NEW p \in Platforms, NEW f \in {"catalog", "candidate"},
             x.name = Name(f, p, NoFlat)
      PROVE  x \in AllOf(p)
  <2>1. /\ Published(CatalogFile(p, r(p), h(p))).name = Name("catalog", p, NoFlat)
        /\ Published(ManifestFile(p, r(p), h(p))).name = Name("candidate", p, NoFlat)
    BY DescribedFields, PublishedFields
  <2>2. x = Published(CatalogFile(p, r(p), h(p))) \/ x = Published(ManifestFile(p, r(p), h(p)))
    BY <1>1, <1>4, <2>1 DEF Checked, DistinctNames
  <2> QED
    BY <1>2, <2>2
<1>5. ASSUME NEW x \in output, x.name \in Links(output) PROVE \E p \in Platforms : x \in AllOf(p)
  <2>1. PICK z \in output : /\ z.name.kind = "catalog"
                            /\ \E n \in DOMAIN z.body.downloads : x.name = z.body.downloads[n].name
    BY <1>5 DEF Links
  <2>2. PICK p \in Platforms : z.name = Name("catalog", p, NoFlat)
    BY <2>1 DEF Checked, TwoOfAKind
  <2>3. z = Published(CatalogFile(p, r(p), h(p)))
    <3>1. Published(CatalogFile(p, r(p), h(p))).name = z.name
      BY <2>2, DescribedFields, PublishedFields
    <3> QED
      BY <1>1, <3>1 DEF Checked, DistinctNames
  <2>4. z.body = Recipe(p, r(p), h(p))
    BY <2>3, DescribedFields, PublishedFields
  <2>5. PICK n \in DOMAIN z.body.downloads : x.name = z.body.downloads[n].name
    BY <2>1
  <2>6. n \in DOMAIN h(p) /\ x.name = Name("payload", p, Flat[n])
    BY <2>4, <2>5, RecipeFields, DownloadFields
  <2> DEFINE a == Asset(p, Name("payload", p, Flat[n]), h(p)[n])
  <2>7. Release(h(p))
    BY GenuineCatalog
  <2>8. a \in Payloads(p, h(p))
    BY <2>6, <2>7, EachPayload
  <2>9. Published(a).name = x.name /\ Published(a) \in PayloadsOf(p)
    BY <2>6, <2>8, AssetFields, PublishedFields DEF PayloadsOf
  <2>10. x = Published(a)
    BY <1>1, <2>9 DEF Checked, DistinctNames
  <2> QED
    BY <1>2, <2>9, <2>10
<1>6. ASSUME NEW x \in output PROVE \E p \in Platforms : x \in AllOf(p)
  <2>1. x.name \in {y.name : y \in output}
    OBVIOUS
  <2>2. x.name \in Links(output) \/ \E f \in {"catalog", "candidate"}, p \in Platforms :
                                      x.name = Name(f, p, NoFlat)
    BY <2>1 DEF Checked, AllNamed
  <2> QED
    BY <1>4, <1>5, <2>2
<1> QED
  BY <1>3, <1>6
-----------------------------------------------------------------------------
(* The invariant.                                                          *)

LEMMA SameOutput ==
  ASSUME output' = output, Checked(output) PROVE Checked(output)'
<1>1. DistinctNames(output)'
  BY DEF Checked, DistinctNames
<1>2. Links(output)' = Links(output)
  BY DEF Links
<1>3. AllNamed(output)'
  BY <1>2 DEF Checked, AllNamed
<1>4. AllServed(output)'
  BY DEF Checked, AllServed
<1>5. SameRevision(output)' /\ TwoOfAKind(output)' /\ NamedBodies(output)'
  BY DEF Checked, SameRevision, TwoOfAKind, NamedBodies
<1> QED
  BY <1>1, <1>3, <1>4, <1>5 DEF Checked

LEMMA PackageStep ==
  ASSUME IInv, NEW p \in Platforms, NEW r \in Revisions, NEW F \in SUBSET Logical,
         Package(p, r, F)
  PROVE  IInv'
<1>1. PICK hashes \in [F -> Digests] :
  /\ p \notin dirs /\ F # {} /\ Refs \subseteq F /\ ~Collide(F)
  /\ dirs' = dirs \cup {p}
  /\ \/ /\ assets' = assets \cup Whole(p, r, hashes)
        /\ made' = [made EXCEPT ![p] = [revision |-> r, hashes |-> hashes]]
     \/ /\ \E part \in Parts(p, r, hashes) : assets' = assets \cup part
        /\ UNCHANGED made
  /\ UNCHANGED <<touched, outputVars>>
  BY DEF Package
<1>2. Release(hashes) /\ hashes \in Hashes
  BY <1>1 DEF Release, Hashes
<1>3. touched' = touched /\ assembled' = assembled /\ output' = output
  BY <1>1 DEF outputVars
<1>4. (assembled = "all" => Checked(output))'
  BY <1>3, SameOutput DEF IInv
<1>5. PICK new : /\ assets' = assets \cup new
                 /\ \/ /\ new = Whole(p, r, hashes)
                       /\ made' = [made EXCEPT ![p] = [revision |-> r, hashes |-> hashes]]
                    \/ new \in Parts(p, r, hashes) /\ made' = made
  BY <1>1
<1>6. IsFiniteSet(new) /\ \A a \in new : a.dir = p
  BY <1>2, <1>5, FiniteWhole, FinitePart, WholeFields, PartFields
<1>7. MadeInv'
  <2>1. CASE made' = made
    BY <2>1 DEF IInv, MadeInv
  <2>2. CASE made' = [made EXCEPT ![p] = [revision |-> r, hashes |-> hashes]]
    <3>1. /\ made' \in [Platforms -> [revision : Revisions, hashes : Hashes] \cup {NoRun}]
          /\ made'[p].hashes = hashes /\ \A q \in Platforms \ {p} : made'[q] = made[q]
      BY <1>2, <2>2 DEF IInv, MadeInv
    <3> QED
      BY <1>2, <3>1 DEF IInv, MadeInv
  <2> QED
    BY <1>5, <2>1, <2>2
<1>8. PackagedInv'
  <2>1. IsFiniteSet(assets')
    BY <1>5, <1>6, FS_Union DEF IInv, PackagedInv
  <2> SUFFICES ASSUME touched = 0
               PROVE  /\ \A a \in assets' : a.dir \in Platforms
                      /\ \A q \in Platforms : Packaged(q)'
    BY <1>3, <2>1 DEF IInv, PackagedInv
  <2>2. (\A a \in assets : a.dir \in Platforms) /\ \A q \in Platforms : Packaged(q)
    BY DEF IInv, PackagedInv
  <2>3. \A a \in assets' : a.dir \in Platforms
    BY <1>5, <1>6, <2>2
  <2>4. In(p) = {} /\ made[p] = NoRun
    BY <1>1, <2>2 DEF Packaged
  <2>5. In(p)' = new
    BY <1>5, <1>6, <2>4 DEF In
  <2>6. ASSUME NEW q \in Platforms \ {p} PROVE Packaged(q)'
    <3>1. In(q)' = In(q) /\ made'[q] = made[q] /\ (q \in dirs' <=> q \in dirs)
      BY <1>1, <1>5, <1>6 DEF In, IInv, MadeInv
    <3> QED
      BY <2>2, <3>1 DEF Packaged
  <2>7. Packaged(p)'
    <3>1. CASE new \in Parts(p, r, hashes) /\ made' = made
      BY <1>1, <1>2, <2>4, <2>5, <3>1 DEF Packaged
    <3>2. CASE /\ new = Whole(p, r, hashes)
               /\ made' = [made EXCEPT ![p] = [revision |-> r, hashes |-> hashes]]
      <4>1. made'[p] = [revision |-> r, hashes |-> hashes]
        BY <3>2 DEF IInv, MadeInv
      <4>2. made'[p] # NoRun
        BY <1>2, <4>1, NoRunAssumption
      <4> QED
        BY <1>1, <2>5, <3>2, <4>1, <4>2 DEF Packaged
    <3> QED
      BY <1>5, <3>1, <3>2
  <2> QED
    BY <2>3, <2>6, <2>7
<1> QED
  BY <1>4, <1>7, <1>8 DEF IInv

\* Whatever happens to the directories, if it happens once it is seen, and nothing is published yet.
LEMMA TouchStep ==
  ASSUME IInv, NEW changed, IsFiniteSet(changed), Touch(changed) PROVE IInv'
<1>1. /\ assembled' = "none" /\ made' = made /\ assets' = changed
      /\ touched' = touched + 1 /\ touched \in Nat
  BY DEF Touch, outputVars, IInv, PackagedInv
<1>2. PackagedInv'
  BY <1>1 DEF PackagedInv
<1>3. MadeInv'
  BY <1>1 DEF IInv, MadeInv
<1> QED
  BY <1>1, <1>2, <1>3 DEF IInv

LEMMA TamperStep ==
  ASSUME IInv, Tamper PROVE IInv'
<1>1. \E x, y : Touch((assets \ {x}) \cup {y}) \/ Touch(assets \cup {y}) \/ Touch(assets \ {x})
  BY DEF Tamper, Edited, Linked, Lost, Copied, Private
<1>2. ASSUME NEW x, NEW y
      PROVE  /\ IsFiniteSet((assets \ {x}) \cup {y}) /\ IsFiniteSet(assets \cup {y})
             /\ IsFiniteSet(assets \ {x})
  BY FS_AddElement, FS_RemoveElement DEF IInv, PackagedInv
<1> QED
  BY <1>1, <1>2, TouchStep

LEMMA CombineStep ==
  ASSUME IInv, Combine PROVE IInv'
<1>1. /\ Acceptable /\ UNCHANGED <<dirs, assets, made, touched>>
      /\ \/ assembled' = "all" /\ output' = {Published(a) : a \in assets}
         \/ assembled' = "part"
  BY DEF Combine, candidateVars
<1>2. MadeInv' /\ PackagedInv'
  BY <1>1 DEF IInv, MadeInv, PackagedInv, Packaged, In
<1>3. assembled' = "all" => Checked(output')
  BY <1>1, AcceptedIsChecked DEF IInv, PackagedInv
<1> QED
  BY <1>2, <1>3 DEF IInv, Checked, DistinctNames, AllNamed, Links, AllServed, SameRevision,
                    TwoOfAKind, NamedBodies

LEMMA InvInit == Init => IInv
<1> SUFFICES ASSUME Init PROVE IInv
  OBVIOUS
<1>1. MadeInv
  BY DEF Init, MadeInv
<1>2. PackagedInv
  BY FS_EmptySet DEF Init, PackagedInv, Packaged, In
<1> QED
  BY <1>1, <1>2 DEF Init, IInv

LEMMA InvStep == IInv /\ [Next]_vars => IInv'
<1> SUFFICES ASSUME IInv, [Next]_vars PROVE IInv'
  OBVIOUS
<1>1. ASSUME NEW p \in Platforms, NEW r \in Revisions, NEW F \in SUBSET Logical,
             Package(p, r, F)
      PROVE  IInv'
  BY <1>1, PackageStep
<1>2. CASE Tamper
  BY <1>2, TamperStep
<1>3. CASE Combine
  BY <1>3, CombineStep
<1>4. CASE UNCHANGED vars
  BY <1>4, SameOutput DEF vars, IInv, MadeInv, PackagedInv, Packaged, In
<1> QED
  BY <1>1, <1>2, <1>3, <1>4 DEF Next

LEMMA InvAlways == Spec => []IInv
BY InvInit, InvStep, PTL DEF Spec

\* However often and whatever is changed in the directories: a published catalog that is as package
\* wrote it comes with all its payloads unaltered, and if the catalogs and manifests are, all that
\* is published is what package wrote, from one revision of combine's release.
THEOREM GenuinePublished == Spec => []PublishedIsGenuine
<1>1. IInv => PublishedIsGenuine
  BY CatalogBringsPayloads, GenuineIsMatching, GenuineIsAll DEF IInv, PublishedIsGenuine
<1> QED
  BY <1>1, InvAlways, PTL

\* combine accepts untouched directories exactly if both were completed from one revision of its
\* release: it refuses what a failed copying left, and no file, name or content that package lets
\* through makes it refuse what package wrote.
THEOREM PackagedAccepted == Spec => []PackagedIsAccepted
<1>1. IInv => PackagedIsAccepted
  BY AcceptedIsMatching, MatchingIsAccepted DEF IInv, PackagedIsAccepted
<1> QED
  BY <1>1, InvAlways, PTL
=============================================================================
