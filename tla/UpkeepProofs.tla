---------------------------- MODULE UpkeepProofs ----------------------------
(***************************************************************************)
(* What the site serves of a project's posts is what was recorded of them,  *)
(* for any paths, slugs and bodies; a republish nobody disturbed leaves the *)
(* whole site on the new schema, for any checkouts and projects; and a      *)
(* unified build serves every project's posts and leaves the docs trees as  *)
(* it found them, for any projects, versions and locales.                   *)
(***************************************************************************)
EXTENDS Posts, Rollout, UnifiedSite, TLAPS

PostRecords == [slug : Slugs, body : Bodies, status : Statuses]
Histories == [Slugs -> Seq(Bodies)]

TypeInv ==
    /\ posts \in [Paths -> PostRecords \cup {None}]
    /\ revisions \in Histories
    /\ live \in [Slugs -> Bodies \cup {None}]
    /\ sent \in [revisions : Histories, slugs : SUBSET Slugs]
    /\ publishing.at \in {"idle", "recorded", "built"}

LatestIs(histories, slug, body) == histories[slug] # <<>> /\ Last(histories[slug]) = body

\* While a publish runs, each post it found has a slug of its own and its body
\* is the latest revision of that slug.
PublishInv ==
    publishing.at # "idle" =>
        /\ publishing.found = publishedPosts
        /\ Refusals(FALSE) = {}
        /\ \A path \in publishedPosts : LatestIs(revisions, posts[path].slug, posts[path].body)

BuiltInv == publishing.at = "built" => Refusals(TRUE) = {}

PostsInv == TypeInv /\ PublishInv /\ BuiltInv /\ LastRevisionIsLive /\ ListingIsTheSite

LEMMA LastOfAppend ==
    ASSUME NEW history \in Seq(Bodies), NEW body \in Bodies
    PROVE  /\ RecordedOnPublish(history, body) \in Seq(Bodies)
           /\ RecordedOnPublish(history, body) # <<>>
           /\ Last(RecordedOnPublish(history, body)) = body
<1>1. CASE history # <<>> /\ Last(history) = body
  BY <1>1 DEF RecordedOnPublish
<1>2. CASE ~(history # <<>> /\ Last(history) = body)
  <2>1. RecordedOnPublish(history, body) = Append(history, body)
    BY <1>2 DEF RecordedOnPublish
  <2>2. /\ Append(history, body) \in Seq(Bodies)
        /\ Len(Append(history, body)) = Len(history) + 1
        /\ Append(history, body)[Len(history) + 1] = body
    OBVIOUS
  <2>3. Append(history, body) # <<>>
    BY <2>2
  <2> QED
    BY <2>1, <2>2, <2>3 DEF Last
<1> QED
  BY <1>1, <1>2

\* Posts a discovery does not refuse have slugs of their own.
LEMMA SlugsAreOwn ==
    ASSUME NEW withRoot, Refusals(withRoot) = {}, NEW p \in Files, NEW q \in Files,
           posts[p].slug = posts[q].slug
    PROVE  p = q
<1>1. SUFFICES ASSUME p # q PROVE FALSE
  OBVIOUS
<1>2. [path |-> p, lint |-> "duplicate-post-slug"] \in Refusals(withRoot)
  BY <1>1 DEF Refusals
<1> QED
  BY <1>2

\* A discovery with the root refuses a post that left its committed slug.
LEMMA CommittedSlugs ==
    ASSUME Refusals(TRUE) = {}, NEW p \in Files
    PROVE  publishedSlug(p) \in {None, posts[p].slug}
<1>1. SUFFICES ASSUME publishedSlug(p) \notin {None, posts[p].slug} PROVE FALSE
  OBVIOUS
<1>2. [path |-> p, lint |-> "changed-published-post-slug"] \in Refusals(TRUE)
  BY <1>1 DEF Refusals
<1> QED
  BY <1>2

LEMMA PublishedAreFiles ==
    ASSUME TypeInv, NEW p \in publishedPosts
    PROVE  p \in Files /\ p \in Paths /\ posts[p] \in PostRecords
BY DEF TypeInv, publishedPosts, Files

LEMMA PostsStart == PostsInit => PostsInv
<1> SUFFICES ASSUME PostsInit PROVE PostsInv
  OBVIOUS
<1>1. TypeInv
  BY DEF PostsInit, TypeInv, Idle, Histories
<1>2. PublishInv /\ BuiltInv
  BY DEF PostsInit, PublishInv, BuiltInv, Idle
<1>3. LastRevisionIsLive
  BY DEF PostsInit, LastRevisionIsLive
<1>4. ListingIsTheSite
  BY DEF PostsInit, ListingIsTheSite
<1> QED
  BY <1>1, <1>2, <1>3, <1>4 DEF PostsInv

\* Between two publishes nothing of the invariant but the types is disturbed.
LEMMA QuietStep ==
    ASSUME PostsInv, Quiet, publishing' = publishing, live' = live, sent' = sent,
           revisions' = revisions, posts' \in [Paths -> PostRecords \cup {None}]
    PROVE  PostsInv'
<1>1. publishing'.at = "idle"
  BY DEF Quiet, Idle
<1> QED
  BY <1>1 DEF PostsInv, TypeInv, PublishInv, BuiltInv, LastRevisionIsLive, ListingIsTheSite

LEMMA StartStep == ASSUME PostsInv, StartPublish PROVE PostsInv'
<1>1. /\ UNCHANGED <<posts, head, live, sent>>
      /\ revisions' = RecordRevisions
      /\ publishing'.at = "recorded" /\ publishing'.found = publishedPosts
      /\ Refusals(FALSE) = {}
  BY DEF StartPublish
<1>2. publishedPosts' = publishedPosts /\ Refusals(FALSE)' = Refusals(FALSE)
  BY <1>1 DEF publishedPosts, Files, Refusals, publishedSlug, Listed
<1>3. ASSUME NEW slug \in Slugs
      PROVE  /\ RecordRevisions[slug] \in Seq(Bodies)
             /\ \A path \in publishedPosts :
                  posts[path].slug = slug => LatestIs(RecordRevisions, slug, posts[path].body)
  <2>1. revisions[slug] \in Seq(Bodies)
    BY DEF PostsInv, TypeInv, Histories
  <2>2. CASE \E path \in publishedPosts : posts[path].slug = slug
    <3> DEFINE p == CHOOSE q \in publishedPosts : posts[q].slug = slug
    <3>1. p \in publishedPosts /\ posts[p].slug = slug
      BY <2>2
    <3>2. RecordRevisions[slug] = RecordedOnPublish(revisions[slug], posts[p].body)
      BY <2>2 DEF RecordRevisions
    <3> HIDE DEF p
    <3>3. posts[p].body \in Bodies /\ p \in Files
      BY <3>1, PublishedAreFiles DEF PostsInv, PostRecords
    <3>4. \A path \in publishedPosts : posts[path].slug = slug => path = p
      BY <1>1, <3>1, <3>3, PublishedAreFiles, SlugsAreOwn DEF PostsInv
    <3> QED
      BY <2>1, <3>2, <3>3, <3>4, LastOfAppend DEF LatestIs
  <2>3. CASE ~\E path \in publishedPosts : posts[path].slug = slug
    BY <2>1, <2>3 DEF RecordRevisions
  <2> QED
    BY <2>2, <2>3
<1>4. RecordRevisions \in Histories
  BY <1>3 DEF RecordRevisions, Histories
<1>5. TypeInv'
  BY <1>1, <1>4 DEF PostsInv, TypeInv
<1>6. \A path \in publishedPosts : LatestIs(RecordRevisions, posts[path].slug, posts[path].body)
  BY <1>3, PublishedAreFiles DEF PostsInv, PostRecords
<1>7. PublishInv'
  BY <1>1, <1>2, <1>6 DEF PublishInv
<1>8. BuiltInv' /\ LastRevisionIsLive' /\ ListingIsTheSite'
  BY <1>1 DEF PostsInv, BuiltInv, LastRevisionIsLive, ListingIsTheSite
<1> QED
  BY <1>5, <1>7, <1>8 DEF PostsInv

LEMMA BuildStep == ASSUME PostsInv, BuildPostsOnly PROVE PostsInv'
<1>1. /\ UNCHANGED <<posts, head, revisions, live, sent>>
      /\ publishing.at = "recorded"
      /\ \/ publishing'.at = "idle"
         \/ /\ publishing'.at = "built" /\ publishing'.found = publishedPosts
            /\ Refusals(TRUE) = {}
  BY DEF BuildPostsOnly, Idle
<1>2. publishedPosts' = publishedPosts /\ Refusals(FALSE)' = Refusals(FALSE)
      /\ Refusals(TRUE)' = Refusals(TRUE)
  BY <1>1 DEF publishedPosts, Files, Refusals, publishedSlug, Listed
<1>3. TypeInv'
  BY <1>1 DEF PostsInv, TypeInv
<1>4. PublishInv' /\ BuiltInv'
  BY <1>1, <1>2 DEF PostsInv, PublishInv, BuiltInv, LatestIs
<1>5. LastRevisionIsLive' /\ ListingIsTheSite'
  BY <1>1 DEF PostsInv, LastRevisionIsLive, ListingIsTheSite
<1> QED
  BY <1>3, <1>4, <1>5 DEF PostsInv

\* The pages of a push are those of the published posts, each at its own slug.
LEMMA PushedPages ==
    ASSUME PostsInv, PushHead, NEW slug \in Slugs
    PROVE  \/ /\ live'[slug] = None /\ origin'[slug] = None
              /\ \A path \in publishedPosts : posts[path].slug # slug
           \/ /\ origin'[slug] \in publishedPosts
              /\ posts[origin'[slug]].slug = slug
              /\ live'[slug] = posts[origin'[slug]].body
              /\ live'[slug] \in Bodies
<1> DEFINE at == {path \in publishedPosts : posts[path].slug = slug}
<1>1. publishing.at = "built" /\ publishing.found = publishedPosts
  BY DEF PushHead, PostsInv, PublishInv
<1>2. /\ live'[slug] = IF at = {} THEN None ELSE posts[CHOOSE p \in at : TRUE].body
      /\ origin'[slug] = IF at = {} THEN None ELSE CHOOSE p \in at : TRUE
  BY <1>1 DEF PushHead
<1>3. CASE at = {}
  BY <1>2, <1>3
<1>4. CASE at # {}
  <2> DEFINE p == CHOOSE p \in at : TRUE
  <2>1. p \in at
    BY <1>4
  <2>2. live'[slug] = posts[p].body /\ origin'[slug] = p
    BY <1>2, <1>4
  <2> HIDE DEF p
  <2> QED
    BY <2>1, <2>2, PublishedAreFiles DEF PostsInv, PostRecords
<1> QED
  BY <1>3, <1>4

LEMMA PushStep == ASSUME PostsInv, PushHead PROVE PostsInv'
<1>1. /\ UNCHANGED <<posts, head, revisions>>
      /\ publishing.at = "built" /\ publishing'.at = "idle"
      /\ sent' = [revisions |-> revisions, slugs |-> postManifest]
      /\ DOMAIN live' = Slugs /\ live' = [slug \in Slugs |-> live'[slug]]
  BY DEF PushHead, Idle
<1>2. \A slug \in Slugs : live'[slug] \in Bodies \cup {None}
  BY PushedPages
<1>3. postManifest \subseteq Slugs
  BY PublishedAreFiles DEF postManifest, PostsInv, PostRecords
<1>4. TypeInv'
  BY <1>1, <1>2, <1>3 DEF PostsInv, TypeInv
<1>5. PublishInv' /\ BuiltInv'
  BY <1>1 DEF PublishInv, BuiltInv
<1>6. LastRevisionIsLive'
  <2> SUFFICES ASSUME NEW slug \in Slugs, live'[slug] # None
               PROVE  sent'.revisions[slug] # <<>> /\ Last(sent'.revisions[slug]) = live'[slug]
    BY DEF LastRevisionIsLive
  <2>1. /\ origin'[slug] \in publishedPosts /\ posts[origin'[slug]].slug = slug
        /\ live'[slug] = posts[origin'[slug]].body
    BY PushedPages
  <2>2. LatestIs(revisions, slug, live'[slug])
    BY <1>1, <2>1 DEF PostsInv, PublishInv
  <2> QED
    BY <1>1, <2>2 DEF LatestIs
<1>7. ListingIsTheSite'
  <2>1. ASSUME NEW slug \in Slugs
        PROVE  slug \in postManifest <=> live'[slug] # None
    <3>1. slug \in postManifest <=> \E path \in publishedPosts : posts[path].slug = slug
      BY DEF postManifest
    <3> QED
      BY <3>1, PushedPages, NoneIsNothing
  <2>2. sent'.slugs = postManifest
    BY <1>1
  <2> QED
    BY <1>3, <2>1, <2>2 DEF ListingIsTheSite
<1> QED
  BY <1>4, <1>5, <1>6, <1>7 DEF PostsInv

LEMMA PostsStep == PostsInv /\ [PostsNext]_postVars => PostsInv'
<1> SUFFICES ASSUME PostsInv, [PostsNext]_postVars PROVE PostsInv'
  OBVIOUS
<1>0. posts \in [Paths -> PostRecords \cup {None}]
  BY DEF PostsInv, TypeInv
<1>1. ASSUME NEW path \in Paths, NEW body \in Bodies,
             \/ PostNew(path, body) \/ PostGenerate(path, body)
             \/ \E slug \in Slugs, status \in Statuses : Edit(path, Post(slug, body, status))
      PROVE  PostsInv'
  <2>1. PICK slug \in Slugs, status \in Statuses :
          posts' = [posts EXCEPT ![path] = Post(slug, body, status)]
    BY <1>1 DEF PostNew, PostGenerate, Edit, Slugs, Statuses
  <2>2. Post(slug, body, status) \in PostRecords
    BY DEF Post, PostRecords
  <2>3. posts' \in [Paths -> PostRecords \cup {None}]
    BY <1>0, <2>1, <2>2
  <2>4. Quiet /\ publishing' = publishing /\ live' = live /\ sent' = sent /\ revisions' = revisions
    BY <1>1 DEF PostNew, PostGenerate, Edit, Authoring
  <2> QED
    BY <2>3, <2>4, QuietStep
<1>2. ASSUME NEW path \in Paths, Delete(path) PROVE PostsInv'
  <2>1. posts' \in [Paths -> PostRecords \cup {None}]
    BY <1>0, <1>2 DEF Delete
  <2>2. Quiet /\ publishing' = publishing /\ live' = live /\ sent' = sent /\ revisions' = revisions
    BY <1>2 DEF Delete, Authoring
  <2> QED
    BY <2>1, <2>2, QuietStep
<1>3. ASSUME Commit \/ \E autoCommit \in BOOLEAN : GenPosts(autoCommit) PROVE PostsInv'
  <2>1. /\ Quiet /\ publishing' = publishing /\ live' = live /\ sent' = sent
        /\ revisions' = revisions /\ posts' = posts
    BY <1>3 DEF Commit, GenPosts
  <2> QED
    BY <1>0, <2>1, QuietStep
<1>4. ASSUME PushRefused PROVE PostsInv'
  <2>1. publishing'.at = "idle" /\ UNCHANGED <<posts, revisions, live, sent>>
    BY <1>4 DEF PushRefused, Idle
  <2> QED
    BY <2>1 DEF PostsInv, TypeInv, PublishInv, BuiltInv, LastRevisionIsLive, ListingIsTheSite
<1>5. ASSUME UNCHANGED postVars PROVE PostsInv'
  <2>1. UNCHANGED <<posts, head, revisions, publishing, live, sent>>
    BY <1>5 DEF postVars
  <2>2. /\ publishedPosts' = publishedPosts /\ Refusals(FALSE)' = Refusals(FALSE)
        /\ Refusals(TRUE)' = Refusals(TRUE)
    BY <2>1 DEF publishedPosts, Files, Refusals, publishedSlug, Listed
  <2> QED
    BY <2>1, <2>2 DEF PostsInv, TypeInv, PublishInv, BuiltInv, LatestIs, LastRevisionIsLive,
                      ListingIsTheSite
<1> QED
  BY <1>1, <1>2, <1>3, <1>4, <1>5, StartStep, BuildStep, PushStep DEF PostsNext

LEMMA PostsInvariant == PostsSpec => []PostsInv
  BY PostsStart, PostsStep, PTL DEF PostsSpec

LEMMA SlugsStep ==
    ASSUME PostsInv, PostsNext, publishing.at = "built", live' # live,
           NEW slug \in Slugs, origin'[slug] # None
    PROVE  publishedSlug(origin'[slug]) \in {None, slug}
<1>1. PushHead
  BY DEF PostsNext, PostNew, PostGenerate, Edit, Delete, Commit, GenPosts, StartPublish,
         BuildPostsOnly, PushRefused
<1>2. origin'[slug] \in publishedPosts /\ posts[origin'[slug]].slug = slug
  BY <1>1, PushedPages
<1>3. Refusals(TRUE) = {}
  BY DEF PostsInv, BuiltInv
<1> QED
  BY <1>2, <1>3, CommittedSlugs, PublishedAreFiles DEF PostsInv

\* However the author edits, commits and deletes posts between publishes, and
\* whichever publishes are refused, a served post is the latest revision sent of
\* it, the listing is what is served, and no post is served at a slug the
\* committed manifest does not have it under.
THEOREM PostsStayAsRecorded == PostsSpec => PostsAreAsRecorded
<1>1. PostsInv => LastRevisionIsLive /\ ListingIsTheSite
  BY DEF PostsInv
<1>2. PostsInv /\ [PostsNext]_postVars =>
        [publishing.at = "built" /\ live' # live =>
           \A slug \in Slugs : origin'[slug] # None =>
             publishedSlug(origin'[slug]) \in {None, slug}]_postVars
  BY SlugsStep
<1> QED
  BY <1>1, <1>2, PostsInvariant, PTL DEF PostsSpec, PostsAreAsRecorded, CommittedSlugsHold

-------------------------------------------------------------------------------
Phases == {"idle", "build", "publish", "dispatch", "done"}
Overlays == [schema : {Nothing, Old, New}, posts : SUBSET Posts]
Carried == [schema : {Nothing, New}, posts : SUBSET Posts]
Checkouts == [schema : Schemas, committed : Schemas, word : WordsOf, posts : SUBSET Posts]
Passes == [pc : Phases, at : 1..Len(Order), words : {<<>>} \cup [Given -> WordsOf],
           converted : Seq(Carried)]

RolloutTypeInv ==
    /\ pin \in {Nothing, Old, New} /\ disturbed \in BOOLEAN
    /\ base = [p \in Projects |-> base[p]]
    /\ overlay \in [Projects -> Overlays]
    /\ work \in [Projects -> Checkouts]
    /\ pass \in Passes

OfThisSchema(p) == overlay[p].schema \in {Nothing, New}

\* What the pass read is what there is.
ChecksHold ==
    /\ pin = New /\ pass.words = WordsGiven
    /\ \A p \in Given : work[p].schema = New /\ AgreesWithPeers(p, WordsGiven)

\* What goes up with the i-th project leaves it on the new schema.
Carries(i) == pass.converted[i] = NoOverlay => OfThisSchema(Order[i])

PassBuildInv ==
    pass.pc = "build" =>
        /\ Len(pass.converted) = pass.at - 1
        /\ ~disturbed => ChecksHold /\ \A i \in 1..(pass.at - 1) : Carries(i)

PassPublishInv ==
    pass.pc = "publish" =>
        /\ Len(pass.converted) = Len(Order)
        /\ ~disturbed =>
             /\ ChecksHold /\ \A i \in 1..Len(Order) : Carries(i)
             /\ \A i \in 1..(pass.at - 1) : base[Order[i]] = Recorded(Order[i]) /\ OfThisSchema(Order[i])

SiteIsNew ==
    /\ \A p \in Given : base[p].schema = New /\ OfThisSchema(p)
    /\ \A p, q \in Given : ~Conflict(base[p].word, base[q].word)
    /\ pin = New

PassEndInv == pass.pc \in {"dispatch", "done"} /\ ~disturbed => SiteIsNew

PassInv == (pass.pc # "idle" => repo) /\ PassBuildInv /\ PassPublishInv /\ PassEndInv
RolloutInv == RolloutTypeInv /\ PassInv

LEMMA Places ==
    /\ Len(Order) \in Nat \ {0} /\ DOMAIN Order = 1..Len(Order)
    /\ \A i \in 1..Len(Order) : Order[i] \in Given
    /\ \A p \in Given : \E i \in 1..Len(Order) : Order[i] = p
    /\ Given \subseteq Projects
<1>1. /\ Len(Order) \in Nat /\ DOMAIN Order = 1..Len(Order)
  BY OneIsGiven
<1>2. Len(Order) # 0
  BY OneIsGiven
<1> QED
  BY <1>1, <1>2 DEF Given, Range, Projects

LEMMA RolloutStarts == RolloutInit => RolloutInv
<1> SUFFICES ASSUME RolloutInit PROVE RolloutInv
  OBVIOUS
<1>1. (CHOOSE post \in Posts : TRUE) \in Posts
  BY OneIsPosted
<1>2. overlay \in [Projects -> Overlays]
  <2>1. NoOverlay \in Overlays
    BY DEF NoOverlay, Overlays
  <2>2. [schema |-> Old, posts |-> {CHOOSE post \in Posts : TRUE}] \in Overlays
    BY <1>1 DEF Overlays
  <2>3. \/ overlay \in [Projects -> {NoOverlay, [schema |-> Old, posts |-> {CHOOSE post \in Posts : TRUE}]}]
        \/ overlay \in {[p \in Projects |-> NoOverlay]}
    BY Zenon DEF RolloutInit
  <2> QED
    BY <2>1, <2>2, <2>3
<1>3. work \in [Projects -> Checkouts]
  <2>1. \A p \in Projects : overlay[p].posts \in SUBSET Posts
    BY <1>2 DEF Overlays
  <2> QED
    BY <2>1 DEF RolloutInit, Checkouts, Schemas, WordsOf
<1>4. pass \in Passes
  <2>1. 1 \in 1..Len(Order) /\ <<>> \in Seq(Carried)
    BY Places
  <2>2. IdlePass \in Passes
    BY <2>1 DEF IdlePass, Passes, Phases
  <2> QED
    BY <2>2 DEF RolloutInit
<1>5. pin \in {Nothing, Old, New} /\ disturbed \in BOOLEAN
  BY DEF RolloutInit
<1>6. base = [p \in Projects |-> base[p]]
  BY DEF RolloutInit
<1>7. pass.pc = "idle"
  BY DEF RolloutInit, IdlePass
<1> QED
  BY <1>2, <1>3, <1>4, <1>5, <1>6, <1>7 DEF RolloutInv, RolloutTypeInv, PassInv, PassBuildInv, PassPublishInv, PassEndInv

\* A pass that ends, or was never begun, has nothing left to keep.
LEMMA AtRest ==
    ASSUME RolloutTypeInv', pass'.pc = "idle"
    PROVE  RolloutInv'
  BY DEF RolloutInv, PassInv, PassBuildInv, PassPublishInv, PassEndInv

\* Of what others do to the site a pass under way is told.
LEMMA Disturbed ==
    ASSUME RolloutInv, RolloutTypeInv', UNCHANGED pass, repo => repo', Disturb
    PROVE  RolloutInv'
<1>1. CASE pass.pc = "idle"
  BY <1>1, AtRest
<1>2. CASE pass.pc # "idle"
  <2>1. disturbed'
    BY <1>2 DEF Disturb
  <2> QED
    BY <1>2, <2>1 DEF RolloutInv, PassInv, PassBuildInv, PassPublishInv, PassEndInv
<1> QED
  BY <1>1, <1>2

\* What the invariant reads of a checkout is not its posts.
LEMMA Unread ==
    ASSUME RolloutInv, RolloutTypeInv', UNCHANGED <<pass, repo, pin, base, overlay, disturbed>>,
           \A p \in Given : work'[p].schema = work[p].schema /\ work'[p].word = work[p].word
    PROVE  RolloutInv'
<1>1. WordsGiven' = WordsGiven
  BY DEF WordsGiven
<1>2. \A p \in Given : AgreesWithPeers(p, WordsGiven)' <=> AgreesWithPeers(p, WordsGiven)
  BY <1>1 DEF AgreesWithPeers
<1>3. \A i \in 1..Len(Order) : Recorded(Order[i])' = Recorded(Order[i])
  BY Places DEF Recorded
<1>4. ChecksHold' <=> ChecksHold
  BY <1>1, <1>2 DEF ChecksHold
<1>5. PassBuildInv'
  BY <1>4 DEF RolloutInv, PassInv, PassBuildInv, Carries, OfThisSchema
<1>6. PassPublishInv'
  <2>1. pass.at \in 1..Len(Order)
    BY DEF RolloutInv, RolloutTypeInv, Passes
  <2>2. \A i \in 1..(pass.at - 1) : i \in 1..Len(Order)
    BY <2>1, Places
  <2> QED
    BY <1>3, <1>4, <2>2 DEF RolloutInv, PassInv, PassPublishInv, Carries, OfThisSchema
<1>7. PassEndInv'
  BY DEF RolloutInv, PassInv, PassEndInv, SiteIsNew, OfThisSchema
<1> QED
  BY <1>5, <1>6, <1>7 DEF RolloutInv, PassInv

-----------------------------------------------------------------------------
\* Types.

\* The site, the checkouts and the pass, where a step leaves them alone.
LEMMA SameTypes ==
    ASSUME RolloutTypeInv
    PROVE  /\ pin' = pin => pin' \in {Nothing, Old, New}
           /\ base' = base => base' = [p \in Projects |-> base'[p]]
           /\ overlay' = overlay => overlay' \in [Projects -> Overlays]
           /\ work' = work => work' \in [Projects -> Checkouts]
           /\ pass' = pass => pass' \in Passes
  BY DEF RolloutTypeInv

LEMMA DisturbIsBoolean ==
    ASSUME RolloutTypeInv, Disturb \/ UNCHANGED disturbed
    PROVE  disturbed' \in BOOLEAN
  BY DEF RolloutTypeInv, Disturb

LEMMA ConvertedIsCarried ==
    ASSUME RolloutTypeInv, NEW p \in Projects
    PROVE  Converted(p) \in Carried
<1>1. overlay[p] \in Overlays
  BY DEF RolloutTypeInv
<1> QED
  BY <1>1 DEF Converted, Carried, Overlays, NoOverlay

LEMMA CarriedGoesUp == Carried \subseteq Overlays
  BY DEF Carried, Overlays

LEMMA PassKeepsTypes ==
    ASSUME RolloutTypeInv, PassInv, PassGoesOn \/ PassStops
    PROVE  RolloutTypeInv'
<1> USE DEF Phases
<1>0. pass.at \in 1..Len(Order) /\ pass.converted \in Seq(Carried)
      /\ pass.words \in {<<>>} \cup [Given -> WordsOf]
  BY DEF RolloutTypeInv, Passes
<1>1. IdlePass \in Passes
  <2>1. 1 \in 1..Len(Order) /\ <<>> \in Seq(Carried)
    BY Places
  <2> QED
    BY <2>1 DEF IdlePass, Passes
<1>2. \A phase \in Phases : [IdlePass EXCEPT !.pc = phase] \in Passes
  BY <1>1 DEF IdlePass, Passes
<1>3. CASE Check
  <2>1. WordsGiven \in [Given -> WordsOf]
    BY Places DEF WordsGiven, RolloutTypeInv, Checkouts
  <2>2. pass' \in Passes
    BY <1>1, <1>3, <2>1 DEF Check, IdlePass, Passes
  <2> QED
    BY <1>3, <2>2, SameTypes DEF Check, RolloutTypeInv
<1>4. CASE Build
  <2>1. Order[pass.at] \in Projects
    BY <1>0, Places
  <2>2. Append(pass.converted, Converted(Order[pass.at])) \in Seq(Carried)
    BY <1>0, <2>1, ConvertedIsCarried
  <2>3. pass' \in Passes
    <3>1. pass \in Passes /\ 1 \in 1..Len(Order)
      BY Places DEF RolloutTypeInv
    <3>2. pass.at # Len(Order) => pass.at + 1 \in 1..Len(Order)
      BY <1>0, Places
    <3> QED
      BY <1>4, <2>2, <3>1, <3>2 DEF Build, Passes
  <2> QED
    BY <1>4, <2>3, SameTypes DEF Build, RolloutTypeInv
<1>5. CASE Publish
  <2>1. Order[pass.at] \in Projects
    BY <1>0, Places
  <2>2. pass' \in Passes
    <3>1. pass \in Passes
      BY DEF RolloutTypeInv
    <3>2. pass.at # Len(Order) => pass.at + 1 \in 1..Len(Order)
      BY <1>0, Places
    <3> QED
      BY <1>5, <3>1, <3>2 DEF Publish, Passes
  <2>3. overlay' \in [Projects -> Overlays]
    <3>1. pass.at \in 1..Len(pass.converted)
      BY <1>0, <1>5, Places DEF Publish, PassInv, PassPublishInv
    <3>2. pass.converted[pass.at] \in Overlays
      BY <1>0, <3>1, CarriedGoesUp
    <3> QED
      BY <1>5, <3>2 DEF Publish, RolloutTypeInv
  <2>4. base' = [p \in Projects |-> base'[p]]
    BY <1>5 DEF Publish, RolloutTypeInv
  <2> QED
    BY <1>5, <2>2, <2>3, <2>4, SameTypes DEF Publish, RolloutTypeInv
<1>6. CASE PublishRefused
  BY <1>1, <1>6, SameTypes DEF PublishRefused, RolloutTypeInv
<1>7. CASE Dispatch
  BY <1>2, <1>7, SameTypes DEF Dispatch, RolloutTypeInv
<1>8. CASE Return
  BY <1>1, <1>8, SameTypes DEF Return, RolloutTypeInv
<1>9. CASE PassStops
  BY <1>1, <1>9, SameTypes DEF PassStops, RolloutTypeInv
<1> QED
  BY <1>3, <1>4, <1>5, <1>6, <1>7, <1>8, <1>9 DEF PassGoesOn

LEMMA SpokenWords ==
    "says nothing" \in WordsOf /\ Old \in Schemas /\ New \in Schemas
    /\ \A schema \in Schemas : schema \in {Nothing, Old, New}
  BY DEF WordsOf, Schemas

\* What others write in the assembly repository.
LEMMA OthersKeepTypes ==
    ASSUME RolloutTypeInv, Operator \/ Everyone
    PROVE  RolloutTypeInv'
<1> USE DEF RolloutTypeInv
<1>1. ASSUME NEW workflow \in BOOLEAN, InitAssembly(workflow) PROVE RolloutTypeInv'
  BY <1>1, SameTypes DEF InitAssembly, PinFor, registryVars
<1>2. ASSUME NEW named \in {Nothing, Old, New}, SyncWorkflow(named) PROVE RolloutTypeInv'
  BY <1>2, SameTypes, DisturbIsBoolean DEF SyncWorkflow, PinFor, registryVars
<1>3. ASSUME NEW next, EditRoster(next) PROVE RolloutTypeInv'
  BY <1>3, SameTypes, DisturbIsBoolean DEF EditRoster, registryVars
<1>4. ASSUME NEW p \in Given, NEW schema \in Schemas, Gen(p, schema) PROVE RolloutTypeInv'
  <2>1. work' \in [Projects -> Checkouts]
    BY <1>4 DEF Gen, Checkouts
  <2> QED
    BY <1>4, <2>1, SameTypes, DisturbIsBoolean DEF Gen, registryVars
<1>5. ASSUME NEW p \in Given, NEW word \in WordsOf, Say(p, word) PROVE RolloutTypeInv'
  <2>1. work' \in [Projects -> Checkouts]
    BY <1>5 DEF Say, Checkouts
  <2> QED
    BY <1>5, <2>1, SameTypes, DisturbIsBoolean DEF Say, registryVars
<1>6. ASSUME NEW p \in Given, NEW post \in Posts, WritePost(p, post) PROVE RolloutTypeInv'
  <2>1. work' \in [Projects -> Checkouts]
    BY <1>6 DEF WritePost, Checkouts
  <2> QED
    BY <1>6, <2>1, SameTypes, DisturbIsBoolean DEF WritePost, registryVars
<1>7. ASSUME NEW p \in Given, NEW schema \in Schemas, PostPublish(p, schema) PROVE RolloutTypeInv'
  <2>1. p \in Projects
    BY DEF Projects
  <2>2. overlay' \in [Projects -> Overlays]
    BY <1>7, <2>1 DEF PostPublish, Overlays, Checkouts, Schemas
  <2> QED
    BY <1>7, <2>2, SameTypes, DisturbIsBoolean DEF PostPublish, registryVars
<1>8. ASSUME NEW p \in Given, NEW schema \in Schemas, DocsPublish(p, schema) PROVE RolloutTypeInv'
  <2>1. base' = [q \in Projects |-> base'[q]]
    BY <1>8 DEF DocsPublish
  <2> QED
    BY <1>8, <2>1, SameTypes, DisturbIsBoolean DEF DocsPublish, registryVars
<1>9. ASSUME NEW p \in Given, Push(p) PROVE RolloutTypeInv'
  BY <1>9, SameTypes, DisturbIsBoolean DEF Push, registryVars
<1>10. ASSUME NEW delivered, Rebuild(delivered) PROVE RolloutTypeInv'
  BY <1>10, SameTypes, DisturbIsBoolean DEF Rebuild, registryVars
<1>11. CASE ReleaseSelfdoc
  BY <1>11, SameTypes, DisturbIsBoolean DEF ReleaseSelfdoc
<1>12. CASE Operator
  BY <1>12, <1>1, <1>2, <1>3, <1>4, <1>5, <1>11, SpokenWords, Zenon DEF Operator
<1>13. CASE Everyone
  BY <1>13, <1>2, <1>3, <1>4, <1>5, <1>6, <1>7, <1>8, <1>9, <1>10, SpokenWords, Zenon DEF Everyone
<1> QED
  BY <1>12, <1>13

LEMMA DeploysKeepTypes ==
    ASSUME RolloutTypeInv, NEW request, Deploy(request)
    PROVE  RolloutTypeInv'
<1>1. base' = [p \in Projects |-> base'[p]]
  BY DEF Deploy, Arrived, RolloutTypeInv
<1>2. disturbed' \in BOOLEAN
  BY DEF Deploy, RolloutTypeInv
<1> QED
  BY <1>1, <1>2, SameTypes DEF Deploy, RolloutTypeInv

-----------------------------------------------------------------------------
\* The pass.

LEMMA CheckKeepsRollout ==
    ASSUME RolloutInv, RolloutTypeInv', Check
    PROVE  RolloutInv'
<1>1. pass'.pc = "build" /\ pass'.at = 1 /\ pass'.converted = <<>> /\ pass'.words = WordsGiven
  BY DEF Check, IdlePass
<1>2. repo' /\ pin' = New
  BY SchemasGrow DEF Check, ChecksPass, RosterIsGiven, PinIsNotOlder, RolloutInv, RolloutTypeInv, Nothing
<1>3. ChecksHold'
  <2>1. WordsGiven' = WordsGiven
    BY DEF Check, WordsGiven
  <2>2. \A p \in Given : work'[p].schema = New /\ AgreesWithPeers(p, WordsGiven)
    BY DEF Check, ChecksPass, Publishable
  <2>3. \A p \in Given : AgreesWithPeers(p, WordsGiven)'
    BY <2>1, <2>2 DEF AgreesWithPeers, Check
  <2> QED
    BY <1>1, <1>2, <2>1, <2>2, <2>3 DEF ChecksHold
<1>4. Len(pass'.converted) = pass'.at - 1
  BY <1>1
<1>5. \A i \in 1..(pass'.at - 1) : FALSE
  BY <1>1
<1> QED
  BY <1>1, <1>2, <1>3, <1>4, <1>5 DEF RolloutInv, PassInv, PassBuildInv, PassPublishInv, PassEndInv

\* Converting a project's overlay leaves nothing of the old schema behind.
LEMMA ConversionCarries ==
    ASSUME RolloutTypeInv, NEW p \in Projects, Converted(p) = NoOverlay
    PROVE  OfThisSchema(p)
<1>1. overlay[p].schema \in {Nothing, Old, New}
  BY DEF RolloutTypeInv, Overlays
<1>2. [schema |-> New, posts |-> overlay[p].posts] # NoOverlay
  BY SchemasGrow DEF NoOverlay, Nothing
<1> QED
  BY <1>1, <1>2 DEF Converted, OfThisSchema

LEMMA BuildKeepsRollout ==
    ASSUME RolloutInv, RolloutTypeInv', Build
    PROVE  RolloutInv'
<1> DEFINE seen == Append(pass.converted, Converted(Order[pass.at]))
<1>1. pass.at \in 1..Len(Order) /\ pass.converted \in Seq(Carried) /\ pass.pc = "build"
      /\ Len(pass.converted) = pass.at - 1 /\ repo /\ pass \in Passes
  BY DEF RolloutInv, RolloutTypeInv, Passes, PassInv, PassBuildInv, Build
<1>2. Order[pass.at] \in Projects
  BY <1>1, Places
<1>3. Len(seen) = pass.at /\ seen[pass.at] = Converted(Order[pass.at])
      /\ \A i \in 1..(pass.at - 1) : seen[i] = pass.converted[i]
  BY <1>1, <1>2, ConvertedIsCarried DEF RolloutInv
<1>4. pass'.converted = seen /\ pass'.words = pass.words
      /\ IF pass.at = Len(Order) THEN pass'.pc = "publish" /\ pass'.at = 1
         ELSE pass'.pc = "build" /\ pass'.at = pass.at + 1
  BY <1>1 DEF Build, Passes
<1>5. ASSUME ~disturbed PROVE ChecksHold'
  <2>1. ChecksHold
    BY <1>1, <1>5 DEF RolloutInv, PassInv, PassBuildInv
  <2> QED
    BY <1>4, <2>1 DEF ChecksHold, WordsGiven, AgreesWithPeers, Build
<1>6. ASSUME ~disturbed, NEW i \in 1..pass.at PROVE Carries(i)'
  <2>1. CASE i = pass.at
    <3>1. seen[i] = NoOverlay => OfThisSchema(Order[i])
      BY <1>2, <1>3, <2>1, ConversionCarries DEF RolloutInv
    <3> QED
      BY <1>4, <3>1 DEF Carries, OfThisSchema, Build
  <2>2. CASE i # pass.at
    <3>1. i \in 1..(pass.at - 1)
      BY <1>1, <2>2
    <3>2. Carries(i)
      BY <1>1, <1>6, <3>1 DEF RolloutInv, PassInv, PassBuildInv
    <3> QED
      BY <1>3, <1>4, <3>1, <3>2 DEF Carries, OfThisSchema, Build
  <2> QED
    BY <2>1, <2>2
<1>7. disturbed' = disturbed /\ repo'
  BY <1>1 DEF Build
<1>8. CASE pass.at = Len(Order)
  <2>1. pass'.pc = "publish" /\ Len(pass'.converted) = Len(Order) /\ \A i \in 1..(pass'.at - 1) : FALSE
    BY <1>3, <1>4, <1>8
  <2> QED
    BY <1>5, <1>6, <1>7, <1>8, <2>1 DEF RolloutInv, PassInv, PassBuildInv, PassPublishInv, PassEndInv
<1>9. CASE pass.at # Len(Order)
  <2>1. pass'.pc = "build" /\ Len(pass'.converted) = pass'.at - 1 /\ pass'.at - 1 = pass.at
    BY <1>1, <1>3, <1>4, <1>9
  <2> QED
    BY <1>5, <1>6, <1>7, <2>1 DEF RolloutInv, PassInv, PassBuildInv, PassPublishInv, PassEndInv
<1> QED
  BY <1>8, <1>9

LEMMA NoWordConflictsWithItself ==
    ASSUME NEW w
    PROVE  ~Conflict(w, w)
<1> SUFFICES ASSUME Conflict(w, w) PROVE FALSE
  OBVIOUS
<1>1. "accepts" \in {w, w} /\ "rejects" \in {w, w}
  BY DEF Conflict
<1>2. w = "accepts" /\ w = "rejects"
  BY <1>1
<1> QED
  BY <1>2

LEMMA PublishKeepsRollout ==
    ASSUME RolloutInv, RolloutTypeInv', Publish
    PROVE  RolloutInv'
<1>0. PICK at \in 1..Len(Order) : at = pass.at
  BY DEF RolloutInv, RolloutTypeInv, Passes
<1> DEFINE p == Order[at]
           carried == pass.converted[at]
<1>1. pass.at \in 1..Len(Order) /\ pass.converted \in Seq(Carried) /\ pass.pc = "publish"
      /\ Len(pass.converted) = Len(Order) /\ repo /\ pass \in Passes
  BY DEF RolloutInv, RolloutTypeInv, Passes, PassInv, PassPublishInv, Publish
<1>2. p \in Given /\ p \in Projects
  BY <1>0, Places
<1>3. carried \in Carried
  BY <1>0, <1>1, Places
<1>4. UNCHANGED <<repo, pin, work, disturbed>> /\ base' = [base EXCEPT ![p] = Recorded(p)]
      /\ overlay' = IF carried = NoOverlay THEN overlay ELSE [overlay EXCEPT ![p] = carried]
  BY <1>0 DEF Publish
<1>5. /\ base'[p] = Recorded(p)
      /\ \A q \in Given : q # p => base'[q] = base[q]
  <2>1. base = [q \in Projects |-> base[q]]
    BY DEF RolloutInv, RolloutTypeInv
  <2>2. DOMAIN base = Projects
    BY <2>1
  <2> QED
    BY <1>2, <1>4, <2>2, Places
<1>6. \A q \in Given : OfThisSchema(q) => OfThisSchema(q)'
  <2>1. overlay \in [Projects -> Overlays]
    BY DEF RolloutInv, RolloutTypeInv
  <2> QED
    BY <1>2, <1>3, <1>4, <2>1, Places DEF OfThisSchema, Carried
<1>7. ASSUME ~disturbed PROVE OfThisSchema(p)'
  <2>1. CASE carried = NoOverlay
    <3>1. Carries(at)
      BY <1>0, <1>1, <1>7 DEF RolloutInv, PassInv, PassPublishInv
    <3> QED
      BY <1>2, <1>6, <2>1, <3>1 DEF Carries
  <2>2. CASE carried # NoOverlay
    <3>1. overlay \in [Projects -> Overlays]
      BY DEF RolloutInv, RolloutTypeInv
    <3> QED
      BY <1>2, <1>3, <1>4, <2>2, <3>1 DEF OfThisSchema, Carried
  <2> QED
    BY <2>1, <2>2
<1>8. \A q \in Given : Recorded(q)' = Recorded(q)
  BY <1>4 DEF Recorded
<1>9. ASSUME ~disturbed, NEW i \in 1..at
      PROVE  base'[Order[i]] = Recorded(Order[i])' /\ OfThisSchema(Order[i])'
  <2>1. Order[i] \in Given
    BY <1>0, Places
  <2>2. CASE Order[i] = p
    BY <1>2, <1>5, <1>7, <1>8, <1>9, <2>2
  <2>3. CASE Order[i] # p
    <3>1. i \in 1..(pass.at - 1)
      BY <1>0, <1>1, <2>3
    <3>2. base[Order[i]] = Recorded(Order[i]) /\ OfThisSchema(Order[i])
      BY <1>1, <1>9, <3>1 DEF RolloutInv, PassInv, PassPublishInv
    <3> QED
      BY <1>5, <1>6, <1>8, <2>1, <2>3, <3>2
  <2> QED
    BY <2>2, <2>3
<1>10. ASSUME ~disturbed PROVE ChecksHold
  BY <1>1, <1>10 DEF RolloutInv, PassInv, PassPublishInv
<1>11. CASE pass.at = Len(Order)
  <2>1. pass'.pc = "dispatch"
    BY <1>1, <1>11 DEF Publish, Passes
  <2>2. ASSUME ~disturbed PROVE SiteIsNew'
    <3>1. \A q \in Given : base'[q] = Recorded(q) /\ OfThisSchema(q)'
      <4> SUFFICES ASSUME NEW q \in Given PROVE base'[q] = Recorded(q) /\ OfThisSchema(q)'
        OBVIOUS
      <4>1. PICK i \in 1..Len(Order) : Order[i] = q
        BY Places
      <4> QED
        BY <1>0, <1>8, <1>9, <1>11, <2>2, <4>1
    <3>2. \A q \in Given : base'[q].schema = New /\ base'[q].word = work[q].word
      <4> SUFFICES ASSUME NEW q \in Given
                   PROVE  base'[q].schema = New /\ base'[q].word = work[q].word
        OBVIOUS
      <4>1. base'[q] = [schema |-> work[q].schema, word |-> work[q].word]
        BY <3>1 DEF Recorded
      <4>2. base'[q].schema = work[q].schema
        BY <4>1
      <4>3. base'[q].word = work[q].word
        BY <4>1
      <4>4. work[q].schema = New
        BY <1>10, <2>2 DEF ChecksHold
      <4> QED
        BY <4>2, <4>3, <4>4
    <3>3. \A q, r \in Given : ~Conflict(work[q].word, work[r].word)
      <4> SUFFICES ASSUME NEW q \in Given, NEW r \in Given PROVE ~Conflict(work[q].word, work[r].word)
        OBVIOUS
      <4>1. CASE q = r
        BY <4>1, NoWordConflictsWithItself
      <4>2. CASE q # r
        BY <1>10, <2>2, <4>2 DEF ChecksHold, AgreesWithPeers, WordsGiven
      <4> QED
        BY <4>1, <4>2
    <3>4. pin' = New
      BY <1>4, <1>10, <2>2 DEF ChecksHold
    <3> QED
      BY <3>1, <3>2, <3>3, <3>4 DEF SiteIsNew
  <2> QED
    BY <1>1, <1>4, <2>1, <2>2 DEF RolloutInv, PassInv, PassBuildInv, PassPublishInv, PassEndInv
<1>12. CASE pass.at # Len(Order)
  <2>1. pass'.pc = "publish" /\ pass'.at = pass.at + 1 /\ pass'.converted = pass.converted
        /\ pass'.words = pass.words
    BY <1>1, <1>12 DEF Publish, Passes
  <2>2. pass'.at - 1 = at
    BY <1>0, <2>1
  <2>3. ASSUME ~disturbed PROVE ChecksHold'
    BY <1>4, <1>10, <2>1, <2>3 DEF ChecksHold, WordsGiven, AgreesWithPeers
  <2>4. ASSUME ~disturbed, NEW i \in 1..Len(Order) PROVE Carries(i)'
    <3>1. Carries(i)
      BY <1>1, <2>4 DEF RolloutInv, PassInv, PassPublishInv
    <3> QED
      BY <1>6, <2>1, <3>1, Places DEF Carries
  <2> QED
    BY <1>1, <1>4, <1>9, <2>1, <2>2, <2>3, <2>4 DEF RolloutInv, PassInv, PassBuildInv, PassPublishInv, PassEndInv
<1> QED
  BY <1>11, <1>12

LEMMA PassKeepsRollout ==
    ASSUME RolloutInv, PassGoesOn \/ PassStops
    PROVE  RolloutInv'
<1>1. RolloutTypeInv'
  BY PassKeepsTypes DEF RolloutInv
<1>2. CASE Check
  BY <1>1, <1>2, CheckKeepsRollout
<1>3. CASE Build
  BY <1>1, <1>3, BuildKeepsRollout
<1>4. CASE Publish
  BY <1>1, <1>4, PublishKeepsRollout
<1>5. CASE PublishRefused \/ Return \/ PassStops
  <2>1. pass'.pc = "idle"
    BY <1>5 DEF PublishRefused, Return, PassStops, IdlePass
  <2> QED
    BY <1>1, <2>1, AtRest
<1>6. CASE Dispatch
  <2>1. pass'.pc = "done" /\ UNCHANGED <<repo, pin, base, overlay, disturbed>> /\ pass.pc = "dispatch"
    BY <1>6 DEF Dispatch, IdlePass
  <2> QED
    BY <1>1, <2>1 DEF RolloutInv, PassInv, PassBuildInv, PassPublishInv, PassEndInv, SiteIsNew, OfThisSchema
<1> QED
  BY <1>2, <1>3, <1>4, <1>5, <1>6 DEF PassGoesOn

-----------------------------------------------------------------------------
\* The others.

LEMMA OthersKeepRollout ==
    ASSUME RolloutInv, Operator \/ Everyone
    PROVE  RolloutInv'
<1>1. RolloutTypeInv'
  BY OthersKeepTypes DEF RolloutInv
<1>2. ASSUME NEW workflow \in BOOLEAN, InitAssembly(workflow) PROVE RolloutInv'
  <2>1. pass.pc = "idle" /\ pass' = pass
    BY <1>2 DEF InitAssembly, RolloutInv, PassInv
  <2> QED
    BY <1>1, <2>1, AtRest
<1>3. ASSUME NEW named, SyncWorkflow(named) PROVE RolloutInv'
  BY <1>1, <1>3, Disturbed DEF SyncWorkflow
<1>4. ASSUME NEW next, EditRoster(next) PROVE RolloutInv'
  BY <1>1, <1>4, Disturbed DEF EditRoster
<1>5. ASSUME NEW p \in Given, NEW schema, Gen(p, schema) PROVE RolloutInv'
  BY <1>1, <1>5, Disturbed DEF Gen
<1>6. ASSUME NEW p \in Given, NEW word, Say(p, word) PROVE RolloutInv'
  BY <1>1, <1>6, Disturbed DEF Say
<1>7. ASSUME NEW p \in Given, NEW post \in Posts, WritePost(p, post) PROVE RolloutInv'
  <2>1. \A q \in Given : work'[q].schema = work[q].schema /\ work'[q].word = work[q].word
    BY <1>7, Places DEF WritePost, RolloutInv, RolloutTypeInv, Checkouts
  <2> QED
    BY <1>1, <1>7, <2>1, Unread DEF WritePost
<1>8. ASSUME NEW p \in Given, NEW schema, PostPublish(p, schema) PROVE RolloutInv'
  BY <1>1, <1>8, Disturbed DEF PostPublish
<1>9. ASSUME NEW p \in Given, NEW schema, DocsPublish(p, schema) PROVE RolloutInv'
  BY <1>1, <1>9, Disturbed DEF DocsPublish
<1>10. ASSUME NEW p \in Given, Push(p) PROVE RolloutInv'
  BY <1>1, <1>10, Unread DEF Push
<1>11. ASSUME NEW delivered, Rebuild(delivered) PROVE RolloutInv'
  BY <1>1, <1>11, Unread DEF Rebuild
<1>12. CASE ReleaseSelfdoc
  BY <1>1, <1>12, Unread DEF ReleaseSelfdoc
<1>13. CASE Operator
  BY <1>13, <1>2, <1>3, <1>4, <1>5, <1>6, <1>12, Zenon DEF Operator
<1>14. CASE Everyone
  BY <1>14, <1>3, <1>4, <1>5, <1>6, <1>7, <1>8, <1>9, <1>10, <1>11, Zenon DEF Everyone
<1> QED
  BY <1>13, <1>14

LEMMA DeploysKeepRollout ==
    ASSUME RolloutInv, NEW request \in requests, Deploy(request)
    PROVE  RolloutInv'
<1>1. RolloutTypeInv'
  BY DeploysKeepTypes DEF RolloutInv
<1>2. CASE base' = base /\ disturbed' = disturbed
  <2>1. UNCHANGED <<pass, repo, pin, base, overlay, disturbed, work>>
    BY <1>2 DEF Deploy
  <2> QED
    BY <1>1, <2>1, Unread
<1>3. CASE pass.pc = "idle"
  BY <1>1, <1>3, AtRest DEF Deploy
<1>4. CASE ~(base' = base /\ disturbed' = disturbed) /\ pass.pc # "idle"
  <2>1. DeployAccepts(request) /\ request.kind # "shared"
    BY <1>4 DEF Deploy, Arrived, RolloutInv, RolloutTypeInv
  <2>2. disturbed' /\ UNCHANGED <<pass, repo>>
    BY <1>4, <2>1 DEF Deploy
  <2> QED
    BY <1>1, <1>4, <2>2 DEF RolloutInv, PassInv, PassBuildInv, PassPublishInv, PassEndInv
<1> QED
  BY <1>2, <1>3, <1>4

\* A pass of republish-all that nobody disturbs leaves every project given on
\* the schema of the selfdoc that ran it, its posts too, agreeing about every
\* word, for a workflow that pins a selfdoc which reads them.
THEOREM UndisturbedPassesAreWhole == RolloutSpec => []PassMakesTheSiteNew
<1>1. RolloutInit => RolloutInv
  BY RolloutStarts
<1>2. RolloutInv /\ [RolloutNext]_rolloutVars => RolloutInv'
  <2> SUFFICES ASSUME RolloutInv, [RolloutNext]_rolloutVars PROVE RolloutInv'
    OBVIOUS
  <2>1. CASE PassGoesOn \/ PassStops
    BY <2>1, PassKeepsRollout
  <2>2. CASE Operator \/ Everyone
    BY <2>2, OthersKeepRollout
  <2>3. CASE \E request \in requests : Deploy(request)
    BY <2>3, DeploysKeepRollout
  <2>4. CASE UNCHANGED rolloutVars
    <3>1. RolloutTypeInv'
      BY <2>4 DEF rolloutVars, RolloutInv, RolloutTypeInv
    <3> QED
      BY <2>4, <3>1, Unread DEF rolloutVars
  <2> QED
    BY <2>1, <2>2, <2>3, <2>4 DEF RolloutNext
<1>3. RolloutInv => PassMakesTheSiteNew
  BY DEF RolloutInv, PassInv, PassEndInv, SiteIsNew, OfThisSchema, PassMakesTheSiteNew
<1> QED
  BY <1>1, <1>2, <1>3, PTL DEF RolloutSpec

-------------------------------------------------------------------------------
\* The unified site (UnifiedSite).

Unfinished == {"constituents", "common", "posts", "files", "index"}

\* What one build is made of, and what it has done to the docs trees: it
\* remembers all it wrote there, for as long as no write failed and no removal.
BuildInv ==
    /\ build = [phase |-> build.phase, next |-> build.next, injected |-> build.injected,
                partition |-> build.partition, cards |-> build.cards]
    /\ build.next \in Nat \ {0} /\ spoilt \in Nat
    /\ build.phase \in Unfinished \cup {"idle", "setup", "partition", "cleanup"}
    /\ build.phase = "idle" => build = NoBuild
    /\ build.injected \subseteq injected
    /\ spoilt = 0 => injected = build.injected

AnswerInv ==
    /\ build.phase \notin {"idle", "cleanup"} => answer = "running"
    /\ build.phase = "cleanup" => answer \in {"running", "failing"}

\* The partition of an owner holds a page for each post of that owner.
PartitionInv ==
    /\ \A o \in DOMAIN build.partition : \A s \in docs[o].posts :
         PostPage(s) \in build.partition[o].site
    /\ build.phase = "partition" =>
         /\ build.next <= Len(SetupOrder)
         /\ \A s \in docs[SetupOwner].posts : <<SetupOwner, PostPage(s)>> \in injected

\* Who has a partition: those the setup has seen to, the docs-site at the end of
\* it, and every project whose pass was made.
CoverInv ==
    /\ build.phase = "setup" /\ build.next > Len(SetupOrder) => Common \in DOMAIN build.partition
    /\ build.phase \in Unfinished => Common \in DOMAIN build.partition
    /\ build.phase = "constituents" =>
         \A i \in 1 .. PassCount : i < build.next => PassProject(i) \in DOMAIN build.partition
    /\ build.phase \in Unfinished \ {"constituents"} => Owners \subseteq DOMAIN build.partition

PostsServed ==
    \A o \in Owners : \A s \in docs[o].posts :
      /\ SiteLevelAddress(PostPage(s)) \in DOMAIN site
      /\ site[SiteLevelAddress(PostPage(s))].owner = o

\* From the shared posts on, unless the build fails.
ServedInv ==
    (\/ build.phase \in {"files", "index"}
     \/ build.phase = "cleanup" /\ answer = "running"
     \/ answer = "built") => PostsServed

UnifiedInv == BuildInv /\ AnswerInv /\ PartitionInv /\ CoverInv /\ ServedInv

\* A position among the passes falls to each project.
LEMMA ExactQuotient ==
    ASSUME NEW a \in Nat, NEW b \in Nat \ {0}
    PROVE  (a * b) \div b = a
OBVIOUS

LEMMA SmallRemainder ==
    ASSUME NEW a \in Nat, NEW b \in Nat \ {0}, a < b
    PROVE  a % b = a
OBVIOUS

LEMMA Lengths ==
    /\ Len(ProjectList) \in Nat
    /\ Len(VersionList) \in Nat \ {0}
    /\ Len(LocaleList) \in Nat \ {0}
BY ListsAreGiven

LEMMA EveryProjectHasAPass ==
    ASSUME NEW o \in ToSet(ProjectList)
    PROVE  \E i \in 1 .. PassCount : PassProject(i) = o
<1> DEFINE L == Len(LocaleList)
           P == Len(ProjectList)
           V == Len(VersionList)
<1>1. PICK k \in 1 .. P : ProjectList[k] = o
  BY ListsAreGiven DEF ToSet
<1>2. L \in Nat \ {0} /\ P \in Nat /\ V \in Nat \ {0}
  BY Lengths
<1> HIDE DEF L, P, V
<1> DEFINE i == (k - 1) * L + 1
<1>3. k - 1 \in Nat /\ k - 1 < P /\ P # 0 /\ (k - 1) * L \in Nat
  BY <1>2
<1>4. (i - 1) \div L = k - 1
  BY <1>2, <1>3, ExactQuotient
<1>5. (k - 1) % P = k - 1
  BY <1>2, <1>3, SmallRemainder
<1>6. PassProject(i) = ProjectList[k]
  BY <1>2, <1>4, <1>5 DEF PassProject, L, P
<1>7. i \in 1 .. PassCount
  <2>1. (k - 1) * L + L <= P * L
    <3>1. k * L <= P * L /\ (k - 1) * L + L = k * L
      BY <1>1, <1>2
    <3> QED
      BY <3>1
  <2>2. P * L <= V * P * L
    <3>1. P * L \in Nat
      BY <1>2
    <3>2. V * P * L = V * (P * L)
      BY <1>2
    <3> QED
      BY <1>2, <3>1, <3>2
  <2>3. i <= V * P * L
    <3>1. V * P * L \in Nat /\ P * L \in Nat
      BY <1>2
    <3> QED
      BY <1>2, <1>3, <2>1, <2>2, <3>1
  <2> QED
    BY <1>3, <2>3 DEF PassCount, L, P, V
<1> QED
  BY <1>1, <1>6, <1>7

\* A step that fails goes to the cleanup, which remembers what the build wrote.
LEMMA FailureKeepsUnified ==
    ASSUME UnifiedInv, build.phase # "idle", Fails, docs' = docs,
           injected \subseteq injected', spoilt' \in Nat, spoilt' = 0 => UNCHANGED <<injected, spoilt>>
    PROVE  UnifiedInv'
<1>1. /\ build' = [phase |-> "cleanup", next |-> build.next, injected |-> build.injected,
                   partition |-> build.partition, cards |-> build.cards]
      /\ answer' = "failing"
  BY DEF Fails, UnifiedInv, BuildInv
<1>2. BuildInv' /\ AnswerInv'
  BY <1>1 DEF UnifiedInv, BuildInv, AnswerInv
<1>3. PartitionInv' /\ CoverInv' /\ ServedInv'
  BY <1>1 DEF UnifiedInv, PartitionInv, CoverInv, ServedInv, PostPage, Unfinished
<1> QED
  BY <1>2, <1>3 DEF UnifiedInv

\* Nothing is in hand before a build starts, nor after it was cleaned up.
LEMMA IdleKeepsUnified ==
    ASSUME docs' = docs, build' = NoBuild, spoilt' \in Nat, spoilt' = 0 => injected' = {},
           answer' = "built" => PostsServed'
    PROVE  UnifiedInv'
<1>1. BuildInv' /\ AnswerInv' /\ PartitionInv' /\ CoverInv' /\ ServedInv'
  BY DEF NoBuild, BuildInv, AnswerInv, PartitionInv, CoverInv, ServedInv, Unfinished
<1> QED
  BY <1>1 DEF UnifiedInv

LEMMA StartKeepsUnified ==
    ASSUME UnifiedInv, StartRefused \/ StartUnified
    PROVE  UnifiedInv'
<1>1. build = NoBuild /\ build.injected = {} /\ spoilt \in Nat /\ (spoilt = 0 => injected = {})
  BY DEF StartRefused, StartUnified, UnifiedInv, BuildInv, NoBuild
<1>2. CASE StartRefused
  BY <1>1, <1>2, IdleKeepsUnified DEF StartRefused, sources
<1>3. CASE StartUnified
  <2>1. /\ build' = [phase |-> "setup", next |-> 1, injected |-> {}, partition |-> <<>>, cards |-> <<>>]
        /\ answer' = "running" /\ UNCHANGED <<docs, injected, spoilt>>
    BY <1>3 DEF StartUnified, NoBuild, sources
  <2>2. 1 <= Len(SetupOrder)
    BY Lengths, ListsAreGiven DEF SetupOrder
  <2>3. BuildInv' /\ AnswerInv' /\ PartitionInv' /\ ServedInv'
    BY <1>1, <2>1 DEF BuildInv, AnswerInv, PartitionInv, ServedInv
  <2>4. CoverInv'
    BY <2>1, <2>2 DEF CoverInv, Unfinished
  <2> QED
    BY <2>3, <2>4 DEF UnifiedInv
<1> QED
  BY <1>2, <1>3

\* The setup.
LEMMA SetupShape ==
    /\ Len(SetupOrder) \in Nat \ {0}
    /\ SetupOrder[Len(SetupOrder)] = Common
BY ListsAreGiven, Lengths DEF SetupOrder

LEMMA PassOverKeepsUnified ==
    ASSUME UnifiedInv, PassOver
    PROVE  UnifiedInv'
<1>1. /\ build' = [phase |-> "setup", next |-> build.next + 1, injected |-> build.injected,
                   partition |-> build.partition, cards |-> build.cards]
      /\ UNCHANGED <<docs, injected, answer, spoilt>>
      /\ build.phase = "setup" /\ build.next < Len(SetupOrder) /\ build.next \in Nat
  BY SetupShape DEF PassOver, Continues, SettingUp, SetupOwner, UnifiedInv, BuildInv, sources
<1>2. BuildInv' /\ AnswerInv' /\ PartitionInv' /\ ServedInv'
  BY <1>1 DEF UnifiedInv, BuildInv, AnswerInv, PartitionInv, ServedInv, PostPage
<1>3. CoverInv'
  BY <1>1, SetupShape DEF CoverInv, Unfinished
<1> QED
  BY <1>2, <1>3 DEF UnifiedInv

LEMMA InjectKeepsUnified ==
    ASSUME UnifiedInv, NEW files, InjectPosts(files)
    PROVE  UnifiedInv'
<1>1. /\ SettingUp /\ files \subseteq PostDocsPayloads(SetupOwner) /\ docs' = docs
      /\ injected' = injected \cup ({SetupOwner} \X files)
      /\ spoilt \in Nat
  BY DEF InjectPosts, sources, UnifiedInv, BuildInv
<1>2. CASE files = PostDocsPayloads(SetupOwner)
  <2>1. /\ build' = [phase |-> "partition", next |-> build.next,
                     injected |-> build.injected \cup ({SetupOwner} \X files),
                     partition |-> build.partition, cards |-> build.cards]
        /\ UNCHANGED <<answer, spoilt>>
    BY <1>2 DEF InjectPosts, Remembers, UnifiedInv, BuildInv
  <2>2. BuildInv' /\ AnswerInv'
    BY <1>1, <2>1 DEF UnifiedInv, BuildInv, AnswerInv, SettingUp
  <2>3. SetupOwner' = SetupOwner /\ SettingUp /\ Len(SetupOrder)' = Len(SetupOrder)
    BY <1>1, <2>1 DEF SetupOwner
  <2>4. \A s \in docs[SetupOwner].posts : <<SetupOwner, PostPage(s)>> \in injected'
    BY <1>1, <1>2 DEF PostDocsPayloads
  <2>5. PartitionInv'
    BY <1>1, <2>1, <2>3, <2>4 DEF UnifiedInv, PartitionInv, SettingUp, PostPage
  <2>6. CoverInv' /\ ServedInv'
    BY <1>1, <2>1 DEF UnifiedInv, CoverInv, AnswerInv, ServedInv, SettingUp, Unfinished
  <2> QED
    BY <2>2, <2>5, <2>6 DEF UnifiedInv
<1>3. CASE files # PostDocsPayloads(SetupOwner)
  <2>1. Fails /\ spoilt' = spoilt + 1
    BY <1>3 DEF InjectPosts
  <2> QED
    BY <1>1, <2>1, FailureKeepsUnified DEF SettingUp
<1> QED
  BY <1>2, <1>3

\* The posts of an owner are in the partition of its docs tree.
LEMMA PostsArePartitioned ==
    ASSUME UnifiedInv, build.phase = "partition", NEW s \in docs[SetupOwner].posts
    PROVE  PostPage(s) \in PartitionPages(SetupOwner).site
<1> DEFINE written == <<SetupOwner, PostPage(s)>>
<1>1. PostPage(s) \in InjectedInto(SetupOwner)
  <2>1. written \in injected /\ written[1] = SetupOwner /\ written[2] = PostPage(s)
    BY DEF UnifiedInv, PartitionInv
  <2>2. written \in {j \in injected : j[1] = SetupOwner}
    BY <2>1
  <2> HIDE DEF written
  <2> QED
    BY <2>1, <2>2 DEF InjectedInto
<1>2. IsSiteLevelPage(PostPage(s))
  BY DEF IsSiteLevelPage, PostPage
<1> QED
  BY <1>1, <1>2 DEF PartitionPages, WorkingTree

LEMMA PartitionKeepsUnified ==
    ASSUME UnifiedInv, PartitionOwner
    PROVE  UnifiedInv'
<1>1. /\ UNCHANGED <<docs, injected, site, spoilt>> /\ build.phase = "partition"
      /\ spoilt \in Nat
  BY DEF PartitionOwner, sources, UnifiedInv, BuildInv
<1>2. CASE Wrong("unresolved", SetupOwner)
  BY <1>1, <1>2, FailureKeepsUnified DEF PartitionOwner
<1>3. CASE ~Wrong("unresolved", SetupOwner)
  <2> DEFINE kept == [o \in DOMAIN build.partition \cup {SetupOwner} |->
                        IF o = SetupOwner THEN PartitionPages(o) ELSE build.partition[o]]
  <2>1. /\ build' = [phase |-> "setup", next |-> build.next + 1, injected |-> build.injected,
                     partition |-> kept, cards |-> build.cards]
        /\ answer' = answer
    BY <1>1, <1>3 DEF PartitionOwner, UnifiedInv, BuildInv
  <2>2. BuildInv' /\ AnswerInv' /\ ServedInv'
    BY <1>1, <2>1 DEF UnifiedInv, BuildInv, AnswerInv, ServedInv
  <2>3. PartitionInv'
    <3>1. ASSUME NEW o \in DOMAIN build'.partition, NEW s \in docs[o].posts
          PROVE  PostPage(s) \in build'.partition[o].site
      <4>1. CASE o = SetupOwner
        BY <1>1, <2>1, <3>1, <4>1, PostsArePartitioned
      <4>2. CASE o # SetupOwner
        BY <2>1, <3>1, <4>2 DEF UnifiedInv, PartitionInv
      <4> QED
        BY <4>1, <4>2
    <3> QED
      BY <1>1, <2>1, <3>1 DEF PartitionInv, PostPage
  <2>4. CoverInv'
    <3>1. build.next \in Nat /\ build.next <= Len(SetupOrder)
      BY <1>1 DEF UnifiedInv, BuildInv, PartitionInv
    <3>2. build'.next > Len(SetupOrder) => SetupOwner = Common
      BY <2>1, <3>1, SetupShape DEF SetupOwner
    <3>3. SetupOwner \in DOMAIN build'.partition
      BY <2>1
    <3> QED
      BY <2>1, <3>2, <3>3 DEF CoverInv, Unfinished
  <2> QED
    BY <2>2, <2>3, <2>4 DEF UnifiedInv
<1> QED
  BY <1>2, <1>3

LEMMA SetupEndKeepsUnified ==
    ASSUME UnifiedInv, SetupEnds
    PROVE  UnifiedInv'
<1>1. /\ UNCHANGED <<docs, injected, site, spoilt>> /\ build.phase = "setup"
      /\ spoilt \in Nat /\ Common \in DOMAIN build.partition
  BY DEF SetupEnds, sources, UnifiedInv, BuildInv, CoverInv
<1>2. CASE Fails
  BY <1>1, <1>2, FailureKeepsUnified
<1>3. CASE Goes("constituents")
  <2>1. /\ build' = [phase |-> "constituents", next |-> 1, injected |-> build.injected,
                     partition |-> build.partition, cards |-> build.cards]
        /\ answer' = answer
    BY <1>3 DEF Goes, UnifiedInv, BuildInv
  <2>2. BuildInv' /\ AnswerInv' /\ PartitionInv' /\ ServedInv'
    BY <1>1, <2>1 DEF UnifiedInv, BuildInv, AnswerInv, PartitionInv, ServedInv, PostPage, Unfinished
  <2>3. CoverInv'
    BY <1>1, <2>1, Lengths DEF CoverInv, Unfinished, PassCount
  <2> QED
    BY <2>2, <2>3 DEF UnifiedInv
<1> QED
  BY <1>2, <1>3 DEF SetupEnds

\* The passes. What one of them does to the build leaves its partition alone.
LEMMA GoingOnKeepsUnified ==
    ASSUME UnifiedInv, UNCHANGED <<docs, injected, spoilt>>,
           NEW phase \in {"common", "posts", "files", "index"}, Goes(phase),
           build.phase \in Unfinished, Owners \subseteq DOMAIN build.partition,
           phase \in {"files", "index"} => PostsServed'
    PROVE  UnifiedInv'
<1>1. /\ build' = [phase |-> phase, next |-> 1, injected |-> build.injected,
                   partition |-> build.partition, cards |-> build.cards]
      /\ answer' = "running"
  BY DEF Goes, UnifiedInv, BuildInv, AnswerInv, Unfinished
<1>2. BuildInv' /\ AnswerInv' /\ PartitionInv'
  BY <1>1 DEF UnifiedInv, BuildInv, AnswerInv, PartitionInv, PostPage, Unfinished
<1>3. CoverInv' /\ ServedInv'
  BY <1>1 DEF UnifiedInv, CoverInv, ServedInv, Unfinished, Owners
<1> QED
  BY <1>2, <1>3 DEF UnifiedInv

LEMMA ConstituentKeepsUnified ==
    ASSUME UnifiedInv, BuildConstituent
    PROVE  UnifiedInv'
<1>1. /\ UNCHANGED <<docs, injected, spoilt>> /\ build.phase = "constituents"
      /\ build.next \in 1 .. PassCount /\ spoilt \in Nat
  BY Lengths DEF BuildConstituent, sources, UnifiedInv, BuildInv, PassCount
<1> DEFINE v == PassVersion(build.next)
           o == PassProject(build.next)
           l == PassLocale(build.next)
<1>2. CASE PassFails(v, o)
  BY <1>1, <1>2, FailureKeepsUnified DEF BuildConstituent
<1>3. CASE ~PassFails(v, o)
  <2>1. PICK cards :
          /\ build' = [phase |-> "constituents", next |-> build.next + 1,
                       injected |-> build.injected, partition |-> build.partition,
                       cards |-> cards]
          /\ answer' = answer
    BY <1>1, <1>3 DEF BuildConstituent, UnifiedInv, BuildInv
  <2>2. o \in DOMAIN build.partition
    BY <1>3 DEF PassFails
  <2>3. BuildInv' /\ AnswerInv' /\ PartitionInv' /\ ServedInv'
    BY <1>1, <2>1 DEF UnifiedInv, BuildInv, AnswerInv, PartitionInv, ServedInv, PostPage, Unfinished
  <2>4. CoverInv'
    BY <1>1, <2>1, <2>2 DEF UnifiedInv, CoverInv, Unfinished, PassCount
  <2> QED
    BY <2>3, <2>4 DEF UnifiedInv
<1> QED
  BY <1>2, <1>3

\* Every project had a pass, and no pass is made of a project without partition.
LEMMA UnversionedKeepsUnified ==
    ASSUME UnifiedInv, BuildConstituentUnversioned
    PROVE  UnifiedInv'
<1>1. /\ UNCHANGED <<docs, injected, spoilt>> /\ build.phase = "constituents"
      /\ build.next > PassCount /\ build.next \in Nat /\ Goes("common")
  BY DEF BuildConstituentUnversioned, sources, UnifiedInv, BuildInv
<1>2. ASSUME NEW o \in ToSet(ProjectList)
      PROVE  o \in DOMAIN build.partition
  <2>1. PICK i \in 1 .. PassCount : PassProject(i) = o
    BY <1>2, EveryProjectHasAPass
  <2>2. i < build.next
    BY <1>1, <2>1, Lengths DEF PassCount
  <2> QED
    BY <1>1, <2>1, <2>2 DEF UnifiedInv, CoverInv
<1>3. Owners \subseteq DOMAIN build.partition
  BY <1>1, <1>2 DEF Owners, UnifiedInv, CoverInv, Unfinished
<1> QED
  BY <1>1, <1>3, GoingOnKeepsUnified DEF Unfinished

LEMMA CommonKeepsUnified ==
    ASSUME UnifiedInv, BuildCommon
    PROVE  UnifiedInv'
<1>1. /\ UNCHANGED <<docs, injected, spoilt>> /\ build.phase = "common" /\ spoilt \in Nat
      /\ Owners \subseteq DOMAIN build.partition
  BY DEF BuildCommon, sources, UnifiedInv, BuildInv, CoverInv, Unfinished
<1>2. Fails \/ Goes("posts")
  BY DEF BuildCommon
<1> QED
  BY <1>1, <1>2, FailureKeepsUnified, GoingOnKeepsUnified DEF Unfinished

\* A post is no listing, and its address is its own among the files of a site.
LEMMA PostsHavePages ==
    ASSUME NEW s
    PROVE  PostPage(s) # Listing /\ PostPage(s) # <<"index">> /\ PostPage(s) # <<"projects">>
<1>1. Len(PostPage(s)) = 2 /\ Len(Listing) = 1 /\ Len(<<"index">>) = 1 /\ Len(<<"projects">>) = 1
  BY DEF PostPage, Listing
<1> QED
  BY <1>1

LEMMA SiteLevelKeepsUnified ==
    ASSUME UnifiedInv, BuildSiteLevelPages
    PROVE  UnifiedInv'
<1>1. /\ UNCHANGED <<docs, injected, spoilt>> /\ build.phase = "posts" /\ spoilt \in Nat
      /\ Owners \subseteq DOMAIN build.partition
  BY DEF BuildSiteLevelPages, sources, UnifiedInv, BuildInv, CoverInv, Unfinished
<1>2. CASE ~SlugsAreUnique
  BY <1>1, <1>2, FailureKeepsUnified DEF BuildSiteLevelPages
<1>3. CASE SlugsAreUnique
  <2> DEFINE shared == {SiteLevelAddress(p) : p \in UNION {PostPages(o) : o \in DOMAIN build.partition}}
             posted == [a \in shared |-> [owner |-> CHOOSE o \in DOMAIN build.partition : a.page \in PostPages(o),
                                          from  |-> "posts"]]
  <2>1. Goes("files") /\ site' = Written(posted)
    BY <1>3 DEF BuildSiteLevelPages
  <2>2. ASSUME NEW o \in Owners, NEW s \in docs[o].posts
        PROVE  /\ SiteLevelAddress(PostPage(s)) \in DOMAIN site'
               /\ site'[SiteLevelAddress(PostPage(s))].owner = o
    <3> DEFINE a == SiteLevelAddress(PostPage(s))
    <3>1. o \in DOMAIN build.partition /\ PostPage(s) \in PostPages(o)
      BY <1>1, <2>2, PostsHavePages DEF PostPages, UnifiedInv, PartitionInv
    <3>2. a \in shared /\ a.page = PostPage(s)
      BY <3>1 DEF SiteLevelAddress
    <3>3. \A other \in DOMAIN build.partition : PostPage(s) \in PostPages(other) => other = o
      BY <1>3, <3>1 DEF SlugsAreUnique
    <3>4. posted[a].owner = o
      <4>1. (CHOOSE other \in DOMAIN build.partition : a.page \in PostPages(other)) = o
        BY <3>1, <3>2, <3>3
      <4> QED
        BY <3>2, <4>1
    <3>5. DOMAIN posted = shared
      OBVIOUS
    <3>6. a \in DOMAIN Written(posted) /\ Written(posted)[a] = posted[a]
      <4> HIDE DEF posted, shared, a
      <4> QED
        BY <3>2, <3>5 DEF Written
    <3> QED
      BY <2>1, <3>4, <3>6
  <2>3. PostsServed'
    BY <1>1, <2>2 DEF PostsServed, PostPage, SiteLevelAddress, Owners
  <2> QED
    BY <1>1, <2>1, <2>3, GoingOnKeepsUnified DEF Unfinished
<1> QED
  BY <1>2, <1>3

LEMMA FilesKeepUnified ==
    ASSUME UnifiedInv, WriteSiteFiles
    PROVE  UnifiedInv'
<1>1. /\ UNCHANGED <<docs, injected, spoilt>> /\ build.phase = "files" /\ spoilt \in Nat
      /\ Owners \subseteq DOMAIN build.partition /\ PostsServed
  BY DEF WriteSiteFiles, sources, UnifiedInv, BuildInv, CoverInv, ServedInv, Unfinished
<1>2. CASE Wrong("base_url", Common)
  BY <1>1, <1>2, FailureKeepsUnified DEF WriteSiteFiles
<1>3. CASE ~Wrong("base_url", Common)
  <2> DEFINE own == Content("build", "work", {LandingPage, SiteLevelAddress(<<"index">>)})
  <2>1. Goes("index") /\ site' = Written(own)
    BY <1>3 DEF WriteSiteFiles
  <2>2. ASSUME NEW o \in Owners, NEW s \in docs[o].posts
        PROVE  /\ SiteLevelAddress(PostPage(s)) \in DOMAIN site'
               /\ site'[SiteLevelAddress(PostPage(s))].owner = o
    <3> DEFINE a == SiteLevelAddress(PostPage(s))
    <3>1. a \in DOMAIN site /\ site[a].owner = o
      BY <1>1, <2>2 DEF PostsServed
    <3>2. a.page = PostPage(s) /\ LandingPage.page = <<"projects">>
          /\ SiteLevelAddress(<<"index">>).page = <<"index">>
      BY DEF SiteLevelAddress, LandingPage, MountAddress
    <3>3. a \notin DOMAIN own
      BY <3>2, PostsHavePages DEF Content
    <3>4. a \in DOMAIN Written(own) /\ Written(own)[a] = site[a]
      <4> HIDE DEF own, a
      <4> QED
        BY <3>1, <3>3 DEF Written
    <3> QED
      BY <2>1, <3>1, <3>4
  <2>3. PostsServed'
    BY <1>1, <2>2 DEF PostsServed, PostPage, SiteLevelAddress, Owners
  <2> QED
    BY <1>1, <2>1, <2>3, GoingOnKeepsUnified DEF Unfinished
<1> QED
  BY <1>2, <1>3

LEMMA IndexKeepsUnified ==
    ASSUME UnifiedInv, IndexAndCompress
    PROVE  UnifiedInv'
<1>1. /\ UNCHANGED <<docs, injected, site, spoilt>> /\ build.phase = "index" /\ spoilt \in Nat
      /\ PostsServed
  BY DEF IndexAndCompress, sources, UnifiedInv, BuildInv, ServedInv
<1>2. CASE Fails
  BY <1>1, <1>2, FailureKeepsUnified
<1>3. CASE build' = [build EXCEPT !.phase = "cleanup"] /\ UNCHANGED answer
  <2>1. /\ build' = [phase |-> "cleanup", next |-> build.next, injected |-> build.injected,
                     partition |-> build.partition, cards |-> build.cards]
        /\ answer' = answer
    BY <1>3 DEF UnifiedInv, BuildInv
  <2>2. BuildInv' /\ AnswerInv' /\ PartitionInv' /\ CoverInv'
    BY <1>1, <2>1 DEF UnifiedInv, BuildInv, AnswerInv, PartitionInv, CoverInv, PostPage, Unfinished
  <2>3. ServedInv'
    BY <1>1, <2>1 DEF ServedInv, PostsServed, PostPage, SiteLevelAddress, Owners
  <2> QED
    BY <2>2, <2>3 DEF UnifiedInv
<1> QED
  BY <1>2, <1>3 DEF IndexAndCompress

LEMMA EndKeepsUnified ==
    ASSUME UnifiedInv, (\E left \in SUBSET build.injected : CleanUp(left)) \/ KillUnified
    PROVE  UnifiedInv'
<1>1. CASE KillUnified
  BY <1>1, IdleKeepsUnified DEF KillUnified, sources, UnifiedInv, BuildInv
<1>2. ASSUME NEW left \in SUBSET build.injected, CleanUp(left)
      PROVE  UnifiedInv'
  <2>1. /\ UNCHANGED <<docs, site>> /\ build' = NoBuild /\ spoilt \in Nat
        /\ build.phase = "cleanup"
    BY <1>2 DEF CleanUp, sources, UnifiedInv, BuildInv
  <2>2. spoilt' \in Nat /\ (spoilt' = 0 => injected' = {})
    <3>1. CASE left = {}
      BY <1>2, <3>1 DEF CleanUp, UnifiedInv, BuildInv
    <3>2. CASE left # {}
      BY <1>2, <2>1, <3>2 DEF CleanUp
    <3> QED
      BY <3>1, <3>2
  <2>3. answer' = "built" => PostsServed
    BY <1>2, <2>1 DEF CleanUp, UnifiedInv, AnswerInv, ServedInv
  <2>4. answer' = "built" => PostsServed'
    BY <2>1, <2>3 DEF PostsServed, PostPage, SiteLevelAddress, Owners
  <2> QED
    BY <2>1, <2>2, <2>4, IdleKeepsUnified
<1> QED
  BY <1>1, <1>2

\* However a unified build ends, as long as nothing was killed and every file
\* could be written and removed, the docs trees hold what their authors wrote;
\* and a site that was built serves every post of every project, by its own
\* project, for any projects, versions, locales and posts.
THEOREM UnifiedBuildsAreWhole == UnifiedSpec => [](TreesAreLeftClean /\ PostsReachTheSite)
<1>1. UnifiedInit => UnifiedInv
  BY DEF UnifiedInit, NoBuild, UnifiedInv, BuildInv, AnswerInv, PartitionInv, CoverInv, ServedInv,
         Unfinished
<1>2. UnifiedInv /\ [UnifiedNext]_unifiedVars => UnifiedInv'
  <2> SUFFICES ASSUME UnifiedInv, [UnifiedNext]_unifiedVars PROVE UnifiedInv'
    OBVIOUS
  <2>1. CASE LoadFails \/ InjectionRefused
    BY <2>1, FailureKeepsUnified
       DEF LoadFails, InjectionRefused, SettingUp, sources, UnifiedInv, BuildInv
  <2>2. CASE StartRefused \/ StartUnified
    BY <2>2, StartKeepsUnified
  <2>3. CASE \E files \in SUBSET UNION {PostDocsPayloads(o) : o \in Owners} : InjectPosts(files)
    BY <2>3, InjectKeepsUnified
  <2>4. CASE UNCHANGED unifiedVars
    BY <2>4 DEF unifiedVars, UnifiedInv, BuildInv, AnswerInv, PartitionInv, CoverInv, ServedInv,
                PostsServed, SetupOwner
  <2> QED
    BY <2>1, <2>2, <2>3, <2>4, PassOverKeepsUnified, PartitionKeepsUnified, SetupEndKeepsUnified,
       ConstituentKeepsUnified, UnversionedKeepsUnified, CommonKeepsUnified,
       SiteLevelKeepsUnified, FilesKeepUnified, IndexKeepsUnified, EndKeepsUnified
       DEF UnifiedNext
<1>3. UnifiedInv => TreesAreLeftClean /\ PostsReachTheSite
  BY DEF UnifiedInv, BuildInv, ServedInv, PostsServed, NoBuild, TreesAreLeftClean, PostsReachTheSite
<1> QED
  BY <1>1, <1>2, <1>3, PTL DEF UnifiedSpec
===============================================================================
