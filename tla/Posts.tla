--------------------------------- MODULE Posts --------------------------------
(* A project's blog posts: the files their author writes, the manifest gen     *)
(* records them in (internal/manifest) and git keeps, the revisions sidecar    *)
(* (internal/revisions), and selfdoc post publish (cmdPostPublish), which puts *)
(* the posts that are not drafts on the assembled site.                        *)
EXTENDS Naturals, Sequences, FiniteSets, SequencesExt

CONSTANTS
  Paths,         \* post files
  OwnSlug,       \* [Paths -> slugs]: what a scaffold names the post of a path
  Bodies,        \* what posts may say
  None,          \* no file, no manifest, no page
  MaxEdits       \* bound on what the author does

ASSUME NoneIsNothing ==
  /\ None \notin Bodies
  /\ None \notin Paths
  /\ None \notin [slug : {OwnSlug[path] : path \in Paths}, body : Bodies,
                 status : {"draft", "published", "invalid"}]

Slugs == {OwnSlug[path] : path \in Paths}
Statuses == {"draft", "published", "invalid"}

VARIABLES
  edits,      \* how often the author wrote or deleted a post (bounds the run)
  posts,      \* [Paths -> [slug, body, status]], or None
  manifest,   \* the posts of the manifest on disk: a sequence of [path, slug]
  head,       \* those of the manifest at git HEAD
  revisions,  \* [Slugs -> Seq(Bodies)]: the sidecar
  publishing, \* the publish under way
  live,       \* [Slugs -> body, or None]: what the site serves under blog/
  origin,     \* [Slugs -> Paths]: the file a live page was built from (history)
  sent        \* what was pushed beside the pages: the sidecar, the posts' manifest

postVars == <<edits, posts, manifest, head, revisions, publishing, live, origin, sent>>

Idle == [at |-> "idle", found |-> {}]
Post(slug, body, status) == [slug |-> slug, body |-> body, status |-> status]
Files == {path \in Paths : posts[path] # None}
Listed(entries) == {entries[i].path : i \in DOMAIN entries}

-------------------------------------------------------------------------------
(* Discover refuses a post that does not parse or whose slug is not the one    *)
(* the committed manifest lists it under, and two posts of one slug.  A caller *)
(* without the project's root has no committed manifest to compare with.       *)

(* publishedSlugs: the last entry of a path decides.                           *)
publishedSlug(path) ==
  IF head = None \/ path \notin Listed(head) THEN None
  ELSE head[CHOOSE i \in DOMAIN head :
              head[i].path = path /\ \A j \in DOMAIN head : j > i => head[j].path # path].slug

RefusalsByFile(withRoot) ==  \* mutant: no caller hands the root over
  {[path |-> path, lint |-> "malformed"] : path \in {p \in Files : posts[p].status = "invalid"}}
  \cup {[path |-> path, lint |-> "duplicate-post-slug"] :
          path \in {p \in Files : \E q \in Files \ {p} : posts[q].slug = posts[p].slug}}

Refusals(withRoot) ==
  {[path |-> path, lint |-> "malformed"] : path \in {p \in Files : posts[p].status = "invalid"}}
  \cup {[path |-> path, lint |-> "changed-published-post-slug"] :
          path \in {p \in Files : withRoot /\ publishedSlug(p) \notin {None, posts[p].slug}}}
  \cup {[path |-> path, lint |-> "duplicate-post-slug"] :
          path \in {p \in Files : \E q \in Files \ {p} : posts[q].slug = posts[p].slug}}

(* publishedPosts *)
publishedPosts == {path \in Files : posts[path].status = "published"}

ManifestEntries(paths) == SetToSeq({[path |-> path, slug |-> posts[path].slug] : path \in paths})

-------------------------------------------------------------------------------

(* RecordRevision appends a body the latest revision of the slug does not have.*)
RecordedOnPublish(history, body) ==
  IF history # <<>> /\ Last(history) = body THEN history ELSE Append(history, body)

RecordRevisions ==
  [slug \in Slugs |->
     IF \E path \in publishedPosts : posts[path].slug = slug
     THEN RecordedOnPublish(revisions[slug],
                   posts[CHOOSE p \in publishedPosts : posts[p].slug = slug].body)
     ELSE revisions[slug]]

-------------------------------------------------------------------------------
Quiet == publishing = Idle  \* nobody edits or commits while a publish runs

Authoring == Quiet /\ edits < MaxEdits /\ edits' = edits + 1

(* cmdPostNew: never over a file.                                              *)
PostNew(path, body) ==
  /\ Authoring /\ posts[path] = None
  /\ posts' = [posts EXCEPT ![path] = Post(OwnSlug[path], body, "draft")]
  /\ UNCHANGED <<manifest, head, revisions, publishing, live, origin, sent>>

(* cmdPostGenerate: over whatever the file held; the manifest is patched when  *)
(* there is one and written with this post alone when there is none.           *)
PostGenerate(path, body) ==
  LET entry == [path |-> path, slug |-> OwnSlug[path]]
  IN /\ Authoring
     /\ posts' = [posts EXCEPT ![path] = Post(OwnSlug[path], body, "published")]
     /\ manifest' = IF manifest = None THEN <<entry>> ELSE Append(manifest, entry)
     /\ UNCHANGED <<head, revisions, publishing, live, origin, sent>>

Edit(path, post) ==
  /\ Authoring /\ posts[path] # None /\ posts' = [posts EXCEPT ![path] = post]
  /\ UNCHANGED <<manifest, head, revisions, publishing, live, origin, sent>>
Delete(path) ==
  /\ Authoring /\ posts[path] # None /\ posts' = [posts EXCEPT ![path] = None]
  /\ UNCHANGED <<manifest, head, revisions, publishing, live, origin, sent>>
Commit ==
  /\ Quiet /\ manifest # None /\ head' = manifest
  /\ UNCHANGED <<edits, posts, manifest, revisions, publishing, live, origin, sent>>

(* cmdGen: discovery, then the manifest, committed unless that is turned off.  *)
GenPosts(autoCommit) ==
  /\ Quiet /\ Refusals(TRUE) = {}
  /\ manifest' = ManifestEntries(publishedPosts)
  /\ head' = IF autoCommit THEN manifest' ELSE head
  /\ UNCHANGED <<edits, posts, revisions, publishing, live, origin, sent>>

-------------------------------------------------------------------------------
(* cmdPostPublish: the posts are discovered without the root, their revisions  *)
(* recorded; BuildPostsOnly discovers them again, with it; then one push.      *)
StartPublish ==
  /\ Quiet /\ Refusals(FALSE) = {} /\ publishedPosts # {}
  /\ revisions' = RecordRevisions
  /\ publishing' = [at |-> "recorded", found |-> publishedPosts]
  /\ UNCHANGED <<edits, posts, manifest, head, live, origin, sent>>

BuildPostsOnly ==
  /\ publishing.at = "recorded"
  /\ publishing' = IF Refusals(TRUE) # {} THEN Idle
                   ELSE [at |-> "built", found |-> publishedPosts]
  /\ UNCHANGED <<edits, posts, manifest, head, revisions, live, origin, sent>>

(* The build's post manifest, and the pages of what was discovered; what the   *)
(* project published before and does not any more is deleted (PrunePlan).  The *)
(* archive of the sources in a second repository is left out.                  *)
postManifest == {posts[path].slug : path \in publishedPosts}

PushHead ==
  /\ publishing.at = "built" /\ publishing' = Idle
  /\ LET PathOf(slug) == {path \in publishing.found : posts[path].slug = slug}
     IN /\ live' = [slug \in Slugs |-> IF PathOf(slug) = {} THEN None
                                       ELSE posts[CHOOSE p \in PathOf(slug) : TRUE].body]
        /\ origin' = [slug \in Slugs |-> IF PathOf(slug) = {} THEN None
                                         ELSE CHOOSE p \in PathOf(slug) : TRUE]
  /\ sent' = [revisions |-> revisions, slugs |-> postManifest]
  /\ UNCHANGED <<edits, posts, manifest, head, revisions>>

(* The push is refused: another project claims the slug, or the branch moved.  *)
PushRefused ==
  /\ publishing.at = "built" /\ publishing' = Idle
  /\ UNCHANGED <<edits, posts, manifest, head, revisions, live, origin, sent>>

-------------------------------------------------------------------------------
PostsInit ==
  /\ edits = 0
  /\ posts = [path \in Paths |-> None] /\ manifest = None /\ head = None
  /\ revisions = [slug \in Slugs |-> <<>>] /\ publishing = Idle
  /\ live = [slug \in Slugs |-> None] /\ origin = [slug \in Slugs |-> None]
  /\ sent = [revisions |-> revisions, slugs |-> {}]

PostsNext ==
  \/ \E path \in Paths, body \in Bodies :
       \/ PostNew(path, body) \/ PostGenerate(path, body)
       \/ \E slug \in Slugs, status \in Statuses : Edit(path, Post(slug, body, status))
  \/ \E path \in Paths : Delete(path)
  \/ Commit \/ \E autoCommit \in BOOLEAN : GenPosts(autoCommit)
  \/ StartPublish \/ BuildPostsOnly \/ PushHead \/ PushRefused

PostsSpec == PostsInit /\ [][PostsNext]_postVars

-------------------------------------------------------------------------------
(* The page a reader is served is the latest revision the site has of the post *)
(* (GetLastUpdated), whatever publishes were refused in between.               *)
LastRevisionIsLive ==
  \A slug \in Slugs : live[slug] # None =>
    sent.revisions[slug] # <<>> /\ Last(sent.revisions[slug]) = live[slug]

(* The posts' manifest the site's listing is made from lists what is served.   *)
ListingIsTheSite == sent.slugs = {slug \in Slugs : live[slug] # None}

(* A publish puts no post at a slug the committed manifest does not list it    *)
(* under: the first discovery does not look, the second one does.              *)
CommittedSlugsHold ==
  [][publishing.at = "built" /\ live' # live =>
       \A slug \in Slugs : origin'[slug] # None =>
         publishedSlug(origin'[slug]) \in {None, slug}]_postVars

(* What is live, what is recorded of it, what the listing says and what slug  *)
(* it was committed under agree, whatever publishes were refused in between.  *)
PostsAreAsRecorded == []LastRevisionIsLive /\ []ListingIsTheSite /\ CommittedSlugsHold
===============================================================================
