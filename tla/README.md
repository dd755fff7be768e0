# selfdoc, specified

selfdoc builds documentation sites from Go, C++, Python and other projects and,
for a group of projects, maintains an *assembly*: one git repository that holds
the built pages of every project, the manifests they came with and the pages
generated from all of them, and that a GitHub workflow deploys to Cloudflare.

Three kinds of behaviour make it hard. The assembly is moved by workflow runs,
by people publishing through the GitHub API and by an operator with an editor,
none of which hold a lock. Two local servers, the blog editor and the live
reload server, have a browser on the other end. And the commands of one author,
sequential as they are, work on files that outlive them: a store of hashes, a
cache, an output directory, a working tree, a configuration and a layout, which
a person edits in between and which a command that dies half way leaves behind.
Beside these stand the pure parts, where two or three passages of code must
agree about the same text or the same tree of paths without sharing anything.
The specification has modules for all four.

## The system

Paths are under `internal/`. `PROJECT.json` gives each component its files, its
modules and what is left out.

| Component | State | Operations | Interacts with |
| --- | --- | --- | --- |
| assembly deploy (`blog/assembly/integrate.go`, `graft.go`, `workflow.go`, `dispatch.go`, `sharedfiles.go`) | a checkout; the branch; the queue of dispatches; the live site | dispatch, re-sync, reconcile, graft, generate, verify, commit, push, retry, deploy | git, GitHub, wrangler; the operations below |
| assembly tree operations (`blog/site`) | `site/`, `manifests/`, `projects.json`, `roster.toml` | split and graft a build, prune by the published-file record, reconcile and record membership | deploy, publishers, preview |
| assembly verification, outbound links (`blog/verify`, `blog/site/outbound.go`) | the answers kept of outbound links | 20 checks of an assembled tree; asking other sites | called before every commit and by `assembly verify` |
| assembly publishers (`blog/assembly/publish.go`, `retire.go`, `remote.go`, `ghapi.go`; `cli/docs.go`, `post.go`) | what one command has read so far | `docs publish`, `post publish`, `assembly retire` | GitHub contents, trees and refs APIs; dispatches a shared-only run |
| assembly preview (`blog/preview`) | a directory of the author's | assemble the checkouts named on the command line, serve | tree operations, documentation build |
| republish-all (`blog/assembly/republish.go`, `pins.go`, `vocabulary.go`) | as the publishers | the same for every project, on the schema of the running selfdoc | publishers, dispatch, manifest |
| unified site (`blog/unified`) | several projects' docs trees, one output | inject posts, build each constituent per version and locale, clean up | documentation build |
| editor (`blog/editor`, `assets/editor_ui/app.js`, `serving`) | the tab's path, buffer and timers; event streams, previews, link targets, publish lock | open, type, save, preview, analyse; broadcast, search, publish, stop | `post publish` |
| live reload server (`cli/serve.go`) | held streams, modification times | poll, notify, reload | documentation build |
| documentation build (`build`, `page`, `html`, `address`) | output directory, version cache | full, filtered and posts-only builds, sitemaps, feeds, pickers | everything below |
| generation and staleness (`gen`, `staleness`, `ownership`) | pages and the hashes they were generated from | gen, build, check, baseline accept | automatic commit |
| automatic commit (`gitcommit`, `cli/gen.go`, `gendata`) | the working tree, the index, the head | write root files and data files, stage and commit them | git |
| directives, tokenizer, code spans (`directives`, `tokenizer`) | none | read a document's lines, expand | build, checks |
| page rendering, tables, links (`html`, `page`, `resolution`) | none | ids, tabs, cards, steps, terms; navigation; addresses; resolution of what was emitted | build |
| checks and lints (`check`, `resolver`), source walks and coverage (`excludes`), quality report (`quality`) | extracted versions | resolve, credit, report, advise | all readers |
| command line pages (`strictclisupport`) | pages of a declared command line | write, freeze, check | gen, checks |
| posts and revisions (`blog/posts`, `revisions`, `cli/post.go`) | post files, revision records, the posts' manifest | scaffold, edit, publish | manifest, publishers |
| frontmatter (`util`), manifest (`manifest`), vocabulary and spelling (`vocabulary`, `spelling`) | the block of a page; a committed record; the word lists | read, refuse, rewrite; convert; accept, reject, propose, approve | build, checks, assembly |
| configuration (`config`), layout and migration (`layout`, `migrate`) | `selfdoc.json`; the directories of a repository | validate; check, move, rewrite, commit | every command |
| effects handle (`effects`) | files | live and dry runs, files replaced whole, pipelines of processes | every command that writes |
| confidential screen (`confidential`, `assembly/screen.go`), deploy to a provider (`deploy`) | the list of terms, the resolutions, a staging clone | scan, resolve, stage, push, upload | every command that publishes |
| cv pages (`cv`, `content/cv.go`) | a curriculum vitae in TOML | read, refuse, render | build |
| build assets, extractors, editor analysis, shared pages, themes, command line | files | one text made of another | not modelled, see the end |

### What is hard in it

`PROJECT.json` lists each hazard at its line; these are the kinds.

* A run and a publisher decide on one version of the branch and commit to a
  later one. Runs are protected by a re-sync and a fast-forward push in a retry
  loop, publishers by an unforced ref update; what each read *before* the head
  it commits on is protected by nothing. The three publishers of one project
  share one published-file record, one directory and the blog.
* Publishers push trees nobody verified, and every later deploy of every project
  verifies all of it. A push can succeed and be reported as a failure, time out,
  or be lost. The deploy happens after the push, outside the order of the branch.
* The editor's requests run concurrently and are answered in any order, while
  the author types on, saves, or opens another post; its server caches what
  builds rewrite, and stops while streams are open and shells are unread.
* A page is served before its event stream exists, and the watcher walks a tree
  that a build is writing.
* Everything kept across commands can be stale when used: hashes, archives of
  moved tags, kept answers, a directory of an earlier preview, revisions of a
  refused publish, an injected post in `docs/`.
* Everything done in several steps can stop between two: a gen, a build, a
  migration, an approval of a word, a pass over all projects, an atomic write.
* Several readers take one text apart by rules of their own (tokens, directives,
  code spans; gen's walk, a listing, coverage; the table row, its tokens, its
  help), and several writers name pages that another pass emits.
* A refusal tells an author what to do; doing it may meet another refusal, and
  the advice may lead in a circle.

### What makes each component correct

* *Deploy*: an integrate is atomic, only verified trees go live, an older site
  never replaces a newer one, a retry repeats nothing, an integrate touches
  nobody else's files, and everything published is served in the end.
* *Tree operations and publishers*: every file is claimed by exactly who put it
  there, pruning removes what its publisher published and no more, a project
  that left leaves nothing, what is pushed is accepted by the next deploy.
* *Preview, builds, unified site*: the output is what the same sources make in an
  empty directory, and the sources are given back as they were.
* *Outbound links*: an answer is trusted for its window, by everybody.
* *Republishing*: in the end every project is on one schema and served.
* *Editor, live reload*: a save writes the open post's own text, findings and pane
  are those of the buffer, a page learns of every rebuild, every request and the
  servers themselves end.
* *Generation and commits*: what a person wrote is never overwritten, what a
  person must look at stays reported, a commit has what its command wrote.
* *Readers and renderers*: they agree, or where they part is known, links land, ids
  are unique, nothing of a page is lost, and what the site says of itself is true.
* *Checks*: exit status zero means what it says, advice settles what it is about.
* *Configuration, layout*: refusals can be followed to the end, a move that
  stopped can be run to its end, and nobody else's files move.
* *Effects*: a preview is the run, a file is whole, a deadline holds.
* *Publishing*: what leaves the machine passed the screen as it leaves, and a
  command that returned leaves no clone of it behind.

## The modules

| Module | What it is |
| --- | --- |
| `AssemblySite` | The tree of the assembly repository and the operations on it that runs, publishers and previews use. |
| `AssemblyCommits` | What one `assembly integrate` makes of a tree (`Integrated`) and when it refuses (`Accepts`): reconciliation, graft, shared files, verification. What a publisher's commit does to a tree (`Pushed`), from what it read. |
| `Assembly` | The branch and its actors, one action per step at which another actor can intervene; what is claimed of it. |
| `AtomicAssembly` | The abstract specification that `Assembly` implements: an integrate is taken up, abandoned, or committed in one step on the tree it lands on. |
| `AssemblyPreview` | The directory previews are assembled into, one file at a time, with the plans of `AssemblySite`. |
| `OutboundLinks` | The outbound link check and the answers that deploys hand on. |
| `Rollout` | The pass of `republish-all` over all projects, beside their authors and the deploys. |
| `UnifiedSite` | One build of several projects. |
| `EditorShell` | A tab of the editor, its requests, and the handlers they reach. |
| `EditorServer` | The editor's process: streams, link targets, publishes, shutdown. |
| `ServeReload` | The live reload server and the pages it serves. |
| `Generate` | gen, build, check and baseline accept; the hash store and the ownership rule they share. |
| `GenCommands` | gen's root files and gen-data's scripts, and the automatic commit. |
| `SiteBuild` | A documentation build over one output directory and one version cache. |
| `SiteMetadata` | Canonicals, alternates, sitemaps, feeds and trails of a built site. |
| `SitePages` | Navigation, pickers, glossary and term links of a build's passes. |
| `HtmlBody` | The body of a page from its blocks; tables. |
| `Links` | Addresses of pages, emitted references, and the check that they resolve. |
| `Directives` | The tokenizer, the four trackings of fences over the same document, and code spans. |
| `SourceWalks` | The three walks over a source tree, the exclusions, and the glob matcher. |
| `CheckRun` | A whole check in its order, the lints of a page, and the advice an author follows. |
| `CliPages` | The reference pages of a command line and their check. |
| `Quality` | The tiers and grades of the quality report. |
| `Config` | The table of `selfdoc.json`, its validator, the rules between fields. |
| `Layout` | The directories of a repository, and the migration between layouts. |
| `Records` | The frontmatter of a page and the manifest of a project: read, refused, rewritten, converted. |
| `Posts` | Post files, revision records and the posts' part of the manifest. |
| `Vocabulary` | The word lists and the commands on them; the spelling check that reads them. |
| `Effects` | Previews against runs, atomic writes with their theorem, pipelines. |
| `Publishing` | What `deploy`, `docs publish`, `post publish` and `assembly push` read, screen and send, among people who edit the files, the terms and the resolutions. |
| `CvPages` | A curriculum vitae: read, refused, its page and its linked data. |
| `MCAssembly`, `MCRoster`, `MCEditorShell`, `MCServers`, `MCGenerate`, `MCText`, `MCChecks`, `MCUpkeep` | Instances for TLC. |
| `AssemblyProofs` (with the outbound links), `EditorServerProofs`, `EditorShellProofs`, `GenerateProofs`, `BuildProofs`, `PublishingProofs`, `UpkeepProofs` (`Posts`, `Rollout` and `UnifiedSite`) | Theorems and proofs. |

Where modules compose: `Assembly` is made of `AssemblyCommits` over
`AssemblySite`, as `AssemblyPreview` is; `Generate` holds the store that
`staleness`, `gen` and `check` share; `GenCommands` runs the automatic commit
inside its two commands; `Layout` runs the migration on the repository that its
checks read. `CliPages`, `Config` and `CvPages` have recursive operators and are for
TLC only; all others can be proved about.

`MCRoster`, `MCServers`, `MCGenerate`, `MCText`, `MCChecks` and `MCUpkeep` each
hold several specifications that share *no* state. Which of them a behaviour is
of is chosen in the initial state (`part`), and the others rest. It is a way of
checking them in one run, and says nothing about their interleaving, which the
code does not have either: they are different commands on different files.

### From the code to the actions

*Assembly.* A tree is a record: the roster (`declared`, `home`), the bytes at each
path of `site/` (`site`, as the project whose bytes they are), which manifests
exist (`kinds`), the published-file records (`record`), what the base manifests
and the post overlays list (`pages`, `posts`, `overlay`), `projects.json`
(`member`) and the addresses the generated files link (`listed`). `head` counts
commits and stands for the SHA that a push or a ref update compares; `queue` is
what GitHub holds of dispatches.

| Action | Code |
| --- | --- |
| `Dispatch` | `AssemblyPush`: a release workflow's repository dispatch |
| `StartRun` | the workflow's job starts; its concurrency group lets one run proceed |
| `Sync` | one iteration of the loop of `IntegrateProject` up to the commit: fetch, hard reset, reconcile, graft, record membership, generate, verify. All of it happens in the run's own checkout, so nobody can intervene and it is one step. |
| `PushAccepted`, `PushRejected`, `PushLost`, `PushTimedOut` | the push, and the ways it ends |
| `Deploy` | the workflow's wrangler step |
| `Begin`, `ReadRoster`, `ReadClaims`, `ReadRecord`, `ListPaths`, `ReadMembership`, `ReadHead`, `UpdateRef` | the API calls of `PublishProjectDocs`, `cmdPostPublish` and `RetireProject`, in the order of the code. Every value a command read is kept in `cmd` until it is used. |
| `DispatchSharedRebuild` | the call after the commit |
| `RunDies`, `CommandDies` | a run or a command ends at any of its steps: a failed command, a refused call, a timeout, or a check of what the model leaves out that refuses |
| `EditRoster` | an operator commits another `roster.toml` |

*The servers.* In `EditorShell` the record `tab` holds the variables of `repoView`
(`currentPath`, the mounted editor's text, `savedText`, the two timers) and `call`
the requests between browser and server. `OpenPost`, `Type` and `Save` are the
author's; `PreviewTimer`, `AnalysisTimer`, `MountEditor`, `Saved`,
`AnswerAnalysis` and `OnPreview` continue them in `app.js` as answers, timers and
events arrive; `ReadPost`, `SavePost`, `StorePreview`, `Broadcast` and `LoadPane`
are the server's handlers, the preview's cut where another one can come in
between. `EditorServer` has one action per stretch of a handler between two
points where another goroutine can run: a `select`, a mutex taken or given up, a
write to a socket that may block, a file read after the cache lock was released.
In `ServeReload` a walk is one `Stat` per file, and `Compare` compares, replaces
the snapshot and wakes the registered streams, as `watch` does.

*Commands.* A command is one action where nothing can come in between, and one
action per child process, file or page where something can: a person who edits,
a git call that fails, a process that is killed. `cmdGen` starts a run of
`GenCommands`, `GenerateRootFile` writes one root file, `DelegateCommit`,
`GitAdd` and `GitCommitPaths` are the steps of `AutoCommit`. `StartGen`,
`WritePage` and `SaveSeeds` are one gen of the pages; `StartBuild` to `Cleanup`
one build, with `Kill` allowed at each; `ApplyStep` and `FinishWithCommit` a
migration with `StopHalfway` between; `PassGoesOn` one remote effect of
`republish-all`; `PostNew`, `GenPosts`, `StartPublish`, `BuildPostsOnly` and
`PushHead` a post from its scaffold to the site. What a person does between two
commands is an action too (`Edit`, `EditCode`, `WriteFile`, `StageByHand`,
`Checkout`, `MoveTag`, `Declare`).

*Readers and renderers* are operators on a text, a tree of paths or a set of
pages. Their state is the input, which grows by one line, character, block, file
or page per step (`Write`, `TypeChar`, `WriteBlock`, `AddFile` ...) until its
bound, so that every input within the bounds is a state and every property an
invariant over all of them. Loops with a bookkeeping of their own are actions:
the glob matcher's backtracking (`Star`, `TakeOne`, `Backtrack`), the passes of
`SitePages`, the steps of a check in `CheckRun`.

### What is abstracted

Everywhere: wording, formatting and logging; times, except where an answer ages
or a timer races; the bytes of a page, which are a name and whose it is, or a
revision. A hash is the text it is the hash of. JSON and TOML are records.

* *Assembly.* The verification keeps the checks that relate the roster, manifests,
  records and emitted files; those that read the text of a page (metadata,
  chrome, directives, routing artifacts, search index, robots) have nothing to
  read here; outbound links have their own module. That every page links its
  siblings and the listing links every project is taken from the generator. A
  home deploy always carries its listing. Empty directories do not exist, as in
  git. The other projects' records are read in one step, although
  `RemotePostClaims` asks for one at a time; the branch may move between the
  asking and the commit all the same. `Extends` and `Cut` say which slugs are
  prefixes of which, all that the file name rules depend on; slugs that end in a
  manifest suffix (`x-posts`) are left out. Refusals that depend on abstracted
  data (the vocabulary agreement between projects, a `SourceRepo` that does not
  match, the confidential screen, a build or index that fails) are `RunDies` and
  `CommandDies`: they may happen at any step, at the price of a fault. Whether a
  project is the home is read once before the first re-sync in the code and with
  the tree in the model; it only selects paths that the model has no difference
  between.
* *Editor.* A text is its post and a revision, a slug a function of the text,
  rendering the pair of path and text; a render is refused when the text or a
  saved post does not parse or two saved posts share a slug. An answer may be a
  refusal, but is not lost. Host checks and JSON forms are left out.
* *Live reload.* A page is one file, every write changes its modification time,
  and streams of pages that left are forgotten, although the server keeps them
  until it next writes to them.
* *Generation, commits.* What a generated page says is its module's first sentence
  and a revision of the body; scripts and templates are values that may fail.
  `AutoCommit` in a directory that is no repository, or whose `check-ignore`
  fails, is left out: the first commits nothing, the second asks no further.
* *Builds.* A page is a name with what it needs and what it links; Markdown,
  assets, search and social cards are left out.
* *Texts.* A line is its class (a fence of a kind, a directive, a blank, text), a
  character one of the few that the code compares with, a heading a title whose
  slug is given by a function, a name a member of a set on which `Slug`, `Fold`
  or `LowerCase` is given.
* *Configuration.* Regular expressions are the sets of the instance's strings they
  accept.
* *Republishing.* A version of selfdoc is the schema it writes, a vocabulary what it
  says of one word. What projects.json has of a project's tag is the manifest there
  (`tagged`). A reader that the roster or the pin refuses changes nothing.
* *Publishing.* A file is its text, a text holds a confidential term or not (the
  matcher is external), and its license is declared or not. What a build renders of
  a file is that file's text.
* *Curricula.* A value is a text, a list or something else; HTML and the
  frontmatter of the page are left out.

## The runs

`PROJECT.json` lists them. A property named here is in most cases a conjunction
of parts that have names and comments of their own in the modules.

| Run | Instance | Shows |
| --- | --- | --- |
| `DeployRace` | hub, lib and libx; two runs *without* the concurrency group, three dispatches of five kinds from lib and libx, one lost or timed out push, two attempts | `IntegratesAreAtomic`: the retry loop alone suffices, without the group. `RetryIsIdempotent`: a run that pushed and was told otherwise makes the same commit again. `FilesAreClaimed`, `IntegrateKeepsPostsDisjoint`, `IntegrateSparesOthers`: who owns what survives, while the two projects try for one post. |
| `Publish` | two publishers run two of three kinds of command on lib, next to a release; one fault; two runs, of which the group lets one execute | `PublishesStayRebuildable`: a publish that finds what it read, on a tree whose rebuild is accepted, leaves one whose rebuild is, although it verifies nothing. `WorkIsCurrent`: what a run pushes was built from the head it lands on. `LiveNeverGoesBack`. `TypeOK`. |
| `CatchUp` | a dispatch, two commands of two projects, three attempts, no faults, fairness | `RunsComeThrough`: `LiveCatchesUp`, and `RetriesSuffice`: with one attempt more than there are other committers, no dispatch is lost. One of the offered deploys has a page at the address of the generated listing and is refused. |
| `RosterEdits` | lib and libx leave and rejoin by two edits and a retirement, two releases; three previews into one directory by five command lines, with an edit of the sources and two kills between any two files; one outbound address, two declared pages, three days | `LiveIsVerified`, `OnlyMembersRemain`. `RerunIsFresh`: a preview serves what an empty directory would be given, but for files that a killed graft had copied and no record claims (below). `AnswersAreTrustedRightly`: `DeployedLinksAnswered`, `SettledLinksAreNotAsked`, `RefusalsAreFirstHand`. |
| `EditorTab` | one tab, posts a and b, one revision that does not parse; two openings, an edit, a save, one refused request or dropped stream; three requests in flight | `FindingsAreOfTheBuffer`; `PaneIsOfTheStore` with `PaneShowsWhatIsStored`; and `PatientSavesStayHome`, `SavedMeansOnDisk` of an author who waits for the page |
| `Servers` | one tab, two files written twice each, three visits; one repository, one shell, two requests, a socket of two frames; fairness | `SavesReachThePages`: `StreamsLearnOfWrites`, `PagesSettle`. `SharedStateHolds`: `SearchesAreCurrent`, `ClientsAreHeld`. `RequestsEnd`: `PublishesEnd`, `StopEnds`. |
| `Generate` | a module, a command, an index, an essay, three edits, a gen that may die; five paths, one of them ignored, two steps of a person; two locales, two versions, one post, two moves; two files that hold a term or not, one command of five kinds, two changes by people meanwhile | `PersonsDecide`: `ReviewedIsQuiet`, `HandwritingSurvives`, `FindingsStick`, `GenIsIdempotent`. `CommitsAreTheCommands`: `OnlyNamedFilesAreCommitted`, `HandworkSurvives`, `SuccessMeansCommitted`. `BuildsAreOfTheirSources`: `NothingIsLost`, `PickersLand`, `ArchivesAreOfTheirTags`, `SitemapIsTheSite`, `FeedLands`, `DocsAreLeftClean`, `AuthoredPagesSurvive`. `PublishingIsScreened`: `OnlyTheScreenedGoesOut`, `StagingIsRemoved`. |
| `Text` | documents of four lines, spans of seven characters, links of up to three segments between pages of depth two, tables of two columns, bodies of four blocks, sites that are edited four times, curricula retyped field by field | `ReadersAgree`: the tokenizer and the directive readers agree what is code up to the first line that delimits for one of them only (below), the directive readers everywhere. `AddressesResolve`, `NavigationLands`, `BodiesKeepTheirMeaning`, `TheSiteSaysWhatIsSo`: `MetadataIsOfTheSite`, `CvPagesKeepTheirWord` |
| `Checks` | patterns of three pieces against names of three characters; two files at depth two; three operations; three writers of one file; three processes with two pieces each; a check, its advice and the check after; five changes of a project; two edits of a configuration; fairness | `WalksAgree`, `ChecksMeanWhatTheySay`, `HandleKeepsItsWord`, `ReportsAreOfTheProject`, `ConfigsCanBeMadeToLoad` |
| `Upkeep` | two post files and three edits; four words, two entries; words of four letters; four frontmatter lines; five turns of a manifest; three checkouts and a project that is not given, two moves; two projects with two versions, one of them spoilt; a migration that is stopped once; fairness | `PostsAreAsRecorded`, `WordsAreSettled`, `RecordsAreRead`, `SitesComeOutWhole`. `MigrationIsWhole`: stopped anywhere and run again, with what a stop leaves undone stated (below). |

### The bounds

Each bound is a constant that ends in a guard of the action that spends it
(`MaxJobs`, `MaxEdits`, `MaxFaults`, `MaxMoves`, `MaxLines`, ...). When they are
spent the system stops, so a deadlock is not an error; where something *must*
happen it is said by a liveness property instead.

* Two ordinary projects and a home are what it takes for one project's step to be
  able to hurt another's pages, another's posts and the root. Two pages let a
  build grow, shrink and keep the index that verification needs; two posts let
  two publishers of one project disagree and two projects collide. `DeployRace`
  and `Publish` take runs and publishers as interchangeable, the editor's runs
  requests (symmetry); no property compares them by name.
* Two openings are what it takes for one post to meet another's text, and two
  previews of a post (one from opening, one from typing) for one to overtake the
  other; two files for a walk to see one before and one after a build. Another
  editor tab would add a writer to a post that no tab knows of: `SavedMeansOnDisk`
  excuses the posts two tabs have had open (`shared`).
* Two requests and one shell: one request that holds the lock, one that waits, a
  broadcast and a ping to one stream. A socket of two frames can be empty, in
  between, and full.
* Three edits let a code change, a review and a second code change meet; a gen
  that dies needs one gen before and one after it.
* Four lines are an opened fence, a line in it, its end and one after; seven
  characters are two runs of two backticks, something between and something
  outside. Longer inputs add repetitions of what the readers have already
  returned to the start for.
* The suggestions of the spelling check stop at three in the code and at one
  here, its longest suggested word is of sixteen letters and of three here: one
  over the bound and one under it are reached.
* `MaxDeaths` and `MaxFaults` are one: after a second stop a command meets what it
  can meet after the first. Previews may be killed twice (`MaxKills`), once grafting
  and once retiring what the first left, with a third that ends.

`Checks`, `Upkeep` and `EditorTab` are the largest, with 0.2 to 1.7 million states.

Two runs end in a counterexample. Each refutes a sentence of the code.

| Run | Shortest story | Sentence |
| --- | --- | --- |
| `DocsVersusRetire` | a docs publish passes the roster check; the project is retired; the publish commits, and the project is back in `site/`, `manifests/` and `projects.json` | "It cannot create membership" (`publish.go:72`) |
| `EditorSave` | the author selects post b and presses Ctrl-S before its text arrives: `save` has b's path and a's text | "writes are the ones the author asks for by pressing save" (`cli/editor.go:29`) |

### Fairness

Where nothing is said below, a behaviour may stop at any point.

* `CatchUp`: a run that is executing or can start takes its next step, and so does
  a publisher's command that has begun. GitHub executes the jobs it has queued
  and a process runs on unless it is killed; the code waits for nobody. It is
  weak fairness of `RunStep(r)` and of `PublisherStep(p)`, written with its
  enabling condition spelled out. Nobody is obliged to dispatch, publish or
  edit, and no fault ever has to happen or stop.
* The live reload server: the watcher keeps ticking and walking, the server's
  stream goroutines take what is in their channels, and a page's script connects
  and reloads: weak fairness of each. Builds and readers owe nothing.
* The editor's server: strong fairness of a request's handler and of a stream's,
  since Go hands a mutex to whoever waited for it longest and a `select` takes
  either of two ready cases, not always the same one; weak fairness of closing the
  listener and of the shutdown once the interrupt is there, and of a shell that is still there reading its
  socket. Shells may leave at any time, and nobody has to press a key.
* `Rollout`: the pass goes on or stops, the operator does what its message says and
  runs it again, a requested deploy runs. Authors and failures are bounded and
  owe nothing.
* `Layout`: a migration that runs goes on, the owner runs it again and follows the
  advice of a refusal (strong, since a stop can take the advice away for a while).
  `Vocabulary`: an author who follows a finding's remedy keeps doing so. `Config`: an
  author who keeps loading and following refusals.
* `Effects`: a process that can write, read or exit does so, selfdoc starts the
  next stage or waits, the clock passes the deadline. A stage that hangs has no
  such step.
* `SourceWalks`: the loop of the glob matcher goes on.

### Mutants

Modules define variants of their operators, marked as mutants: a plausible
mistake in the code, such as a forced push, a record that forgets its other
publishers, or a cache that is stored without asking whether the file changed.
Each property of the passing runs fails under one of them; `PROJECT.json` says
which.

## The proofs

Each theorem holds for every value of the constants that satisfies the named
assumptions, and for every bound. The assumptions only say that things with
different names are different and that what a behaviour starts from is of its
type; the runs evaluate them on their instances. Eight modules hold them
(`Effects` has its own, about the writers of a file); each
states one inductive invariant as a conjunction of named parts, shows that the
initial states satisfy it and that each action keeps it, one lemma per action or
group of actions, and combines them.

### The assembly

From `NamesAssumption` (directories, pages and posts are told apart, the index
page is at the root) and `ConfigAssumption` (the tree the behaviour starts from
is a verified tree, offered jobs, commands and edits are well formed).

* `TypeCorrect`: `Spec => []TypeOK`. It rests on one lemma per operation saying
  that trees become trees.
* `RunsPushCurrentWork`, `OnlyVerifiedTreesGoLive`, `AtomicIntegrates`: from the
  inductive invariant `CommitInv`. Atomicity is the refinement: `Assembly`
  implements `AtomicAssembly`, in which a push commits the integration of the tree
  it lands on. That alone is not inductive: nothing in it speaks of a run that has
  computed its tree and not pushed it yet. `WorkIsCurrent` does. A run about to
  push has a base no newer than the head, and *if* its base is the head then its
  work is the accepted integration of the tree there. Everyone else's commit
  advances the head (`BranchMoves`) and so falsifies that *if* for good; the run's
  own push needs it true. Two more parts are needed for what publishers do: the
  manifests a retirement deletes go by its project's name, and a manifest that
  does not exist lists nothing (else a retirement could change a tree outside its
  project in the model). Verification is part of `Accepts`, hence of the work,
  hence of what is deployed.
* `DeploysGoForward`: if the concurrency group is honoured, what is live is no
  newer than any checkout about to be deployed, since at most one run executes
  (`SerialInv`). Without that hypothesis it is false.
* `IntegratesKeepPostsDisjoint`: reconciliation drops records whole, a record
  grows by what is published at most, and the overwrite refusal reads the
  records of the tree that the commit lands on, by `WorkIsCurrent`.
* `RetriesAreIdempotent`: a run about to push holds the accepted integration of
  *some* tree, also when the branch has moved since (`RetryInv`, which `CommitInv`
  does not say). Then one fact about the pure operators carries it,
  `IntegrateAgain`: integrating an accepted result once more, by the same job, is
  accepted and changes nothing. It goes through the operation in the code's
  order: reconciliation finds nothing to remove, the graft's pruning plan is empty
  since the record is already that of the build, the shared files are a function of
  what did not change.
* `RebuildsFollowIntegrates`: the same for the shared-only job that publishers
  dispatch after their own commit (`RebuiltAgain`).
* `PublishesKeepRebuilds`: a docs or posts publish keeps the rebuild possible. That
  nothing publishers push is ever refused by a rebuild is *not* so, and what the
  property asks of the commit says where it ends: the command finds what it read
  (`ReadsStillHold`), there is nothing to reconcile (`Rebuildable`), what is listed
  is claimed by its lister (`ListingsAreBacked`), and a docs publish does not take
  down a post that only the overlay still lists (`PrunesItsOwn`). The section below
  has a behaviour for each that fails. The proof gives `Pushed` part by part
  (`PublishedParts`), then says what the commit takes down: pages of its own
  directory, by a docs publish, and posts it alone claimed (`PublishedFiles`).
  Everybody's listing is then still on the site (`PublishedListing`), and the roster
  still agrees with it (`PublishedRoster`). The home project is left out, since a
  docs publish of it can put pages in the directory of a member.
* `FilesStayClaimed`, `IntegratesSpareOthers`, `OnlyMembersStay`: who owns what.
  The three properties are false of every assembly (see the counterexamples under
  "What the model shows besides": pages a retirement leaves behind, and `lib` whose
  retirement takes the records of `lib-x`). They are proved under two hypotheses.
  `OnlyIntegrates`: nobody publishes through the API, an edit of the roster may add
  and drop projects but keeps the home project, and no slug is the beginning of
  another before a dash. `Owned(InitialTree)`: the tree the behaviour starts from is
  in order itself; the trees of `MCAssembly`, made by integrates from an empty
  site, are. The inductive invariant `OwnInv` says three things that
  need each other. Every file is claimed by the record of the project whose
  bytes it holds; only a member claims anything, the home project anywhere,
  another in its own directory and among the posts; and no page of the home
  project lies in a member's directory. The third is no consequence of the first two:
  it is the verification at landing that keeps it, so an integrate that would break
  it is refused. From them, two projects that both claim a path claim a post
  (`ClaimedApart`), and posts are what the overwrite refusal guards. `OwnInv` was
  model-checked on `DeployRace`'s instance before it was proved.

### Outbound links

`KeptAnswers`, from `DeclarationsAssumption` (a declaration is of its type) and
`AddressesAssumption` (a page is not named like an address). `OutInv`: the branch
keeps good answers only, each of which was heard on its day (`StoreInv`, with
`ClockInv`); an attempt under way holds the branch's store but for what it asked
itself, today (`AttemptInv`: no commit of somebody else changes the store, and a
push that finds another head is thrown away); and an attempt that has come as far
as its push has asked whatever was not settled (`VerifiedInv`). The window's
arithmetic rests on a declaration in force being of a day at least.

### The editor

* `SharedState` (`EditorServer`), from `NothingAssumption` and `ReposAssumption`.
  `SharedInv`: no manifest ever has a revision again (`ManifestInv`); targets kept
  under the stamp a manifest still has are that manifest's (`CacheInv`); a search
  has one answer of each entry before the one it is at (`RequestInv`); between stat
  and load, what a search that read a stamp finds in the cache, or will find once
  another has stored it, is what the manifest held at some time since its key was
  pressed (`LooksInv`); a client in the table has a handler that holds its
  connection (`StreamInv`). `LooksInv` is what the unlocked read between stat and
  store needs: two searches may load one manifest at once and store in either order.
* `FindingsOfTheBuffer`, `PatientSaves`, `SavedIsOnDisk`, `PaneOfTheStore`
  (`EditorShell`), from `TextsAssumption`, for any number of tabs, posts and
  requests. `ShellInv` is one conjunct per concern: what requests and tabs can look
  like (`ShapeInv`); the findings are the buffer's, or those that will be are on
  their way (`FindingsInv`); a pane that differs from the store is loading, or news
  of it is on its way (`PaneInv`, with `StoreInv`); a tab whose author waits has one
  answer to come at most, of the post that is still selected (`PatientInv`); and
  what was read or saved is on disk (`SavedInv`). The last two speak of authors
  who wait, the first two of all. With more than one tab, "saved" is not true of a
  text that another tab overwrote; the property says so (`shared`), and the proof
  needed it.

### Commands

* `CommitsAreOfTheCommands` (`GenCommands`), from `EntriesAreDisjoint` (gen and
  gen-data do not write the same path) and `HandworkHasNoHeader` (what a person wrote
  does not start with the generated header: that is how the code tells). `GenInv`: a
  command runs or its commit does, and it writes what it declares (`RunInv`); the
  check for ignored outputs still holds of those nobody has staged since
  (`IgnoreInv`); only what a commit has added, or somebody touched, is staged
  (`StagedInv`); what a commit passes over was committed as it stands (`PassedInv`).
* `PersonsAlwaysDecide` (`Generate`), from `PagesAreDistinct` (modules, commands,
  indexes and essays are different pages), `TextsAreDistinct` (a sentence of the
  code is no handwriting) and `EditsAssumption`. `PersonsInv`, beside the kinds of
  its variables (`FileInv`, `HashInv`, `CodeInv`): a page that a person described
  holds a person's words (`AuthorInv`); pages that a running gen has written are as
  another gen would leave them (`PhaseInv`); a page that a person judged as it
  stands does not differ from the store, and once a gen has rewritten it, it has
  the body that gen writes (`JudgedInv`); and when a gen has ended and nothing has
  changed, another one finds everything as it would write it (`SettledInv`), which
  rests on updating the hashes twice being updating them once (`UpdatedTwice`). A
  judgement of the index is one of which modules have a page, and lapses when that
  changes: without saying so `ReviewedIsQuiet` is false, which the proof brought up
  and the run shows, now that its instance has an index.
* `BuildsKeepTheirSources` (`SiteBuild`), from `ListsAreConfigured` (neither list is
  empty, and only an unversioned project's only version has an empty name) and
  `PagesHaveOneOrigin` (no tree has a page where posts go). `BuildInv`: a build's
  posts are exactly what is on the reserved paths while it runs (`DocsInv`); the
  versions before the one being extracted are in the cache as their tags have them,
  and one that is being filled has no hash, so that a build that dies there leaves
  nothing the next one would trust (`CacheInv`); the output holds what the passes
  before the next one wrote (`PassesInv`); and once they are done, what the site's
  own files may rely on (`SiteInv`). Two passes never write one address, since an
  address tells locale and version apart (`AddressesDiffer`); and a page offers
  another version only if that version's pass, filtered or not, writes it
  (`OffersLand`).
* `PostsStayAsRecorded` (`Posts`), from `NoneIsNothing`. `PostsInv`: while a publish
  runs, each post it found has a slug of its own and its body is that slug's latest
  revision (`PublishInv`), and what was built is not refused any more (`BuiltInv`).
  Between the two lies a refusal that comes after revisions were written: the
  property holds all the same, since a revision that was not pushed is not sent.
* `PublishingStaysScreened` (`Publishing`), from `ContentsAssumption` (a missing file
  and an unread one are no contents). `PublishInv`: what a command has read is still
  there or is marked as changed behind its back (`ReadInv`, `FoundInv`, `ListInv`,
  `LicenseInv`), so that what passed the screen is clean by the list and the
  resolutions of now, or excused (`CleanInv`); and which kinds of command come
  through which step, in which round, with what in hand (`CourseInv`, `RecordInv`).
  That `post publish` needs no excuse for its pages and a deploy does is where the
  two differ in the code: one pushes the bytes it scanned, the other reads again.
* `UndisturbedPassesAreWhole` (`Rollout`), from `SchemasGrow` (both schemas are
  numbers above zero, the new one the larger), `OneIsGiven` and `OneIsPosted`.
  `RolloutInv`: as long as nobody else has written, the pin, the schemas and the
  words are those the pass checked (`ChecksHold`); every overlay it has come past
  is on the new schema or will be replaced by a converted one (`Carries`); every
  project before the one it is at is recorded as its checkout has it (`PassBuildInv`,
  `PassPublishInv`); so that in the end the site is new (`PassEndInv`). Deploys of
  the shared pages run in between and are no disturbance, which the proof had to
  show; a deploy of a project at its tag is one.
* `UnifiedBuildsAreWhole` (`UnifiedSite`), from `ListsAreGiven` (a site without a
  locale or a version is refused). `UnifiedInv`: a build remembers all it wrote into
  the docs trees until something could not be written or removed (`BuildInv`); the
  partition of an owner has a page for each of its posts, because what was injected
  lies in the tree that is partitioned (`PartitionInv`); whoever is to be on the site
  has a partition by the time the posts are written (`CoverInv`), for which every
  project must have a pass (`EveryProjectHasAPass`): a project whose configuration
  is absent is passed over by the setup without its posts, and it is its pass that
  then fails the build; and nothing written after the posts lies at the
  address of one (`ServedInv`).
* `FilesAreReplacedWhole` (`Effects`), from `WritersAssumption` (a missing file is
  nobody's content): the file-writing parts of `HandleKeepsItsWord`, for any number
  of writers that write, fail and die in any order. `FilesInv`: a sibling is whole
  by the time it is renamed and a mode was chosen for it, and only a writer in place
  is ever in the middle of the file. That is not enough for the mode.
  `StaysReadOnly` is: a read-only file is there, nobody has it open (it would have
  been refused), and whoever is between its look at the mode and its rename gives
  that mode. No writer makes a file writable: `mode` is asked for as `"ro"` or left
  as it is.

### What TLC checks and nobody proves

* Liveness: `LiveCatchesUp`, `StreamsLearnOfWrites`, `PagesSettle`, `RequestsEnd`,
  `RolloutEnds`, `EventuallyMoved`, `MatchEnds`, `DeadlineBoundsTheRun`,
  `RefusalsCanBeFollowed` and the settling parts of `WordsAreSettled` and
  `ChecksMeanWhatTheySay`. The prover does not do temporal reasoning from fairness.
  `RetriesSuffice`, the other half of `RunsComeThrough`, counts attempts against the
  bounds of its run.
* `OnlyMembersRemain` where a project retires, as `RosterEdits` has it: the theorem
  is about an assembly without publishers. In general it is false: a retirement
  that lists the repository before a docs publish lands leaves pages nobody claims.
* `RerunIsFresh` folds over the list of builds, and `ReadersAgree`,
  `AddressesResolve`, `NavigationLands`, `BodiesKeepTheirMeaning`,
  `TheSiteSaysWhatIsSo`, `WalksAgree`, `ChecksMeanWhatTheySay`,
  `ReportsAreOfTheProject`, `WordsAreSettled` and `RecordsAreRead` compare functions
  that are defined by recursion over a text or a tree. A proof would be an induction
  over that data. TLC compares them on every input within the bounds.
* Of `HandleKeepsItsWord`, that a preview is the run: its log is replayed by a fold
  over a sequence. `MigrationIsWhole` is about plans that are filtered and flattened
  sequences of moves. The safety parts of `SitesComeOutWhole` are proved.

## What the model shows besides

More behaviours came up while the properties above were written and proved. They
are not runs: most are of a kind with one that is, and the rest contradict
nothing the repository says.

*Assembly.*

* Two projects check each other's claims, then both publish the same post;
  every integrate is refused from then on (`post.go:516`; "a post slug is unique
  across the whole site", `output.go:529`).
* A docs publish reads the record, a release adds a page and records it, and the
  publish writes the older record back (`files.go:204`).
* `lib` is retired while `lib-x` stays: the prefix `lib-` takes `lib-x.json` and its
  records too (`output.go:558`; "every path the project owns", `retire.go:29`). When
  both leave the roster together, `lib-x`'s record goes as one of `lib`'s manifests
  before it is read, and its posts stay (`manifests.go:544`). A preview directory
  loses `lib-x`'s record the same way, so stale pages of it stay.
* A posts build publishes a post; it is deleted at the source; a full release
  leaves it there, since the record and the overlay keep it (`files.go:266`;
  "delete it at the source and run a full release", `graft.go:119`).
* A post of an existing overlay that only releases publish is folded into the
  overlay; it is deleted at the source; every full release from then on takes its
  page down, still lists it, and is refused by the verification (`graft.go:211`,
  `checks.go:386`). Where a docs publish claimed it as well, the release goes
  through, and the next docs publish is what makes every rebuild refused.
* A docs publish that drops a post reads the record, a posts publish of the same
  project publishes that post, and the docs publish takes it down; the overlay lists
  it, so every later rebuild is refused (`files.go:213`).
* A project has left the roster and is not reconciled yet; another publishes a post
  of the same name, which no *declared* project claims; the rebuild takes it down as
  the retired project's and refuses (`cli/post.go:511`).
* `docs publish` writes back all of a `projects.json` it read before the head it
  commits on, so another project's first release in between loses its ref, and
  the next rebuild of everything is refused (`publish.go:187`, `216`).
* `assembly retire` writes back the roster it read first, so a project added in
  between is dropped, and the next reconciliation deletes it (`retire.go:40`, `114`).
* Retiring a former home project deletes the new one's front page, which its
  record still claims, by the very sequence that the refusal to retire a home
  project prescribes (`retire.go:60`, `111`).
* A release that publishes a post between a retirement's reading of the record
  and its listing of the repository leaves that post behind (`retire.go:107`).
* `post publish` never asks whether its own project is declared, and what it
  publishes for one that is not, reconciliation does not find (`post.go:506`).
* After the roster names another home project, the deploy of either is refused
  until the other has been deployed (`manifests.go:232`).
* A preview of a post that moved between checkouts is refused on a rerun though a
  fresh directory would accept it.
* A preview killed while it copies a checkout's files leaves files that no record
  claims (`graft.go:153`, `188`). If the project is grafted again without them, or
  leaves before it was recorded, nothing takes them down: a home project's pages and
  every post stay in the directory and are served, though nothing links them. That is
  what `strays` in `AssemblyPreview` is for. A record that is itself torn (it is
  written in place) is not modelled.
* Outbound answers: the cache keeps entries of links that are gone, each retry of a
  push asks again, and one dead link refuses every project's deploys.
* Republishing: overlays' posts are lost by the conversion; the vocabularies
  compared are those the checks read, long before the commit; `assembly init` that
  stopped midway cannot be run again; `assembly rebuild` counts failed dispatches
  and exits 0.
* `docs publish` records the version it built and keeps the ref of the last release
  (`publish.go:203`); `assembly rebuild` then asks for that version at the old ref,
  and the record can name a version whose pages are the old tag's.
* A deploy and a docs publish read the output directory again after the screen.
  `assembly push` screens the local ref, and the assembly clones origin's
  (`cli/assembly.go:486`, "refused when a file at ref carries an unresolved
  confidential-term hit"). The archive of `post publish` is made of resolved markdown
  that was screened before it was resolved (`post.go:547`; "Everything this publish
  pushes is scanned", `post.go:488`).

*Editor and servers.*

* The preview of opening and that of typing render at once, and the older is
  stored last; the pane stays behind the buffer (`server.go:667`; "the exact bytes
  publishing this buffer would produce", `app.js:9`). A preview timer that fires
  while another post is being opened previews the old text under the new path,
  and the pane can settle on the post that is no longer selected (`app.js:355`). A
  failed open leaves the old editor under the new path for good (`app.js:381`).
* A render is refused while a saved post does not parse; when the author saves the
  fix, nothing renders again, and the pane stays old until the next keystroke.
* Two saves in flight can reach the disk in either order (`app.js:392`), and the
  answers in the other. With two tabs "saved" is shown of a text that the other
  has overwritten.
* A broadcast may write to a handler that has returned (`state.go:99`); an unread
  socket blocks the server's stop; one unreadable manifest fails completions for
  every repository; the cache is keyed on time and size.
* A page is served; its file is written; the watcher's snapshot takes that in; the
  page's stream is registered: it does not reload (`serve.go:165`; "page reloads
  itself when the build writes over it", `serve.go:24`).

*Builds and pages.*

* The tokenizer knows one fence, a line that begins with three backticks, and any
  such line closes it (`tokenize.go:58`, `87`). The directive readers strip lines,
  know `~~~`, and close a fence by one at least as long (`directives.go:45`, `233`).
  So a directive in a fence of three backticks inside one of four is kept as an
  example and then rendered as prose; one in a fence of tildes, or in an indented one,
  is kept and rendered as a paragraph. A legacy directive or a group of definitions
  takes in fences that the other readers open. `CodeIsFenced` says where the
  disagreement begins and that there is none before.
* An archive whose removal is killed may keep its `.hash` with a part of its files
  (`versions.go:58`). If the tag then moves back to that commit, the rest passes as
  the archive for good (`versions.go:52`). The model loses the hash or the sources
  first, but never some of the pages, so it shows a build that fails for a source
  and not one that lacks pages.
* A failed injection write, or a kill, leaves post pages in `docs/`
  (`unified.go:156` says otherwise). In a unified site posts are also written under
  project mounts when a project has no unversioned page, an archive is filtered by
  the working tree's partition, and the output is removed before the build.
* A declared changelog outside docs and source breaks builds with a superseded
  version; a single-locale project with an unversioned page publishes none
  (`single.go:267`); a version-filtered build's feed lists addresses it did not build.
* Sitemaps, canonicals and alternates of non-default locales and archived pages:
  dates are other pages', a canonical of a page that was dropped later leads
  nowhere (`seo.go:161`), breadcrumbs name directories without a page, alternates
  name locales without the page.
* A later pass writes its own glossary over an earlier one's, so glossary links and
  term links can lead to ids that are gone; terms match inside words;
  `glossary_links = false` is not read yet (`wrap.go:125`; `frontmatter.md:60`).
* Tabs split code blocks of several lines, and repeat the ids of a language
  (`html/convert.go:486`); API cards swallow what follows them; a heading "Setup 1"
  collides with a repeated "Setup"; a pipe in a code span splits a table's cell; a
  row of dashes is taken as the separator.
* `outdated` of the resolution check is a substring test over the content, so a
  chrome reference that is part of a body's counts as in the body.

*Commands and checks.*

* `gen` takes over a description it once wrote when a person restores its exact
  text (`descriptions.go:195`); a gen that dies after its sweep leaves a store entry
  of no page; `pkg/a-b` and `pkg/a/b` are one file name (`gen.go:420`). AutoCommit
  exits zero over a file it cannot ask about (`gitcommit.go:42`).
* Module paths are tested against the default excludes too, so a source root named
  like one (`tests`) has no pages for Python and TypeScript, while `list-modules`
  lists it. Files in a directory `test` and `conftest.py` have a page and are not
  counted by coverage. Directory credit is by prefix without a separator.
* Turning off `missing-post-date` hides every other finding about posts; one hard
  resolver error aborts a check; coverage is not printed without directives.
* The quality report subtracts nested submodules twice, counts directives of
  submodules under docs, and reaches a grade half a ten-thousandth early, since it
  compares the rounded ratio.
* A command named `index` overwrites the index of the command line pages; a
  command and a group of one name share a page; tokens are matched as substrings.
* Configuration: null items of a list pass; `base_url: "/"` loads as the empty text;
  two refusals about unversioned sites can send a literal reader in a circle.
* Frontmatter: a fence with spaces opens and closes a block; a reserved key inside
  a multi-line string is refused. Manifest: any exit status 128 of git means "no
  manifest"; an unknown field is dropped by a conversion; drafts read as stale.
* Posts: revisions are recorded before the build and the push that may refuse; a
  slug is held by the committed manifest only; `post new --title "!!!"` writes an
  empty slug that discovery refuses.
* Vocabulary: an approval stopped between its two writes leaves a word accepted and
  pending. Spelling: possessives in capitals and headings are rejected
  (`spelling.go:471`); a word with an apostrophe is never suggested by insertion.
* Migration: stopped between its moves and the rewrite of the configuration, it
  answers "nothing to migrate" when run again (`migrate.go:336`) while `docs`,
  `output`, `posts.dir`, the template of the root file and the header of the
  generated one name the old root. Commands refuse the first three and say what to
  declare (`refuse.go`); the template and the header only a person finds. The paths
  that the stopped command was to commit stay uncommitted unless a later plan names
  them (`behind` in `Layout`).
* Pipelines: a command with a deadline that ended well, but whose output a process of
  its own holds open for a second longer, is reported as failed (`effects.go:579`,
  `exec.ErrWaitDelay`), long before the deadline. The exit status of every stage but
  the last is ignored
  (`versions.go:77`); without a deadline a stage whose reader ended can wait for
  ever, since selfdoc holds the read end. Previews do not record a copy's mode, and
  append after an earlier write in the same run (`build.go:962`).
* Deploy to GitHub Pages: `git add .` honours ignore rules
  (`deploy_test.go:266`); the last forced push wins; a push that timed out may have
  been applied.

## What is not modelled

* Parts that turn one text or byte string into another, and keep no state: the
  extractors and resolvers of source languages, inline Markdown, assets, images,
  minifiers, highlighting, themes, shared pages, the spelling corpus.
  Their hazards are those of parsers; a specification would be the parser again.
* The matcher of confidential terms, which is external; the preview server and the
  command line itself, each a straight sequence.
* What the modelled parts leave out is in the notes of `PROJECT.json`. Of the
  hazards listed there, three have no property: the stale `projects.json` and roster,
  and two publishers of one post, are described above; a `git commit` of the deploy
  that fails for a reason other than having nothing to commit is only modelled for
  the commands of one project (`GitCommitPaths`).

## What is left

1. *Safety of the commands*: the parts of `MigrationIsWhole` and of
   `HandleKeepsItsWord` that do not turn on a whole plan or log, with the invariant
   that ties what is under way to what it was started from.
2. *Ownership next to publishers*: `OnlyMembersRemain` with a retirement or a docs
   publish under way, and the order of the two under which it holds; and
   `ListingsAreBacked` as an invariant, with that order.
3. `PublishesStayRebuildable` for the home project.
4. The faults of `git commit` in the assembly's runs, and the stale `projects.json` as
   a property.
