# Harmony: specifications, model checking and proofs

Harmony is a browser and an assistant that share one window. This directory holds TLA+ modules of the parts whose
correctness depends on threads, callbacks and the order of things: the engine side of the browser
(`src/browser/NativeLibs`, C++) and the Kira code that drives it (`src/browser/app`). TLC checks the modules on small
instances; TLAPS proves the most important facts for every value of the constants. `PROJECT.json` maps every
definition to the lines it translates and lists the runs, the mutated forms, the hazards and the theorems.

Contents: [The system](#the-system) · [Inventory](#inventory) · [Plan](#plan) · [What is modelled](#what-is-modelled) · [Runs,
bounds and fairness](#runs-bounds-and-fairness) · [Proofs](#proofs) · [Where code and comments
disagree](#where-code-and-comments-disagree) · [What the runs leave open](#what-the-runs-leave-open) · [What is not
modelled](#what-is-not-modelled)

## The system

Four programs and two libraries. The **shell** owns the only window and composites textures. The **browser** and the
**ai** are components it starts, each in its own process; **ai-harness** is a server the assistant talks to through
**ai-client**; **core** is what the shell and its components share (links, handshake, messages, surfaces). The browser also
runs alone, with a window of its own, which is the Windows build and where most of the native code is.

In the Windows browser two threads matter, and a few helpers:

* the **frame thread** draws the chrome. It calls the `hb_*` C functions, and never enters WebKit. Its frame runs in
  the order input, permission pump, native frame, chrome, dialogs, data store (`WebKitBridge.kira:135-180`);
* the **WebKit thread** owns every WebKit object. Its loop (`harmony_tabs_engine.cpp:297-314`) drains the command
  queue, looks at the stand-in's deadline, runs the cycle hooks of the other modules, gives WebKit its turn (in which
  pages call back) and waits for a command or a window message;
* the file picker, the profile's worker, the location source and the printer have a thread each.

They meet in four ways, which every module below uses: **commands** posted to the WebKit thread's queue (with a
function and a payload for the modules other than the registry); **published copies** that the WebKit thread writes
under a lock and the frame thread reads; **queues of questions** that pages ask and a person answers; and **hooks** the
registry calls (a page created, a page going, a state report, a cycle, the teardown).

## Inventory

For each component: its state, its operations, how it meets the others, what is hard, and what makes it correct.

| Component | State | Operations | Meets | Hard | Correct when |
|---|---|---|---|---|---|
| **Command queue and engine thread** (`harmony_tabs_engine.cpp`, `_api.cpp`) | queue, event, thread handle, stopping and shutdown flags | post, drain, start, stop, invoke with an owned payload | every module posts through it | flags read outside locks, stop against post, restart, a thread that ends at once | commands run in order or are cancelled, payloads are freed once, a stop returns |
| **Tab registry** (`harmony_tabs_model.cpp`, `_clients.cpp`, `_embed.cpp`) | list, pinned tabs, selection, closed stack, observers, published list | open, close (one, others, all), reopen, move, pin, select; pages that open and close tabs | hooks of all page modules; published list read by the frame thread | pages call back while one is being destroyed; ids handed out before the tab exists | pinned before unpinned, no tab twice, published list current, observers told once |
| **Tab windows** (`harmony_tabs_view.cpp`) | child windows, rectangle, stand-in frame, deadline, repaint requests | bounds, select, suspend, resume, snapshot, repaint answers | frame thread moves windows asynchronously, WebKit thread shows and hides them | a late move or answer | one child visible, the right size, no stand-in left up |
| **Permissions** (`harmony_permissions*.cpp`, `app/Permissions`) | requests, table in Kira, copy of it in C++, prompt | route, adopt, prompt, answer, remember, publish the table, pages going, shutdown | WebKit callbacks on one thread, person on the other | check then push, torn reads, table published in pieces | each request answered once, nothing allowed that nobody agreed to |
| **Dialogs** (`harmony_dialogs*.cpp`, `app/Dialogs`) | parked questions, overlay, picker jobs | ask, present, answer, deliver, pick files, page goes, refuse all | three threads | answer against page going against shutdown; the page hidden while a dialog is up | each question answered once, dialogs go with their question, pages draw again |
| **Downloads** (`harmony_downloads*.cpp`, `app/Downloads`) | records, WebKit references, pending cancels, asks to save, history file | start, progress, finish, fail, cancel, forget, save, load | download client in the registry; history written by two threads | cancel against finish, forget against both, file against memory, restart | ends are final, references released once, file holds what ended |
| **Profile and session** (`harmony_data_store_profile.cpp`, `_session.cpp`, `_paths.cpp`, `app/DataStore`) | two stores, private tabs, mark, session file, worker | prepare, apply a store to a page, forget a tab, write, restore, shut down | hook when a page is configured; published list; worker thread | a failed start, a kill, a mark taken by another tab, the list written from two threads | private tabs share a session that ends with them and leave no trace; the tabs come back |
| **Navigation model** (`harmony_navigation_*.cpp`, `app/Navigation`) | record per tab, published snapshot, its own command queue | reports of a load, followed strip, commands, history positions | registry's hooks and revision; chrome reads it | positions and "the tab in front" that have gone stale | snapshots are what WebKit knows, a press goes where it was shown |
| **Site data** (`harmony_data_store_records.cpp`, `_remove.cpp`, `_origins.cpp`) | ledger of origins, records scanned, a removal under way | note an origin, scan, remove by type and range, measure | worker, WebKit thread, frame thread | answers that come after their step gave up; a ledger whose save failed | a removal ends, counts only its own answers, and what is reported was done |
| **Bookmarks and history** (`harmony_bookmarks_*.cpp`) | tree, visits, revision, dirty since, worker | add, move, remove, record a visit, forget a range, suggest, write | page-state observer; two files | two threads on one model, files written behind it, private tabs | the tree stays a tree, a range removes its visits only, the file catches up |
| **Settings and search** (`harmony_settings_*.cpp`) | values, engines, what WebKit was told | set, load, save after a pause, apply | invoke on the WebKit thread | file against memory | what is set is applied and kept |
| **Input, find, zoom, print** (`harmony_input_*.cpp`) | key hooks, focus field, search, zoom levels | match a chord, move focus, find, zoom, print | two message pumps, find client, profile file | answers of an earlier search; levels changed by two threads | the count is the search's, a site has one level |
| **Menus** (`harmony_menus_*.cpp`) | queue of commands, dumps | build, choose, dump a source | nested message loop | – | a choice arrives once |
| **Notifications, location** (`harmony_permissions_notify.cpp`, `_geolocation.cpp`) | icon, queue; locator, fixes | show, close; start, stop | shell messages, pool threads | stop against a late fix | an allowed page gets an answer |
| **Core links and handshake** (`core/app`) | endpoint, greeting channels, six states per component | start, accept, greet, refuse, lose, start again | processes and channels | components come up and die in any order | a channel belongs to the component it named; the state says what is true |
| **Core and shell surfaces** (`core/app/Surface`, `shell/app/Model`) | shared textures, slots, generations | announce, present, resize, withdraw, import | messages, device memory | a frame for a surface that has been replaced | nothing is drawn from memory that was given up |
| **Assistant, harness, client** (`ai`, `ai-harness`, `ai-client`) | conversation, sessions, event files, agents | turn, tool call, cancel, compact, resume | QUIC channel, files | a kill between two events; cancel against answer | tasks resume, an answer ends once |

## Plan

Order: what every other module relies on first (queue, list), then what a person would notice most (windows, questions,
downloads, private tabs, restored tabs), then the reading side (navigation), then data, then the other processes.

| | Module | Composes / refines | Status |
|---|---|---|---|
| 1 | `TabList`, `Lists` | – | done, lemmas proved |
| 2 | `TabRegistry` | extends `TabList` | done, invariants and the properties of order proved |
| 3 | `Handoff`, `CommandQueue` | `CommandQueue` implements `Handoff` | done, invariants and implementation proved |
| 4 | `TabView` | its own small registry and queue | done, invariants proved |
| 5 | `Questions`, `Permissions`, `Dialogs` | both implement `Questions` | done, invariants and implementation proved |
| 6 | `Downloads` | extends `Lists` | done, invariants and the properties of ends and asks proved |
| 7 | `Profile` | extends `TabList` and `Lists` | done, invariants proved |
| 8 | `Navigation` | extends `TabList` | done, invariants proved |
| 9 | `SiteData` | its own registry, worker and network process | done, invariants proved |
| 10 | `BookmarkTree`, `Library` | `Library` extends `BookmarkTree`, which extends `Lists` | done; the history and what the files hold are proved |
| 11 | `Input` | its own small registry; keys, focus, find and zoom | done, but for printing; invariants proved |
| 12 | `Links`, `Surfaces` | core, shell and browser component | next |
| 13 | `TaskStore` | an abstract log that survives kills | next |
| 14 | `Settings` | with `Library`'s way of writing files | later |
| 15 | `NavigationURL`, `Wire` | pure functions against reference definitions | later |

Abstract specifications worth stating: `Handoff` (done), `Questions` (done), a file that settles behind a changing
model (session, history, bookmarks, zoom levels, ledger, settings and downloads all write one; `Library` states it directly,
as `FilesHoldTheModels` and `FilesCatchUp`), and a link that is either absent, agreed or lost. One run per component: several
questions about a component share its state graph, and properties that ask one question are one conjunction of named parts.

Each property a run checks that is not liveness is a theorem, but for what `Library` says of the tree of bookmarks: the walks
over it are recursive, and what they compute for every tree needs an induction over data.

## What is modelled

In every module a thread's step runs from one point where another thread may see it to the next: a lock taken and
released, a message posted, a callback that runs foreign code. Where the code reads something outside a lock and uses it
later, the read and the use are two steps. Wording, drawing, layout and error texts are left out. `MC<Module>` gives the
constants their small values. Beside a definition, under "Mutant:", stands the form a plausible bug would give it.

**`TabList`** is the arithmetic of the strip, without state: where a tab may be inserted, what is left when one is taken
out, which tab shows next, the stack of closed tabs. **`Lists`** is what a loop leaves of a list that copies some entries and
not others (`Only`): the session without private tabs, the history without live downloads, the asks without late ones.

**`TabRegistry`** (`tabs_model.cpp`). The frame thread reserves ids and posts; the WebKit thread drains the queue and then
gives pages their turn. `closeTab` and `closeAllTabs` are split where the page is destroyed, because WebKit and the
observers may open other pages there (`work`, `doomed`, `PageOpens`). `published` is the copy the host reads, written by
`Publish` wherever the code calls `publishTabs`.

**`Handoff`** is the promise: work that is posted is run in order by a loaded thread, or cancelled, once. **`CommandQueue`**
(`tabs_engine.cpp`) is posting, draining, starting and stopping at the level of locks and of the flags that are read without
one, for the host and any number of helper threads. `KeepsPromise` maps the queue onto `Handoff`: a payload in a thread's hand
is not yet posted, one that is queued is pending.

**`TabView`** (`tabs_view.cpp`, `hb_tabs_set_bounds`): the rectangle, the child that is selected, windows moved
asynchronously by the frame thread, suspended and resumed tabs, the stand-in frame with its bitmap and deadline, and
repaint answers that come late or never.

**`Questions`** is what permission requests and dialogs have in common: asked, shown perhaps, answered once, with a yes
only if a person said yes. **`Permissions`** follows a request from WebKit's callback through the table's copy, the queue,
the pump, the prompt and the answer, with the table edited and published in pieces. **`Dialogs`** follows a question from a
page through parking, the overlay and delivery, the file picker's thread, and the page held down while the host draws over it.

**`Downloads`** has one record per download through every report WebKit makes, the WebKit reference that goes with it,
cancels that cross reports, asks to save an address matched by the next load, and the history file written from both
threads, through a shutdown, a kill and a restart.

**`Profile`**: the profile prepares with the first page or in the pump, and may fail first; `Applies` gives a page its
store, with the mark left by `hb_data_store_open_private_tab` and the store inherited from an opener, or, when no ephemeral
store can be made, with the profile's own (`denied`); `Forgets` runs as a tab closes. The session is encoded by the pump and
submitted to the worker in two steps, and by the host's thread as the process ends, which reads the published list tab by tab.
Each write may fail, leaves the file that was there, and is not tried again. A process may be killed; the next one loads the
file and the host restores it command by command. The registry here has no pinned tabs and a queue of its own kinds of
command, and the pump encodes as long as the worker is not `MaxWork` sessions behind.

**`Navigation`**: pages report starts, commits, ends and crashes; records follow, snapshots are published with the page's
history; the cycle hook reads the registry's revision; the host presses what the last snapshot showed, in two steps (push,
then ask for a drain). A page has one load at a time, and a load that is replaced fails before the next starts, as WebKit
reports them. `followTabStrip` writes the rows one at a time; here it is one step, so that two tabs with one row for the
length of a loop are not seen.

**`SiteData`** (`harmony_data_store_{remove,records,origins}.cpp`). A removal goes through measuring, flushing, the engine's
own removals and sweeping, and a listing through asking for the caches, scanning and publishing; each step is one action of
the WebKit thread (`RemovalPump`, `RecordsPump`) or of the worker. Questions put to WebKit carry the token of their step, are
answered in any order, late or never, and a deadline ends a step. What a page writes is in the memory of the network process
until that process writes it, is told to, or is ended. An item is a tree of files: the site in front, the site that stored and
the kind; ages are "old" and "new", before and within the range a person clears. The ledger notes the origins of the open tabs
and is saved when the strip has settled; a save may fail. A file that another program holds open (`Held`) may stay where it
is: the sweep goes on, the removal ends and the ledger forgets the site all the same.

**`BookmarkTree`** says what each edit makes of the tree and what a visit or a forgetting makes of the history, and how the
tree becomes lines and is read back. The files that are found are ones `encodeBookmarks` has written, of this process or one
before it, so that no id stands in them twice. **`Library`** lets a person and a page use it: edits mark a model, a marked
model that has stood still is given to the worker (`Settle`, `Pump`), the worker writes beside the file and moves over it
(`OpenFile`, `FinishFile`), the end of the process flushes what is marked, and a process may be killed anywhere and another
read what is there. A page reports its address again and again; only a new commit is a visit.

**`Input`** (`harmony_input_{engine,hooks,focus,find,zoom}.cpp`, `app/Input`). A key goes to the thread whose window has the
keyboard, and that thread's hook claims it between two of its steps; what it decides is queued for the frame. The frame's part
has the order of the code: find the window of the keyboard, settle its owner, look at the zoom revision, scan tab by tab,
write the levels, take up a press, drain the queue (`FrameBegins` to `FrameEnds`). A zoom is read, stored and posted in three
steps, on either thread, because the level, the site and the list of pages are read one after the other. A search stores its
query, then how its answer is to be counted, then is posted (`SearchTakes`, `FindAims`, `FindAsks`); a close takes the bar
down, clears the query, empties the counts, posts the hide and then does what comes behind it (`FindExchanges` to
`FindLeaves`). Both threads close: Escape in a page does so on the WebKit thread, between any two stores of a search on the
frame's. Searches and their answers pass through the page's process. A tab stands for its window, a press for the field it
lands on, a text for the number of places it stands at, and the registry for a set of tabs with an address each. One step each
are the stores of an answer, the three of the counts, the repetition with the direction, and the walk over the strip that
posts a level (`zoom.cpp:161-172`). A close begun by a chord counts as asked when its event is queued. The selection of a
field's text that F6 asks for (`focus.cpp:63`) and `hb_input_zoom_set` are left out.

## Runs, bounds and fairness

| Run | Instance | Shows |
|---|---|---|
| `tabs` | 3 tabs, 1 queued command, closed stack of 2, positions 0–2, pages open inside a destruction | the list in order, only the tab that is named moves, published list and observers follow every close, a reopened tab is where it was |
| `queue_posts` | host, WebKit thread, 1 helper, 3 payloads, restarts, failing loads | `CommandQueue` implements `Handoff`; nobody waits for ever |
| `view_switching` | 2 tabs, 2 rectangles, 1 resize at any point | no freed frame is shown, stand-ins come down, a tab first shown fills the window and has drawn |
| `permissions` | 2 pages, 1 site, location and camera+microphone, 2 requests, 1 change of the table | one answer each, none without agreement, copies agree |
| `dialogs` | 2 pages, certificate and picker, 2 questions, 1 overlay | one answer each, the overlay goes, pages draw again |
| `downloads` | 2 downloads, 2 addresses, history of 1, 2 processes | ends are final, references once, file current, standing asks kept, cancels settle |
| `profile` | 3 tabs per process, 3 events, 2 processes, a session of the pump before the worker; a profile, stores, views and writes that fail | one private session, nothing private on disk, tabs come back |
| `profile_showing` | as above, queue of 2, no failures | *violated*: another tab shows |
| `navigation` | 3 tabs, 5 reports, 2 presses or calls, entries that vanish | published is known, loading is shown, presses go where shown |
| `site_data` | 2 sites, one under the other, an old cache and new cookies, 2 requests (a site; a range), 3 events, failing saves, a file that may not go | a removal counts its own answers, takes what was asked and no more, does not lose what others held, and ends |
| `library` | a folder, one page filed twice, 2 addresses, 2 edits or visits, caps of 2 and 1, 2 processes, failing writes | the tree stays a tree, files hold a state of the models and catch up, what was forgotten stays so |
| `input` | 2 tabs, 3 addresses on 1 site or none, a text found twice and one not at all, ladder of 3 | keys go where they were asked, the count is exact though searches and closes are torn, zoom settles, the keyboard does not stay with a hidden page |

Every bound is a constant with "bound:" in its comment. `Input` has a set of budgets (`Starts`): each says how many chords,
chords about the find bar, zoom changes and events of tabs a behaviour may have (two: a tab opened and the other one selected
again), and which file of levels it starts from, so that three chords, four about the find bar, or two changes of zoom are
explored without the product of all of them; a budget with a bit of each covers how they meet. `Library`'s caps of two visits
and one entry make both reachable with two events. They are chosen so that each interesting case fits: three tabs are the
least with a neighbour on both sides, a pinned one and one being destroyed; two rectangles and one resize are the least for a
late move; two requests are the least for a torn prompt; two processes are the least for a restart, three events for a private
tab, a popup and a load. A queue of one or two is enough because commands are taken in order and the host's reads are explored
at every point between them; so is one session of the pump before the worker (`MaxWork`), with that of the quit behind it, and
the theorems hold for any number. Every property is violated by at least one mutated form within the same bounds.

`CHECK_DEADLOCK FALSE` throughout: every model is bounded, and every program may end.

Fairness is weak fairness of a thread that is scheduled (`WebKitStep`, `WorkStep`, `WorkerStep`, `HostStep`, `Pump`, `Write`),
which the operating system gives and the code's loops do not withhold. Reports of pages have none: a page may never answer.
Beyond that:

* *Dialogs* assumes strong fairness of a person answering the question on screen, since hiding and showing the dialog
  interrupts them, and weak fairness of a person in the system's file dialog, which cannot be interrupted. `Permissions`
  assumes that a person answers in the end.
* *Downloads* assumes strong fairness of `DidCancel`: WebKit confirms a cancel in the end, although a download that is paused
  by other reports may not be ready to be confirmed at each moment.
* *SiteData* assumes strong fairness of `CachesNamed`: WebKit answers the question for the names of its caches in the end, for
  which the code has no deadline. No other question is assumed to be answered; the passing of the deadline is (`TimePasses`).
* *Library* assumes that the clock lets a change stand still in the end (`Settle`), and that the writers go on.
* *Input* assumes only that both threads go round (`FrameStep`, `EngineStep`): a person, the pages and the answers of a search
  have no fairness.
* *TabView* assumes strong fairness of `Expire`: the loop comes past the deadline's test again and again.

## Proofs

| Theorem | Module | Says, for every value of the constants |
|---|---|---|
| `TabsAreConsistent`, `PinnedTabsArePrefix`, `IdsAreUnique` | `TabRegistryProofs` | the state has its type, pinned tabs are a prefix of the list, no tab is listed twice and no listed id is still to be reserved |
| `TheListIsFollowed` | `TabRegistryProofs` | between two commands the host reads the list as it is, with a tab of it selected; observers hear of every page that goes; the thread leaves nothing behind |
| `TheOrderIsKept`, `TheCloseIsUndone` | `TabRegistryProofs` | no step changes the order of two tabs unless it moves or pins one; a reopened tab is put back where it was |
| `QueueIsConsistent`, `ShutdownIsLast`, `WorkIsNeverLost`, `EventIsThereForWorker`, `OwnersSignalSafely` | `PromiseProofs` | no command behind Shutdown, payloads in one place until they are run or cancelled, the event outlives the thread and is open when its two owners signal it |
| `ImplementsHandoff` | `PromiseProofs` | the queue implements `Handoff`: initial states map to initial states, steps to steps or stutters |
| `RequestsAreConsistent`, `AllowedIsShown` | `PromiseProofs` | no request waits for a page that is gone or behind the shutdown, the copies of the table agree; nothing is allowed that neither the table nor a person who was shown it allowed |
| `DialogsAreConsistent` | `PromiseProofs` | no question waits for a page that is gone; a question is parked exactly as long as its page waits |
| `PermissionsImplementQuestions`, `DialogsImplementQuestions` | `PromiseProofs` | both implement `Questions`: answered once at most, with a yes only if a person said it |
| `DownloadsAreConsistent`, `EndsAreFinal`, `StandingAsksAreKept` | `PromiseProofs` | a reference is held in one place and released once, what is written is watched, the file holds what has ended; an end is final, also across restarts; an ask that stands is used up by one download and nothing else |
| `ScreenIsConsistent`, `FirstShowing` | `TabViewProofs` | a stand-in on screen has its frame and follows the window, suspended tabs are hidden but for a late move; a tab first shown fills the window and has drawn |
| `TheModelIsConsistent`, `CommandsGoWhereShown` | `NavigationProofs` | what is published of a tab is what WebKit knows of it; a press goes to the entry and the tab that were shown, unless list or strip has moved |
| `TheProfileIsConsistent`, `NothingPrivateIsWritten`, `TheSessionSurvives` | `ProfileProofs` | private tabs share the one private session, which ends with them, and a tab asked for privately is one of them, but for a mark that was taken or a store that could not be made; none is in the file or on its way there; a quit whose last write succeeds leaves the open tabs on disk, and the next process has back what it finds |
| `SiteDataIsConsistent`, `TakesWhatIsAsked`, `SparesTheUnsaved` | `SiteDataProofs` | a step counts its own answers, the ledger's file follows the ledger; a removal takes what was asked, but for files that could not be deleted, and nothing else; what others held in memory is not lost |
| `HistoryStaysInOrder`, `FilesHold`, `ForgottenIsForgotten` | `SiteDataProofs` | the history is in order and within its caps, also when just read; as long as the tree comes back from its lines, a file holds what its model was, and the model itself once nothing is under way; what was forgotten stays so |
| `InputIsConsistent`, `KeysAreWhereAsked`, `TheCountIsExact` | `InputProofs` | the last write of the levels is not lost; once a chord's events are carried out the keyboard is where it was asked; while no thread is inside a search or a close, the bar counts what the page in front shows |

They assume what the modules assume of their constants (`RegistryAssumption`, `QueueAssumption`, `PermissionsAssumption`,
`DialogsAssumption`, `DownloadsAssumption`, `ViewAssumption`, `NavigationAssumption`, `ProfileAssumption`, those of
`SiteData`, `InputAssumption` and `LadderAssumption`, `TreeAssumption`, `LibraryAssumption` and `FoundAssumption`): natural
bounds, sets of pages, threads and payloads that are told apart, a stack that holds at least one tab, a ladder of levels
that ascends, files of the library that a process before has written. `PromiseProofs` holds the four components that are
handed something and promise what becomes of it; it extends `Permissions`, and has `Dialogs`, `CommandQueue` and `Downloads`
as instances `D`, `C` and `L`, so that what these assume of their constants is a hypothesis of their theorems.
`SiteDataProofs` holds in the same way what the profile keeps: it extends `SiteData`, and has `Library` as an instance `L`.
TLC checked each inductive invariant on the run's instance, or a smaller one, before it was proved. In each module every
action has a lemma, and the operators have theirs.

*The list.* "Pinned tabs are a prefix" is not inductive. A close holds a position across the destruction of the page, during
which another page may open; and `closeAllTabs` has a tab out of the list that is still flagged as pinned. `IInv` adds
`WorkOK` (the position held still names the tab held, because pages open at the end) and `QueueReserved` (an id in the queue
has been reserved and is not in the list yet when its command creates it). The lemmas of `TabListTheorems` say what inserting,
erasing and looking up do to a prefix and to distinctness; each command's step is a lemma of its own.

*The list, as it is followed.* A close publishes nothing until it is over, so what it leaves selected has to follow from how
it began (`SelectionOK`); tabs that are awake are in the list or being destroyed, an exit leaves nothing, and the stack
remembers places that were possible (`RememberedOK`). That order is kept needs lemmas on where two tabs stand to each other
after one insertion, one removal, or both.

*The queue.* The pairs of flag and queue are not invariant alone: a thread between the test of `g_stopping` and the push is
where Shutdown may overtake. The invariant says what a thread in that place knows, that a payload is held by one of thread,
queue or history, and which of host and worker may still use the event. The implementation of `Handoff` uses it once, for the
step that cancels what is left.

*Permissions.* A prompt is put together from three reads of the queue. The request whose id was read stays the oldest that
waits for as long as it is there, since ids only grow and only the frame thread marks a request resolved. The rest is about
what is half done: the shutdown's flag is set before the service is posted, the table is cleared and set entry by entry, an
answer is on its way to a page.

*Dialogs.* Three threads answer. An answer is written into the parked question, found by its id, and ids are not used again;
what the picker has chosen counts only while it completes; the question read for the screen is never the picker's.

*Downloads.* "The file holds what has ended" says nothing while a snapshot is on its way, and that is most of the time.
`HistoryOK` says that the snapshot a thread is about to write is what would be taken now, as long as one thread writes at a
time; `PaperOK` that whatever is in the file or on its way there gives the state its record has, which is why a restart brings
back no other end, even when an older snapshot has won. A download has one record (`RecordsOK`), so that a second report finds
the one that has ended. A reference is in its record, in the WebKit thread's hand or released (`ReferencesOK`). The lists are
cut by `Only`, of which the proofs need that it looks at places and joins over parts: a list on which such a law failed would
have a shortest one, which cannot be (`NoShortest`), in the place of an induction.

*Tab view.* The frame thread stores a rectangle in two halves, reads the selected tab and asks for its window to be moved.
No request for a tab that nobody has left yet is older than its selection, and the last is for the rectangle there is, or the
frame thread has yet to send one. Pages opened while one is destroyed never select the tab that closes.

*Navigation.* A command that waits carries two stamps, the version of the page's list (`ListStamped`) and the revision of
the strip (`FrontStamped`). The proof keeps what they still say while they match: the list has the entry there, the tab in
front is the one that was. A record that is only being attached has revision -1, which matches nothing, and pages of tabs
not listed yet are new.

*Profile.* The mark of a private open stands in front of its open, in the queue or out of it, and nowhere else (`MarksOK`),
as long as no popup has taken it. What the host lists at the end is in step with the list it started from (`Listing`), and
what it made is the last thing the worker will write (`IsLast`). Nothing is written before it was read (`LeftOK`). A restore
is split between the tabs that are there and the commands that wait for the others, in order (`RestoresUpTo`); each command
that runs moves one entry from one part to the other. Which tabs of a list are kept is a set of positions counted by rank:
the lemmas on `Only`, in `TabListTheorems`, need a least-number argument instead of an induction. Three attempts failed for a
reason. A popup of a tab that is private already uses up a mark too, which the model's `stolen` had not counted (TLC shows it
with four tabs); and the invariant had to say that Shutdown waits only in a process that stops, and that no mark is posted
while nobody has touched the tabs. The proofs hold for any number of tabs; the run has three.

*Site data.* What is still being asked tells how far a removal is: an answer carries the step it was asked in, and the end
of the network process ends every question (`AskedOK`), so that a late answer is either of the step under way or changes
nothing that counts. The worker has one job of the removal and one of the list, the ones they wait for (`WorkOK`). Three
sets of items are followed through the steps: what is condemned, what is in the memory of the network process, and what was
there as the flush began. Condemned items leave the memory before the sweep and the disk with it (`TakenOK`), all but the
jar of cookies, which has no ages and goes when WebKit answers; what was unsaved is written or its question still stands
(`SparedOK`).

*Bookmarks and history.* "Once nothing is under way" says little while something is. `ArrivesOK` says of a model that is not
marked that the last job of it in the way, in the worker's queue, in its temporary file or in the file itself, holds the model
as it is; what the flush has of it comes behind all of these, or the two have met. `PapersOK` says that all that is queued,
open or in a file is the writing of a state the model was in. That a history comes back from its file is proved: what is in
order is sorted already, since a map of places onto themselves that keeps their order moves none. That a tree comes back from
its lines (`TreeReadsBack`) is checked by the run and is a hypothesis of `FilesHold`; the theorem says that nothing else is
needed, whatever fails or is killed. What a forgetting leaves is in order since `Only` keeps it (`OnlyKeepsOrder`).

*Input.* What a chord asked for is the last event that waits, or it has been carried out and nothing has undone it since
(`ChordOK`); this needs to know that a press is looked at before events are carried out, and that a field never has the keys
while the page has the keyboard, but behind the frame's back (`FieldOK`). A search goes through two queues, the WebKit
thread's and the page's. As long as no search has met another there is one at most in both together, and no hide of its page
behind it (`OneSearch`, `HidesBefore`); the sweep that comes with a new page stands in front of the first search
(`SweepOK`). With nothing unanswered, bar and page agree on text, number and place (`Agrees`), and going round the places
keeps it so. What a thread in the middle of a call knows takes the place of that in between: while one is at a close nothing
is unanswered and no search is being prepared (`EndsOK`), while a search is prepared the page is as it was when the text was
compared (`AskOK`), and a key's close says nothing of the keyboard before its event is queued (`KeyCloses`). The invariant
failed twice for a good reason: a page left with a search still marked goes on from its place when the same text is searched
for there again, while the bar begins at 1; and a walk queued before an Escape may begin a search backwards, at its last
place. The model had counted these cases as exact.

Only model-checked: that the tree of `BookmarkTree` stays a tree and comes back from its lines, and has its type
(`TreeIsATree`, `TreeReadsBack` and the type in `LibraryConsistent`), since the walks down, up and through the lines are
recursive and what they compute for every input needs induction over data; and liveness under fairness, for which TLAPS has
no rule here (`NobodyWaitsForEver`, `StandInComesDown`, `RequestsSettle`, `QuestionsSettle`, `ScreenIsGivenBack`,
`CancelSettles`, `SiteDataSettles`, `FilesCatchUp`, `ZoomSettles`, `KeyboardSettles`).

## Where code and comments disagree

One run ends in a violation, and what it shows was found while translating the code.

* `profile_showing` (`harmony_data_store_session.cpp:375`): entries without an address are dropped while the session is read,
  and the position of the selected one is not moved with them. `SessionRestore.kira:86` says "The tab that was showing when
  the browser was last closed comes back showing."

## What the runs leave open

Cases the models contain, or that were met while reading, which the code does not handle and which a property
therefore excludes. Each is named at its hazard in `PROJECT.json`.

*Registry.* `closeTab` reads whether the tab is selected, destroys the page, then acts on what it read (`model.cpp:273`): a
page that opens in between selects itself, and the neighbour that is then selected leaves it awake in the background, although
`view.cpp:9` says "A background tab is suspended". `closeAllTabs` records positions in a list that will be shorter: three tabs
a, b, c reopen as a, c, b (`model.cpp:311-312` expects the list to rebuild itself). After WebKit failed to load, commands
already queued stay there until the stop (`engine.cpp:288`). A helper thread that posts while the host stops may signal the
event after it was closed (`engine.cpp:585` against 645-654); for the host and the WebKit thread this is proved impossible.

*Windows.* A resize that read the selected child before a switch shows that child over the one selected since
(`api.cpp:172-174`), although `harmony_tabs.h:10-11` says that exactly one of the children is visible. A resumed tab keeps the
size it thinks it has, although an asynchronous move that came after it was left has changed it (`view.cpp:307`); the same
kind of move raises the child over the stand-in (`api.cpp:174`); and an answer to a repaint asked before a switch takes down
the stand-in of the switch (`view.cpp:338`).

*Permissions.* A prompt can be put together from two requests, and its answer is remembered for the origin it named
(`PermissionBridge.kira:205`). A request the table allows is briefly in the queue and may be prompted for
(`permissions_clients.cpp:109`). The table is cleared and set entry by entry, and a policy that was cleared is not withdrawn
from WebKit's notification manager (`permissions_clients.cpp:391`). Of two records for one origin and kind, which only a table
edited by hand can hold, Kira takes the first (`PermissionStore.kira:59-67`) and the engine the last
(`harmony_permissions.cpp:571-578`); the tables of the model have one.

*Dialogs.* A page destroyed between the frame that puts windows back and the service it posted is still asked to draw
(`dialogs.cpp:219`). All hidden windows come back, also of tabs no longer in front (`dialogs.cpp:299`). A picker's thread
whose apartment failed leaves `g_thread` set, so later pickers wait for nobody (`dialogs_filepicker.cpp:303`).

*Downloads.* Two threads write the history outside the lock, so an older snapshot may win (`downloads_model.cpp:277`). An ask
to save is matched before its age is looked at, although the comment at 11-13 says that asks expire (418-424), and by the load
of any tab.

*Profile.* Between the mark and the open of a private tab a page's `window.open` may take the mark: the popup is then private
and the tab asked for is not (`profile.cpp:346-350` says otherwise). A popup of a private tab, which needs no mark, takes it
too. If the ephemeral store cannot be made, the tab falls back to the profile, which the comment at 307-309 calls worse than
saying so: it browses there, and its address is written to the session. A session that could not be written is not tried
again, so a quit may leave the one before it (`session.cpp:134-168`). The id of a tab whose view failed stays among the
private tabs, so the session does not end (303). At the end of the process a close on the WebKit thread can make the host read
a private tab as an ordinary one (`session.cpp:241`), and a session the pump encoded before can be submitted after the host's
(269). If the profile was not ready when the registry's first tab appeared, the restore is taken for empty and what is loaded
later is overwritten; a process that ends before its restore is through leaves what it had restored so far.

*Navigation.* A command for tab 0 queued behind a selection acts on the tab that is just left, until the next cycle
(`navigation_state.cpp:545`; `NavigationState.kira:9` says 0 is the tab the browser is showing). A navigation posted behind
the open of its tab may be drained before the open. `ChromeNavigation.kira:16-20` says that a page is read whole "in one read
rather than six"; `harmonyNavigationPage` reads each field under a lock of its own.

*Site data.* The flag of a request is set after the queue's lock is given up (`remove.cpp:342-349`): a request that is through
by then leaves the panel saying that it clears until the next one ends. The list's counter of requests falls to 0 while a new
one waits, although `harmony_data_store.h:112-114` speaks of a count that says a request is under way. The whole ledger is
cleared after a removal of cookies alone, and a range forgets sites whose older data stays (`remove.cpp:313-314`). A range
takes the cookies whole, where WebKit can only take them by site. A file that cannot be deleted stays, and is forgotten all
the same (`paths.cpp:277-278, 311-314`). The ledger is written in place, so a kill in the middle leaves half of it
(`origins.cpp:388`), and the host's last save runs beside the WebKit thread's. The question for the names of the caches has no
deadline (`records.cpp:328`).

*Bookmarks and history.* A clock that steps back puts visits out of the order `internal.h:40` promises ("Ascending";
`history.cpp:118-120`). A write that failed is not tried again before the next change, and each change begins the wait anew,
so a steady run of them is written when it ends. An edit before the files are loaded is dropped by the load
(`file.cpp:478-485`). A file edited by hand in which an id comes twice would give the tree two nodes with it (`file.cpp:435`);
no such file is modelled. The flush at the end may run beside the worker and be overtaken by it. A private page that reports
after its tab was forgotten would be recorded. `hb_bookmarks_shutdown` has no caller in the host, and the bookmarks, settings
and menus sources are not in the build list of `package.kira`; `codec.cpp` holds a second copy of the functions `file.cpp`
keeps in its anonymous namespace.

*Input.* The answer of a search is counted with the direction and the repetition of the search asked last (`find.cpp:177`),
and a search that is closed after a tab switch is hidden in the tab now in front. A page left with a search goes on from where
it was when the text is searched for there again, while the bar begins at 1 (`find.cpp:175-178`; line 11 calls the counting
exact); the same holds of a first search that goes backwards, which is found at the last place. A close on the WebKit thread,
from Escape in a page (`hooks.cpp:221`), may come between the stores of a search on the frame's (`find.cpp:141-180`): the
search is then answered although the query is empty, and the count stands without a search, or what it found stays marked
after the hide. A reset between the stores of an answer may leave an index without a count. A page that takes the keyboard
between two frames leaves a field with its keys (`focus.cpp:197`), and Escape and Ctrl+V in a page then go to the chrome. Two
changes of zoom at once, one on each thread, may leave one level stored and another shown (`zoom.cpp:174`); a page that leaves
its site and comes back between two scans is not told the level again; a page without a site always steps from 100; a step
taken for such a page reaches the page that has replaced it. A write of the levels that failed is not tried again, and a step
after the last save is lost. A press before a tab's window is known is taken for the chrome's.

## What is not modelled

Settings, menus, notifications and location, printing, the chrome's drawing, the macOS engine, and everything outside the
browser: they are listed with their reasons under "components" in `PROJECT.json` and, where worth it, in the plan above.
WebKit is external: a page may do anything its callbacks allow, one callback at a time; so is its network process, which
writes when it likes. So are Windows (asynchronous window moves, the file dialog, the event, who has the keyboard) and the
disk, where a file that is moved over another is replaced whole. Within the modelled parts: byte counts, names and
destinations of downloads, text of questions, back and forward lists across a restart, the backing scale, printing of windows,
the policy a site is remembered with beyond allowed, blocked and undecided, sizes and salted names of site data, titles and
suggestions, and the chords that only queue a command for another part.
