# Verification of grive2

grive2 is a command line client that keeps a local directory and a Google Drive in agreement.
It has no daemon: every run scans the directory, reads the list of the files on the server, compares both with an index of the last run, `.grive_state`, transfers what differs and writes the index.
This directory holds TLA+ models of that, the TLC runs that check them and the proofs that TLAPS checks.

Paths below are relative to the repository, `base/` stands for `src/libgrive/src/base/` and so on.
`PROJECT.json` lists the components, the runs, the findings, the theorems, the mutants that show that each property can fail, the hazards with the properties that watch them, and for every definition the lines it models.

## The system

| Part | State it keeps | Operations | Talks to | Module |
| --- | --- | --- | --- | --- |
| Decisions about one file: `base/Resource.cc` | the attributes of a Resource: state, checksum, size, ctime, server time, ETag | FromLocal, FromDeleted, FromRemoteFile, GetMD5, SetIndex | its record in the index, the disk | `Resource` |
| Synchronisation of one file: the same, with `base/State.cc`, `base/Drive.cc`, `base/Syncer.cc`, `drive2/Syncer2.cc`, `main.cc` | `.grive_state`, its copy in memory, the Resource | read, scan, list, upload, download, delete, save | user and other clients, through the disk and the server | `FileSync`, `TwoCopies` |
| Synchronisation of a tree: the same | the Resource objects, the nested index | the upward and downward propagation of states, the walk, CheckRename, DeleteLocal of a folder | as above | `TreeSync` |
| Index of the resources: `base/ResourceTree.cc`, `State::Update`, `State::ResolveEntry` | resources by address; the entries that wait for their folder | Insert, ReInsert, FindByHref, Resolve | listing | `ResourceTree` |
| Listing: `drive2/Feed2.cc`, `drive2/Entry2.cc`, `base/Drive.cc` | the link to the next page | GetNext, the filters of `State::FromRemote` | AuthAgent, State | `Listing` |
| Ignore rules: `base/State.cc` 51-85, 337-410 | a regular expression | ParseIgnoreFile, IsIgnore | scan, listing | `IgnoreFile`, `Listing` |
| Requests with retries: `protocol/AuthAgent.cc` | the back-off interval | Request, CheckRetry, CheckHttpResponse | OAuth2, CurlAgent | `Transport`, `RemoteCall` |
| Transport: `http/CurlAgent.cc`, `http/Download.cc` | error flag, error text, destination | Request, HeaderCallback, Receive, the read callback | libcurl, the destination stream | `Transport` |
| Transport for macOS: `http/NSURLSessionAgent.mm` | destination, error flag, a task with its completion handler in another thread | Init, Request | the URL session of the system | `NSURLSessionAgent` |
| Upload body: `util/ConcatStream.cc` | the parts, their ends, the position | Append, Read, Seek | CurlAgent, the file that is uploaded | `UploadBody` |
| Authorisation: `protocol/OAuth2.cc`, `.grive` | access and refresh token, a listening socket | MakeAuthURL, GetCode, Auth, Refresh, Config::Save | the user's browser, other runs | `Session` |
| Values: `json/` | Val, the stack of ValBuilder | Item, Set, Write, Parse | state, configuration, every answer | `Json` |
| XML: `xml/` | counted nodes | AddNode, AddAttribute, Find, TreeBuilder | the unit tests | `XmlTree` |
| Start of a run: `systemd/grive-sync.sh`, the systemd units | the lock file and its time stamp | sync, listen | grive, inotifywait | `SyncScript`, `Listener` |
| Command line: `main.cc` | options | Main | all of the above | options of `FileSync`, `Listing` and `Session` |
| Files, checksums, times: `util/File.cc`, `util/Crypt.cc`, `util/DateTime.cc` | the second and nanosecond of a DateTime | reading of a date, comparison, conversion for a file | listing, index, disk | what callers see of them: `Resource`, `FileSync`; dates: `DateTime` |
| Logging, progress bar, signals | - | - | - | - |

What is hard here is not any one of these parts.
It is that everything is a comparison of three things, the disk, the server and a record of both, that were read at different moments and are written by four parties (the user, other clients, grive now and grive in an earlier run, which may have died half-way), and that a wrong verdict deletes or overwrites something.
Around it is a transport that repeats what it thinks has failed, a listing that comes in pages, a lock that is a file somebody else may remove, and a configuration that every run rewrites.
The hazards in `PROJECT.json` are the places in the code where that bites.

What makes each part correct:

- *one file*: the checksum cache is right whenever the scan relies on it; no version of another client is overwritten or trashed that had not been in the local directory; no local edit is lost except in a conflict; both sides converge once everybody stops.
- *a tree*: nothing is taken for new or deleted because entries came in an unlucky order; a folder that goes takes no unsaved work along; what nobody deleted stays; nothing is made in a folder that is not there; both sides converge.
- *the index*: an address leads to the resource that has it; every entry finds its place.
- *listing and rules*: what was there all the time is not taken for deleted; what is ignored is left alone, also by the run after the rules have changed; the rules mean what the manual says.
- *requests*: one that returns was carried out; one that names a version is carried out once; an error text never ends up in a file; the body is sent from its beginning; retries end once the server is calm.
- *upload body*: exactly as many bytes as announced, each in its place, whatever happens to the file.
- *values*: what was written is read again, or the reader notices; a date is read as the moment it means, and later is later.
- *authorisation*: a token stays with the application it was granted to, and the last one is not lost.
- *the script*: one run at a time, a call ends unless it is retriggered again and again, a change that was heard is synchronised.

## Modules

| Module | What it models |
| --- | --- |
| `Resource` | The decisions about one file as operators on records: what scan and listing make of it, what is written back to the index. |
| `FileSync` | One file through any number of runs, with the user, other clients and failures between any two steps. Extends `Resource`. |
| `TwoCopies` | What one file is to its user, two copies of it: the abstract specification that `FileSync` implements without its windows. |
| `TreeSync` | A directory tree through any number of runs: folders, order of the listing, the walk, moves, read-only folders. Extends `Resource`. |
| `Listing` | The root folder through any number of runs: the pages of the feed, what grive does not take, ignored names, `-s`. Extends `Resource`. |
| `IgnoreFile` | `.griveignore` as lines of patterns over paths, and what the README says of them. |
| `ResourceTree` | Where the entries of a listing end up, in every order. |
| `Transport` | One request after another through AuthAgent and CurlAgent. |
| `RemoteCall` | What the callers of AuthAgent rely on: the abstract specification that `Transport` implements. |
| `NSURLSessionAgent` | The calls of macOS and their tasks. |
| `UploadBody`, `Json`, `DateTime`, `XmlTree` | ConcatStream over a file that changes; values as trees and as tokens; the time of a file from the server to the disk; counted nodes. |
| `Session` | `.grive` and the tokens in it, with two runs at a time and a browser. |
| `SyncScript`, `Listener` | `grive-sync.sh sync` with its lock file and several callers, and `grive-sync.sh listen` as one of them. |
| `MCFileSync`, `MCTreeSync`, `MCSyncScript` | Values of the constants for TLC; the last one also lets the clock of `SyncScript` go on for ever. |
| `MCListing` | `Listing`, `IgnoreFile`, `ResourceTree` and `DateTime` in one run: an execution is of one of the four (`part`), as they share no state. |
| `MCTransport` | `Transport`, `UploadBody` and `NSURLSessionAgent`, in the same way. |
| `MCSession` | `Session`, `Json` and `XmlTree`, in the same way. |
| `FileSyncProofs`, `TreeSyncProofs`, `ListingProofs`, `ResourceTreeProofs`, `TransportProofs`, `UploadBodyProofs`, `SessionProofs`, `SyncScriptProofs` | Theorems; the macOS agent is in `TransportProofs`, the ignore rules and the dates are in `ListingProofs`. |

`FileSync`, `TreeSync` and `Listing` use the same `Resource`, so a decision about a file is the same definition in all, and they divide the rest: what happens *within* a run to one file is in `FileSync`, what needs folders and moves is in `TreeSync`, what hangs on names and pages is in `Listing`.
Each of them takes a request as one step that succeeds, fails, or succeeds without a reply; that this is what a request is, however often it is repeated, is `Transport` implementing `RemoteCall`.
That an entry reaches the resource of its path, which `TreeSync!List` and `Listing!List` take for granted, is `ResourceTree!EntriesFound`.
That runs follow one another in one directory is `SyncScript`, and what happens if they do not is the finding there.

### FileSync and the code

`file` and `remote` are the file on both sides, `index` its record in `.grive_state`, `st` that record in memory (`State::m_st`), `res` the Resource object.
A run goes through `pc`: `Scan` is `State::Read` and `State::FromLocal`, `List` is `Drive::DetectChanges`, then one action per case of `Resource::SyncSelf` with the Syncer call it makes, the `SetIndex` or `DeleteIndex` that follows and the server time at its end, then `BeginSave` (the ofstream truncates the file) and `EndSave`.
A download is three steps, because the file is emptied before the request, filled by it, and its ctime read afterwards.
Each failing outcome is an action of its own: a precondition the server refuses, a file that cannot be opened, a request that fails (`HttpError`), a reply that is lost (`LostReply`), the death of the process (`Abort`), an exception that nothing catches.
`base` is a history variable: the last version that both sides had, and in `base.passed` the version of the server that a run with `-n` or `-u` was told to pass over.

A checksum is the content itself (MD5 is taken to be injective), a time is a number of seconds.
The local clock stamps ctimes and the server's stamps modification times; grive never compares one with the other, and nor does the model.
`Races` names the windows in which grive takes no precaution: two changes within one second (`sameSecond`), an edit between the scan and the transfer (`scanToTransfer`) or between the end of a download and the `stat()` after it (`downloadToIndex`), another client between the listing and the download (`listToDownload`).
A property that needs a window closed is checked and proved with it closed, and says so.

`TwoCopies` says what all this amounts to, without clocks, checksums and records: two copies, `here` and `there`, which their owners change, and the version that both last had. The user is not at it while grive is at work (`busy`); the others may be at any time. Local work goes only over that version, a deletion is carried over only while the other side has that version or, here, nothing else than its content, and what is fetched is always another one; where both were changed, that of the server comes here.
`FileSync!KeepsTwoCopies` maps the disk to `here`, the server to `there`, `base` to the common version, the ETag of the Resource to what was seen last, and the time from the scan to the end of `SyncSelf` to `busy`; saving and what fails leave the copies alone.

### TreeSync and the code

Every path has a place in a fixed forest (`Parent`), and is a file or a folder for good.
The environment acts between two runs only, each change in a second of its own.
`unlisted` are the entries still to come, in any order: `List(p)` takes one whose folder is known.
`agenda` is the recursion of `Resource::Sync`: groups of siblings, in the order local files, records without a file, entries without either, which is the order in which `m_child` grows; within a group any order.
`linked` are the resources whose `m_json` is not NULL, `st` is flat where the code nests it (deleting a folder's record deletes all below it).
ctimes are relative to the run: 0 is what the index has, 1 later but before the run, 2 within the run, 3 later than the run recorded.
When grive changes what is in a folder, the folder's ctime becomes later or stays within the recorded second, by choice of the model.

A move by the user or another client is one step; `CheckRename` is `Origins` (with `FindByMD5` and `FindBySize`) and `MoveRemote` or `MoveLocal`.
That a file which is in the trash of the Drive stays there when it is moved is an assumption about the service, as are the refusals for read-only folders; a file that is moved to a folder which has no ID yet (`Syncer2.cc:116-120` sends an empty `addParents` then) is in no folder afterwards.

### Listing, IgnoreFile, ResourceTree and the code

A run of `Listing` is `Scan` (with the rules as they are then), a `Page` after another (other clients act between them), `Missing` for the records that nothing was found for, one step per name for the walk, and the saving.
The server may have several files of one name; `mixed` are the names whose one Resource has stood for more than one version, because a name was listed twice or another content came than was listed. The filters of `State::FromRemote` and `Entry2` are the kinds of files that grive does not take.
`Scan` leaves out what is ignored and keeps its record, as `State::FromLocal` does.

`IgnoreFile!IsIgnore` is what the regular expressions of `ParseIgnoreFile` say of a path; `MatchesAll` deals the names of the path out to all the parts of a pattern. A path is a sequence of names and a pattern a sequence of parts, so a character class within a name is left out.
`Means` is what `src/README.md:61-75` says of a line, and is written from there: a name for a name, directories before the first one if the line begins with "\*\*", something below the last one if it ends so. `Keeps` extends it for included lines to what is above and below the path that is named.
The two differ in two kinds of lines, for which the program does not do what the README says: "\*\*" between two other parts, and an included line with a slash at its beginning. `AsDocumented` names them and leaves them out; they are among the disagreements below.

`ResourceTree` starts as a scan has left the tree; `Update` is `State::Update` (FindByHref, else the folder, else `m_unresolved`), `Resolve` a pass of `State::ResolveEntry`.

### Transport and the code

`pc` is where the loop of `AuthAgent::Request` is; `hdr` are the headers of an attempt, `pos` how much of the body was read, `code`, `err`, `kept` and `dest` what HeaderCallback and Receive make of the answer.
The server acts in one step once it has the request, and may do so before it has read the whole body.
`calm` is the moment from which it no longer fails without a reason.
`executed` counts what it carried out; `RemoteCall` is instantiated with it.

In `NSURLSessionAgent` the handler of a task is two steps, as it runs in a thread of its own: the status, then the flag or the data with the signal.
The wait of 30 seconds may end at any moment before the signal (`GivesUp`), whose result the code does not look at.

In `UploadBody` the reader asks for any number of bytes and goes back to any place, and the file is changed in any way between two reads of a part.

### Json, DateTime, XmlTree and the code

In `Json` a text is a sequence of tokens; yajl is external and modelled as the grammar it accepts.
In `DateTime` a date is its second and the digits of its fraction; the calendar is left to `strptime` and `timegm`.
In `XmlTree` a place in memory is used again after its object was deleted, which is what a reference too few would lead to.

### Session, SyncScript, Listener and the code

`disk` is `.grive`, `mem` what a run has of it; a token stands for the record it came with.
Saving is two steps, since `Config::Save` truncates first.
`owner` says to which application a token was granted, `saved` which one was obtained and saved last, `overtaken` and `lost` are history: a run wrote back what it read before another saved, a run was killed while it wrote.

`SyncScript!pc` walks through the shell script; `fd` is the inode behind descriptor 99, `name` the inode that has the name of the lock file, `lock` the flock of each inode.
Opening with `>` truncates and so stamps the file, `touch -m` and `rm -f` go by the name, and the trap on EXIT runs at the end of every call, of one that was retriggered too.
`Listener` adds the caller that hears changes: `unseen` are the changes that no scan has seen, `missed` that a call went by which met one of the gaps in `Misses`.

## Runs

Each passing run has, for every property, a mutant of a definition (a dropped If-Match, a missing reset, a wrong comparison, a swapped order) under which TLC finds the property violated.

| Run | Shows |
| --- | --- |
| `file_core` | Three contents, two of them of one length; edits during the transfer, one failure of any kind. The types; the cache, with the inductive `CacheInv`; the verdict "in sync" is exactly right; what is trashed had been here; a truncated download replaces nothing; both sides converge. |
| `file_hostile` | All five ways to start, three windows open, read-only and special files, any failure: an upload replaces only a version that the local directory held or that an earlier run was told to pass over (`base.passed`); with `-f` no version on the server is ever replaced. |
| `file_calm` | No windows, but failing requests, longer: only local work is uploaded, and `TwoCopies` is implemented; so only an unchanged file goes to `.trash`, and an edit is lost only in a conflict. |
| `tree_moves` | `d/s/x` and `y`, one change by each side, an aborted run or a failed request: nothing is made in a folder that failed to be made (`FoldersFirst`, the assertion of `Syncer2.cc:79`), no unsaved work goes to `.trash` with its folder, both sides converge. |
| `tree_options` | The same names with `d` read-only, so that files and folders are made, refused and trashed in two folders and the root; four ways to start, a failing request: what grive makes was nowhere on that side and its folder is there, nothing is trashed on the server unless the user did something. |
| `listing` | Two names, one with two contents, several files of one name, documents, `-s`, a rule that comes and goes, a run that dies: what is ignored is left alone; nothing is taken for deleted that was there all the time; only what had been here is trashed, and both sides converge, but for the names in `mixed`. In executions of their own: a `.griveignore` with at most one line of each kind over every path of at most three names, of which `IsIgnore` says what `Means` and `Keeps` say, the two kinds of lines apart (`RulesMeant`); every order of every listing of three entries in folders, one of them listed twice (`IndexAgrees`, `EntriesFound`); dates read, compared and given to the file (`DatesMeant`). |
| `script_ends` | The timer and the listener call without end, the user changes something whenever he likes: overlapping runs need a removed lock file, a change that was heard is synchronised but for the gaps in `Misses`, and a call that never ends is retriggered again and again. |
| `transport` | An upload, an update and a download in a row: the destination gets the answer and nothing else (with HTTP/1.1 and errors that fit); the body is whole whenever the server acts; `RemoteCall` is implemented; requests end. In executions of their own: the body of an upload over a file that changes (`BodyAsAnnounced`), the calls of macOS (`AnswerIsOwn`). |
| `session_tokens` | Two runs at a time, two applications, a browser whose request comes in pieces or a stranger who connects to the port before it, one run killed: a token stays with its application, and the last one is kept unless a run was killed while writing or wrote an old copy back. In executions of their own: values written and read, and cut off in between (`ReadsWhatIsMeant`), XML nodes made, found and forgotten (`NodesCounted`). |

Three runs end in a violation, each of something the repository says:

- `tree_lost_move` (`LocalKept`): a file moved from a folder walked earlier into one walked later is trashed before the move is detected; the move is then applied to a trashed file and recorded as done, and the next run trashes the local copy. No other client is involved. `src/README.md:262` promises automatic detection of moves.
- `transport_http2` (`ErrorsKeptOut`): the tenth character of the status line decides whether there is an error; in HTTP/2 it is the last digit of the status, so 404 still is one, but 401, 403, 412, 500 and 503 are not, and their text goes into the file that was emptied for the download. `CurlAgent.cc:151` says it does not.
- `listing_rule` (`RuleChangeTrashesNothing`): a file that is deleted while it is ignored is trashed on the server as soon as its rule goes. `src/README.md:249-250` says that it is tracked in order not to be.

### Other disagreements

These were met while modelling, and the models contain them; the definition to look at is in `PROJECT.json`, "findings".
The first group can be seen by widening the constants of a passing run.

- `UploadsOnlyLocalChanges` with `upload-only` in `file_calm`: a version that `-u` or `-n` skips is recorded with its time, and the next run takes the unchanged local file for the newer one and uploads it over that version. `OverwritesOnlyBase` names the case (`base.passed`).
- `EditLostOnlyInConflict`, and `KeepsTwoCopies` with it, with `abort` in `file_calm`: a run that dies after an upload finds its own upload in the next run, takes it for a newer version and overwrites what the user wrote in between.
- `EditLostOnlyInConflict` with another client at work states the rule grive follows: in a conflict the server wins, and the local edit is overwritten without a copy.
- `UploadsOnlyLocalChanges` with `scanToTransfer`: the size in the record is that of the scan, the checksum that of the upload, and the next run uploads a file that nobody changed.
- `CacheSound` and `VerdictSound` with `sameSecond` or `downloadToIndex`; `VerdictSound` with `listToDownload`: the cache then describes a file that is not there.
- `TrashesOnlyBase` with `Blocks`: a FIFO or a dangling link gets the state *sync*, hence a record, and once it goes the file on the server is trashed.
- `RemoteKept` with `abort`: grive follows a move of another client on the disk, dies, the client moves the file back, and the next run takes that for a deletion by the user.
- `FolderIsSync` as an invariant of `tree_options`: a folder that the user makes in a read-only one is refused and stays new, and its children are walked all the same. The assertion of `Syncer2.cc:79`, that the folder of what is made is in sync, fails for the first of them and ends this run and every other one.
- `MoveCrashes` with an empty file (a size of 0) and two changes by the user: he deletes a folder with an empty file in it and makes another empty file elsewhere. The folder is trashed and its records deleted; then the new file is taken for the old one moved, and `DeleteIndex` goes through the NULL that `SetIndex` asserts against (`Resource.cc:687`). A failed download between two changes, or a read-only folder, leads to the same with files that are not empty. In `tree_moves` and `tree_options` none of this can happen, and nothing is claimed about it.
- `RulesMeant` without `AsDocumented`: the line `a/**/b` does not ignore `a/b`, as `src/README.md:69` says it does; and `!/name` includes nothing, though patterns are relative to the root (`src/README.md:68`) and the slash of `/name` does no harm.
- One run of grive at a time: the script removes the lock file by name while another call has it open, which is why `OverlapsOnlyAfterRemoval` says what it says.

The second group is visible as the exception that a property makes, or as the outcome of one action.

- A POST without If-Match that the server has carried out and answered with 500 or 503 is sent again; a PUT with If-Match is refused the second time, and the exception says that it failed. `AuthFailed` of the refresh is not caught between retries and ends the request.
- `ConcatStream::Read` pads a part that became shorter with all it lacks, past the end of the buffer; and the size of the file is asked for twice.
- On macOS no answer of 400 or above is ever retried, a download that takes more than 30 seconds counts as done, and its data goes wherever the next call wants its own.
- A run that read `.grive` before `grive -a` saved it writes the old token back; a run killed in between leaves none.
- A browser whose request comes in two pieces, or that opens a connection ahead of it, ends the authorisation; a repeated authorisation without a new refresh token throws after the code is used up; the destructor closes a descriptor that was never opened.
- Two files of one name, and two folders of one name, share one resource.
- A download records the checksum of the listing (`base/Syncer.cc:43`), whatever came. If another client replaced the file in between and puts the first content back, the record describes a file that is not there, and what the user then deletes is trashed on the server although it was never here (`mixed` in `Listing`).
- The fraction of a date is read as a number of milliseconds however many digits it has: ".40" is 40 milliseconds, and with four digits or more there may be a second or more of them, which the other functions assert against and `utimes` refuses. The Drive sends three, and `DateTime!ReadAsMeant` is about those.
- What `.griveignore` has beyond 64 KiB is not read, and `-s` replaces the rules of `.griveignore`.
- A file name that is not UTF-8 makes the whole `.grive_state` unreadable; an answer that was cut within its outermost bracket is taken as whole, without the members that are missing; `null` is read as an object.
- In the XML library, which only the tests use: a failed `AddAttribute` leaks a reference, `Node::Text` puts its string in the place of the name, the value of an element includes its attributes, and a node that is put below itself makes `Value` not return.

### Bounds

`MaxClock` and `MaxRev` bound what user and other clients do in a behaviour, not the runs of grive, which go on for ever.
Three local changes and three versions are enough for each side to change twice around a failure; every violation of one file above needs no more than two changes by each side.
Two contents of one length tell sizes from checksums, the third one changes the size.
One failure at a time is what the code is written for (an exception ends the treatment of one file); two failures in one run repeat the case of one.
The tree has a folder in a folder, so that propagation over more than one level is seen, a file outside it, so that a move crosses the walk, and, for the lost move, two folders side by side.

In `listing` two names with a page each let a change fall between the pages, and `Inside` and the rule may be about the same name or not (its properties also hold with one name and three or four changes by other clients, which is too much for two names); not everything that other clients, rules and faults may do is done in one execution (`Spares`); paths of three names and patterns of three parts have every kind of part at every place; three entries are the least with a folder in a folder and a file in that; dates are of two seconds with fractions of none to four digits, the length from which they may be more than a second.
In `transport` two parts of a body, two of an answer and errors of one or two with a cap of one have an attempt broken off in the middle and an error that overflows; the requests follow one another without bound, and so do the attempts.
The interval of the waits is one of nine values by its own arithmetic.
The file of `UploadBody` has at most two bytes and changes twice; the reader asks for one, two and four bytes and goes to every edge, and beyond the end.
`NSURLSessionAgent` has two calls and three tasks, so that an answer can come to another call and after the last.
In `session_tokens` a value is changed twice, a text has at most six tokens, an object in an array in an object, and every cut of it; `XmlTree` has four places and two additions.
There two runs and two tokens let a token be overtaken by another; the two runs are alike, and its properties are invariants, hence the symmetry.
Two callers of the script, each of which calls again and again, let one open the file, the other remove it and make a new one. Nothing bounds calls, changes and seconds: a second that nobody will compare any more is taken out of the clock (`TakeSecondOut`), and four are enough for two callers, which compare at most two with the stamp and the present one. More callers are left to the theorems, but for `EveryCallEnds`.
Deadlock is checked everywhere.

### Fairness

`FairSpec` of `FileSync` and `TreeSync` is weak fairness of the steps of grive: that a run goes on and that another one follows.
`systemd/grive-timer@.timer` starts one every five minutes, and a run is a single thread that waits for nobody.
`Listing` adds strong fairness of `Scan("normal")`: among the runs that the user starts with `-s` there is again and again one of the timer, which starts grive without it.
Nothing is assumed of the user, the other clients or failures except that their number is bounded: convergence is about what happens after they stop.

`Transport` assumes weak fairness of the program and of the server's answers: a server that has got a request answers it or the connection fails.
That the trouble ends is not assumed: `Ends` says that a request ends *if* the server becomes calm, and the code gives no more, since retries are not counted.
`UploadBody` assumes that a call of `Read` which was begun goes on.
`EndlessSpec` of `MCSyncScript` is weak fairness of each process of the script, which includes that grive ends (`Transport` says when); nobody is obliged to call.
That retriggers stop is *not* assumed: `EveryCallEnds` says that a call which never ends is retriggered again and again. Grive's own changes wake the listener, so this happens as long as every run changes something; that runs come to change nothing is `Converges` of the other modules.

## Proofs

TLAPS checks these for every value of the constants, under the assumptions that the modules name (`ContentAssumption`, `FileSyncAssumption`, `TreeAssumption`, `ListingAssumption`, `DatesAssumption`, `SyncScriptAssumption`, `ListenerAssumption`, `TransportAssumption`, `SessionAssumption`) or the theorem states.
Each invariant was given to TLC before it was proved.

### FileSyncProofs

One file, for any contents and clocks. What is assumed of options, windows and failures grows from theorem to theorem, as each property needs it.

| Theorem | States | Assumed | Invariant |
| --- | --- | --- | --- |
| `TypeCorrect` | `[]TypeOK` | - | itself |
| `ForceOverwritesNothing` | `ForceNeverOverwrites` | - | `ForceInv` |
| `UploadsReplaceTheBase` | `OverwritesOnlyBase` | `OneASecond`: two versions are not made within one second | `VersionInv` |
| `TrashesTheBase` | `TrashesOnlyBase` | `OneASecond`; `NothingPassed`: neither `-u` nor `-n`, and only regular files | `VersionInv`, `PassedInv` |
| `CacheCorrect`, `CacheIsSound`, `VerdictIsSound` | `[]CacheInv`, `[]CacheSound`, `VerdictSound` | `Careful`: no window but the one from the scan to the transfer | `CacheInv` |
| `PartialStaysHere` | `PartialReplacesNothing` | `Careful`, `NothingPassed`, and no `-f` | `PartialInv`, with the versions |
| `UploadsLocalWork` | `UploadsOnlyLocalChanges` | `Calm`: no window, plain runs, regular files; requests may fail | `CalmInv`, with all of the above |
| `TwoCopiesKept` | `KeepsTwoCopies`: every step is one of `TwoCopies` or changes nothing there | `Calm` | `QuietInv`: all of the above and `KeptInv` |
| `DeletesTheBase`, `EditsSurvive` | `DeletesOnlyBase`, `EditLostOnlyInConflict` | `Calm` | none: they follow from `TwoCopies` |

The assumptions are needed, and TLC shows by what: with `-f`, a run that is killed in a download leaves a truncated file beside the old record, and the next plain run uploads it; with `-u`, a version that was passed over gets into the record and is trashed although it was never here; with a crash, an upload is not in the record and looks like another client's.

`CacheSound` says that a file not newer than its record has the checksum of the record. It is not inductive: a step of a run writes a record from a Resource that was filled in two or three steps before.
`CacheInv` adds what is carried from step to step: no ctime is ahead of the clock, so that a later change is visible; after the scan, a file that was not touched since has the size and checksum of the Resource; after the listing, the state *sync* implies that the checksum of the listing is that of the file; during a download, what is listed is what is received, and after it the file has that content; the record in memory is as right as the one on disk.
The proof goes by action: the environment makes the ctime newer than every record (`CacheEnvironment`), the scan and the listing establish their part (`CacheScan`, `CacheList`, with `VerdictRight` for the comparison itself), each transfer writes a right record (`CacheUpload`, `CacheDownload`, `CacheStoreIndex`), failures leave the index alone (`CacheFailure`).

`VersionInv` is about the other side. A version that is not newer than the server time of a record is the one both sides last had, or one that was passed over (`Seen`); what was listed is still there, or what is there is newer than all that any record and the listing know (`ListInv`); and If-Match tells the two apart.
`HeldInv` relates checksums to versions, `PartialInv` keeps the time of a version that was to be fetched out of every record for as long as the file is truncated, `CalmInv` says that without windows and crashes a record is that of what both sides last had, so that each verdict tells who has changed the file.
The refinement needs to know one thing more (`KeptInv`): what a file that is to be deleted or fetched was when the server was listed. Then there is a lemma for each group of actions: an upload is a `Push`, since a version that is replaced is the common one, content included (`ListedIsCommon`); a deletion is a `TrashThere` or `TrashHere` (`UnlistedIsOther`: what the server has again after it had gone is another version); and a download is a `FetchBegins` and a `FetchEnds`, or only the first if it breaks off.

### TreeSyncProofs

For any tree, any contents, options and failures: `TypeCorrect`, `Spec => []TypeOK`. Besides the types it has `KindsKept`: no file has the content of a folder and no folder a checksum, so what the search for the origin of a move finds is a file. The proof takes the two halves of the state in turn: what user and other clients change (`EnvOK`), and what a run keeps (`RunOK`).

`CreatesMissing`, under the same assumptions: `CreatesOnlyMissing`. What is new by the verdict is still missing when the walk comes to it, and the folder it goes to is there. The verdict was made before the walk began, of a path deep in the tree, and what lies between is the creation, deletion and moving of other paths; so the invariant `TreeInv` is about all of them:

- `DiskInv`, `ServerInv`: on either side, whatever is there is in a folder that is there. Nothing that grive does breaks it, not a move of a file to a folder that could not be made.
- `ScannedInv`: while the listing is read, what is not listed yet has the state that the scan gave it. An entry is listed after its folder, and a tree has no circle (`TreeAssumption` says it as well-foundedness), so the listing cannot stop before its end (`UpToRoot`): when the walk starts, everything on the server was listed.
- `KnownInv`: which verdicts a folder can have, and that a name which the run knows is in a folder whose children can be known: one that is on the disk, or that was listed.
- `WalkInv`: the agenda is made of subtrees that are apart (`Disjoint`, `Apart`), and a step of the walk changes nothing within those that wait (`WalkKept`); in them every verdict is as true as at the start. The folders above have been walked (`Walked`), so one that is *sync* is on both sides.

`Ancestors` is the smallest set that is closed under going up. The lemmas about it (`AncestorsWithin`, `AncestorsStep`, `AncestorsLinear`, `BelowParent`, `ClosedAdd`, `ClosedCut`) are all that is known of trees in the rest of the proof.
`TrashesSaved`, under the same assumptions again: `TrashesNoLocalWork`, what a user would mind most. That nothing below the folder is new was seen by the scan, mostly by ctimes alone, and what the scan compares with are records that earlier runs wrote, at any of eight places. `WorkInv`, on top of `TreeInv`, says what makes these right:

- `Current`: a file not newer than its record has the record's checksum, for the index on disk and the one in memory. A download writes the record with the ctime read afterwards and the checksum that was listed, so it needs `Fetches`: what is still to be fetched is what the server had when it was listed. One that is cut short writes no record, and leaves a file newer than the old one, because records of what is not in sync by now are older than this run.
- the checksum of a Resource whose verdict leaves the file as it is, is that of the file: it is what a move finds its origin by, and what is written then.
- `Saved`: for a verdict that trashes, all that is below is as in the index, until the walk comes to it. Nothing that is still to be walked has below it what the walk has been to (`PendingApart`).

`SavedRunsKeepRemote` and `QuietUserKeepsRemote`: `RemoteKept`, the harm that reaches every other client. A file that is not on the disk is a deletion by the user if the index has a server time for it that is not older than what is listed; so no record may outlive its file, and the two come and go at different steps, in nine actions, with others moving old files back in between. `QuietInv` says of a user who has done nothing so far:

- between two runs nothing in the index is missing on the disk, and in a run nothing in the index in memory is (`QuietReturn`, `QuietMove`); so the scan has nothing left over, and a name that is not on the disk has no server time (`Timeless`), while all that the server has, has one.
- what a verdict still waiting for the walk will record or fetch is still there (`Backed`), whatever was moved or trashed meanwhile.

That a run ends with the index in memory on disk is assumed by the first theorem (`RunsSave`), for any tree, read-only folder and failure: without it, what a killed run has done on the disk looks like work of the user, which is the disagreement above. The second one shows it, where no folder is read-only and `abort` is left out: of the two ways in which a run can die by itself, the NULL pointer needs a deletion by the user, and the assertion a folder that is walked before it is in sync. `CreateFindsItsFolder` says that the latter never happens without read-only folders, whoever does what: the folders of a new name are new as well or in sync, by the scan and by the listing (`NewInNew`), and the children of a folder whose creation failed are not walked (`FolderKept`). That is `FoldersFirst`. With read-only folders it does happen, see `FolderIsSync` above. `QuietInv` and `FolderInv` were checked by TLC with two and three changes before they were proved.

The attempt at `CreatesMissing` showed that the model had a file appear in a folder that is not on the server: `ServerMoves` did not ask whether the folder has an ID.

### ListingProofs

For any names, contents, rules, numbers of changes and faults, and pages of any size. The inductive `Inv` is the conjunction of what the server holds (ids are given once: `ServerInv`), what is on the disk (`DiskInv`) and in memory (`MemoryInv`), and of four relations:

- `IgnoreInv`: a name that is ignored has no resource and its record is as it was. From it `IgnoredIsUntouched`.
- `PagesInv`: a file that is there from the beginning of a listing is still to be listed, or its name has a file; after the last page nothing is to be listed. From it, with `HereInv` (what is to be sent is on the disk), `ActsOnlyOnMissing`: a name is taken for deleted or new only if none of its files was there all the time.
- `ListedInv`: a resource stands for the file that was listed last, with its content as long as nobody makes another version.
- `KnownInv`: whatever checksum a record or a resource that may be trashed has, that content was on both sides once. From it `TrashesWhatWasKnown`.

`KnownInv` could not be proved at first of all names listed once: after a download the record has the checksum of the listing whatever came. TLC found the behaviour with one name and three changes by others, one more than `listing` allows; it is the disagreement with `Syncer.cc:43` above, and `mixed` is the history variable that leaves these names out.

`IndexIsRight` and `EntriesAreFound` are `IndexAgrees` and `EntriesFound` of the run, from the invariants of `ResourceTreeProofs`; the second one asks that the value for no path is none of the paths (`Empty`).
`RulesAreMeant` is `RulesMeant` for lines and paths of any length: where all lines are `AsDocumented`, a path is ignored just if an excluded line names it, in the sense of `Means`, and no included line keeps it; and what such an included line names is reached, whatever other lines there are.
The two sides are of different kinds. The expression deals the names out to all the parts, any number to each "\*\*"; the README speaks of single names, and of included lines about paths that may be longer than the one that is looked at. So the proof counts: between the first part that stands for one name and the last, each takes the next name (`MatchIsMeant`, by the first part that does not, `FirstOf`), and a way to deal them out is written down for the other direction (`MeantIsMatched`). That an included pattern matches a folder on the way to what it names just if some longer path is named needs that path: a name for every part left (`KeptIsIncluded`, `IncludedIsKept`). The slash at the beginning of an excluded line says nothing (`JoinedMeans`).

`DatesAreMeant` is `DatesMeant` for any seconds and fractions of any length. `DatesInv` is small; what takes the effort is arithmetic: how `atoi` goes through the digits (`NumberUnfolds`), what it makes of three of them, that six zeros more make nanoseconds of these (`ThreeOfNine`), and that nanoseconds below a second never outweigh one (`Nanoseconds`).

### ResourceTreeProofs

`IndexCorrect`: for any tree, listing and order, the index finds under an address the resource that has it. Assumed is `Addressed`: the address of the root and the absence of one are no addresses of entries. `ReInsert`, which takes the resource from its old address first, is the case that needs care.

`EntriesAreFound`: when the listing has ended, every entry has the resource at its path, and one that may not be there has none, for folders of any depth, whatever order the entries come in and however often they are repeated. Assumed are `Addressed`, `Trees` (two entries have two addresses; from every entry the way up ends, at the root or at a folder that is not listed; the value for no path is no path of names) and `Scanned` (the scan starts at the root, which is a folder).
The path of an entry is found by going up from folder to folder, and so are the conditions for its being at it (`Own`: no other entry has its path, nor that of a folder above; `Open`: no rule and no file is in the way). `Recursion` says that a function defined in this way exists and is what its definition says; it is proved from the way up having an end, since the prover has no induction. From it the three unfold (`PathUnfolds`, `OwnUnfolds`, `OpenUnfolds`).
The invariant `FoundInv` is in parts:

- `KindInv`, `PlaceInv`: what has an address is the place of a resource, and the address of an entry leads to its path or nowhere;
- `OwnInv`: an entry with a path of its own is placed only where it may be, which is where `Open` says at the end: not ignored, in a folder that is placed;
- `WaitInv`: such an entry is still to be listed, waits, is placed, or is passed over for good (`Passed`), so none is lost on the way from one list to the other;
- `PassInv`: in a pass over the waiting entries that has resolved nothing so far, what was tried still waits, and so does all that is left at the end. Then the topmost entry that is open and not placed would be one that waits; but the folder above it is placed, and what waits has none.

### TransportProofs and UploadBodyProofs

For any number of requests and attempts, any length of bodies and errors:

- `TypeCorrect`: among other things, the interval is always one of nine, and what is kept of an error is bounded by the cap.
- `DestinationStaysClean`, from the inductive `DestInv`: every attempt starts with an empty destination, which gets good answers, and of errors only what is beyond the cap.
- `BodyIsWhole`: whenever the server carries a request out, it got the whole body from its beginning.
- `AgentsImplementCall`: every step of `Transport` is one of `RemoteCall` or leaves it alone. It rests on `CallInv`: a good answer follows an execution, and after one the version that If-Match names is no longer current.
- `AnswersAreOwn`, for any number of calls and tasks of macOS: a call that no timeout and no other task came across returns with its own answer and nothing else, or throws because the server refused it. The inductive invariant has what a task has been through (`TasksInv`), that calls to come have nothing yet and that the last task belongs to the call being made (`CallsInv`), and that the members of the agent have what this task has brought (`OwnInv`). `MacAnswersAreOwn` is the same of the executions of `MCTransport`.

`BodyIsAnnounced` of `UploadBodyProofs`, for a header and a closing line of any positive length (`Sane`), files of any size, any changes of the file and any order of reads and seeks: the types, every byte in its place, the length that was announced, and no more per call than was asked for unless the file was cut off.
`BodyInv` has what a change can do to the file since its size was fixed (`FileInv`), that the position is one of the part that is current and that this part stands where it says (`PlaceInv`), and that what was given since the last Seek reaches to the position and fits the parts byte by byte (`OutInv`). `ByteAt` says what the whole body has at a position, and the lemmas about it compare one read of one part with that. `BodiesAreAnnounced` is the same of the executions of `MCTransport`.

### SessionProofs

For any number of runs, tokens and crashes: `TypeCorrect`, `PairsStayTogether` (a token is never beside the id of another application), and `LastTokenIsKept`, from the inductive `SessionInv`: the record of a run is the last saved token as long as it is the one the run has seen, and a token not yet saved is nobody else's.

### SyncScriptProofs

For any number of callers, of calls of each, and of seconds:

- `LockIsHeld`: the types, and every call between its lock and its unlock holds the lock of the file it has open. The inductive invariant is the two together. That a new lock file always finds an inode is a counting argument (`FreshInodeExists`).
- `OverlapNeedsRemoval`: from it, two calls synchronise at the same time only if their lock files differ and one of them has lost its name.
- `ListenerCallsTheScript`: every step of `Listener` is a step of `SyncScript` or leaves it alone, so the two theorems hold with the listener (`ListenerOverlapNeedsRemoval`).
- `HeardChangesAreSynced`: when all calls have ended, no change that was heard is left, unless one of the gaps in `Misses` was met. What was heard is a promise that somebody passes on (`PromiseInv`): the listener has been woken, its call is on its way to the lock, or a call that holds the lock has yet to look at the directory or at the time stamp, which by then is later than the start of its run (`Looks`). That no stamp lies in the future (`StampsPast`) makes the comparison of seconds decide.

### What stays with TLC

- Liveness (`Converges`, `EveryCallEnds`, `RequestsEnd`): out of reach of this prover.
- `FolderIsSync` does not hold where a folder is read-only, and `DeleteIndex` may go through NULL anywhere, see above; that the first one holds otherwise is `CreateFindsItsFolder`.
- `LocalKept` does not hold at all, see the run that shows it.
- `ReadsWhatIsMeant` and `NodesCounted`: the definitions of `Json` and `XmlTree` recurse over data, in the steps themselves (`Visit`, `Release`), not only in the property.

## What is not modelled

- A user who edits the file while a download is being written to it, and a `stat()` that sees one version while the checksum is taken of another: scan and checksum are one step. A file that is cut off while `Crypt::MD5` has it mapped ends the process.
- A name that turns from a file into a folder. Names with a backslash or that differ in their Unicode form.
- `--new-rev`, and `no-delete-remote`, which only a configuration file can set.
- The change feed (`Drive::ReadChanges`), which nothing calls; `ResourceTree::Erase` and the copy of a tree, which nobody uses.
- An empty checksum is the same as none.
- In `FileSync` read-only is a property of the file, in `TreeSync` of the folder, in `Listing` nothing is.
- Numbers and escapes of strings in JSON; copies, `Swap` and printing of XML.
- The lock file that the listener itself opens, which nobody locks; the arguments of, and signals to, the script.
- The limits on bandwidth, which pace a transfer. Of dates the calendar, `DateTime::Now` and `Format`.
- Logging, progress bars, signal handler and back traces: output.

## Plan

Done, in this order: `Resource`, `FileSync` and their first proofs, `TreeSync`, `SyncScript` and its proofs; `Transport` with `RemoteCall`, `UploadBody`, `Session`, `Listing` with `IgnoreFile` and `ResourceTree`, `Json`, `XmlTree`, `Listener`, `NSURLSessionAgent`; the proofs of `Transport`, `Session`, `ResourceTree`, `NSURLSessionAgent` and `Listener`, and of the types of `TreeSync`; `DateTime`; the action properties of `FileSync`, the promise of the listener, the body of an upload, `Listing` and the ignore rules; `CreatesOnlyMissing`, `TrashesNoLocalWork` and `RemoteKept` for every tree; `EntriesFound` for every listing, `TwoCopies` with its refinement, the dates.

What is left: the cascade of `XmlTree!Release` and the reference values of `Json` would have to be written without recursion before `NodesCounted` and `ReadsWhatIsMeant` could be proved.
