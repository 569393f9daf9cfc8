# Sendan: a TLA+ verification project

Sendan is a file-sharing server. A client encrypts a file, uploads the
ciphertext in chunks over the tus protocol, and hands out a link; the server
keeps a row per upload in a database and one blob per upload in a blob store,
serves downloads under an allowance and a deadline, and removes what is due.

The modules follow the parts of the system: the life of an upload and what it
promises, the object store, the compatibility endpoints, a transfer from one
command line client to another, encryption at rest and its master key, the life
of the server process, the rate limiter, and the tool that prunes the container
registry. `PROJECT.json` lists the runs, the lines of code each definition
stands for, the hazards the properties are for, and the theorems.

To check a run: `tlc -config <run>.cfg <module>`. To check the proofs:
`tlapm <module>_proofs.tla`.

## 1. Inventory

| Component | State | Operations | What makes it correct |
|---|---|---|---|
| Metadata store (`internal/store`) | the `uploads` table, the write-ahead log | Create, Get, GetPending, Complete, RecordServed, ListDead, Delete, Checkpoint | a row is reachable only when complete, unexpired and unexhausted; counts are not lost; a deleted row does not survive in the log |
| Upload service, tus data store (`internal/upload`) | none of its own: rows, blobs, attempts | NewUpload, GetUpload, WriteChunk, FinishUpload, Revoke, Delete, Reap | what is published is whole and stays as it is; what is revoked is gone; nothing is removed without cause; everything due is removed |
| Blob store, file system (`internal/blob/fs.go`, `spool.go`) | a partial and a final name per upload | writeChunk, Length, Finish, Open, Delete, Put | offsets are honoured; Finish publishes all or nothing |
| Blob store, object store (`s3.go`, `s3multipart.go`) | multipart uploads, a tail object | the same | no byte is counted twice or lost when a chunk is cut off |
| At-rest encryption (`shred.go`) | a key per row | a key stream entered at any offset | reading at an offset undoes writing at it |
| Downloads (`upload/auth.go`, `metadata.go`, `httpapi/content.go`) | descriptor, bytes sent | authenticate, open, serve, record | a download reads one whole file; the allowance is overshot by no more than one answer for each download in flight |
| Rate limiter (`internal/ratelimit`, `httpapi/ratelimit.go`) | a bucket per key | AllowN, Retry, Forget, Sweep | every window of time is bounded; the advertised wait is right; memory is bounded |
| Server process (`cmd/sendan/main.go`) | the deferred calls, three goroutines, a context, requests and hijacked connections | startup, signal, shutdown | the store outlives what uses it; the process ends when told to, and when it fails |
| Master key and rotation (`store/masterkey.go`, `rekey.go`) | raw or wrapped keys in the rows | wrap, unwrap, rekey | whatever was interrupted, one key opens every row |
| Compatibility endpoints (`internal/compat`, `store/compat.go`) | challenge nonce, key, row, files | challenge, upload over a socket, download, password, abandon | an authenticator works once; a password takes effect; what is given up is removed |
| Content format (`internal/crypto`, `web/src/crypto`) | record counter | seal, open | truncation and reordering are noticed |
| Clients (`internal/client`, `cmd/sendan-cli`, `web/src`) | encoder, temporary file | send, save, revoke | a printed link opens; a saved file is the whole file |
| Registry pruning (`tools/registry-prune`) and the workflows that publish (`.github/workflows`) | the pages it read, its plan; what a build has pushed | list, plan, delete; push, cancel | what survives can be pulled; nothing is lost track of |
| Configuration, client address, release verification, logging, migrations | none, or read once at startup | | |

How they interact. A tus request runs tusd's handler, which calls the data store
(`tusstore.go`); that makes separate calls on the database and the blob store,
with no lock across two of them and no tusd Locker. A download reads the row,
charges the password limiter, opens the blob and, after the transfer, records
what it sent. A revocation and the reaper's goroutine both run `Service.Delete`:
row, attempts, final name, partial, and then a checkpoint of the log. `run()`
starts the reaper and the HTTP server and takes everything down through deferred
calls.

What is hard: requests of one upload that overlap; a deletion that runs under a
write or a download; a statement that fails, or a crash, between two of the
steps above; decisions taken from a row or a list that is stale; the order of
deferred calls; clock readings that reach a mutex out of order; a source that
changes while it is sent; a stream cut at a record boundary; a rotation that
dies after its commit; a hijacked connection that a shutdown does not know of; a
registry that is published to while it is listed and pruned. The list, with
lines, is under "hazards" in `PROJECT.json`.

## 2. Modules

### UploadRow

The row as a value, and the retention policy. `Expired`, `Exhausted`,
`Complete` and `Live` are the methods of `store.Upload` evaluated on each read;
`Dead` is the WHERE clause of ListDead; `Served` the UPDATE of RecordServed, one
statement whose right-hand sides read the old row; `NewRow`, `ResolveExpiry`,
`ExpiryRefused`, `EnsureBounded` and `Accepted` what `newRow` and the policy do.
Ciphertext columns, hashes and keys are left out. Time is a natural number; zero
is SQL's NULL.

### UploadLifecycle

One server with SQLite and the file-system backend. The variables are the table
(`rows`), the deleted rows still in the log (`wal`), the two names of each upload
(`partial`, `final`) as references to inodes (`disk`), the password limiter's
buckets (`attempts`), and one record per tus request (`req`), deletion (`del`)
and download (`dl`). Every SQL statement and every system call that changes
something is one step:

| Action | Code |
|---|---|
| NewUpload | `TusStore.NewUpload`: policy, row; a body in the POST goes on with LoadKey |
| GetUpload, Length | `TusStore.GetUpload`, then tusd's comparison of offset and length |
| OpenPartial, StatPartial, CopyBlock, EndChunk | `spool.writeChunk`: open or create, check the length, `io.Copy` |
| FinishBlob, CompleteRow | `FinishUpload`: rename, then the row |
| RevokeGet, RevokeReply | `Service.Revoke` and its handler |
| ReapList, ReapNext, ReapEnd | `Service.Reap`: list a batch, delete each, checkpoint if anything was removed |
| DeleteRow, ForgetAttempts, RemoveFinal, RemovePartial, Checkpoint | `Service.Delete`, `FS.Delete`, `Store.Checkpoint` |
| Authenticate, Allow, ForgetOnSuccess, OpenContent, Serve, RecordServed | `Service.Content`, `authenticated`, `handleContent` |
| Tick, Crash | the clock; the process dies and starts again |

The body of an upload is counted in blocks, and a block is known by the request
that wrote it, so overwriting is visible. An inode exists as long as a name or a
descriptor refers to it. `Fault` lets a statement or a system call that would
change something fail, MaxFaults times, and the caller takes its error path; a
read that fails ends the request with nothing changed, which is the same as the
request not having come. Identifiers are never drawn twice: clients choose
sixteen random bytes. A lost network connection is EndChunk (before the end of
the body) or Serve (with fewer blocks than the file has).

What an answer is counted for is what passes through `countingWriter`, which is
not only content: a request for several ranges is answered in parts with headers
of their own, and a range that cannot be satisfied with a text. `Response` is the
most that is counted for one answer, the file and `Overhead` beside it. The
directory of a shard is shared by uploads: removing one file may prune it between
another upload's MkdirAll and its OpenFile, so OpenPartial may fail without a
fault as soon as there are two uploads.

Of tusd, a library, only the order of calls on the data store is used. It is given
no Locker, so the actions let two PATCH requests of one upload overlap; `Serial`
is a discipline of the client (`SendsAlone`: no write request before the last one
for the same upload has ended). The passing runs assume it and so do the theorems
that say so; what happens without it is under Disagreements.

The log is modelled as the set of deleted rows it holds. SQLite also checkpoints
by itself once the log is long enough; what `LogRetired` shows does not depend
on it, and what is said below about keys in the log is about the time before it
happens.

### UploadPromise, UploadRefinement

`UploadPromise` is what a reader of the documentation expects of an upload and
nothing else: an identifier is used once (absent, receiving, available, gone); a
body appears in one step with the length that was declared and does not change
while it is offered; whoever was let in while it was available reads that body
or is turned away; and the owner is told that it is gone (`Confirm`) only when it
is and nobody who has not begun can begin to read it any more.

`UploadRefinement` gives the mapping. The row decides the state; the body is what
the final name refers to, once the row is complete; a reader has what its
descriptor refers to, and before it has one, what the final name still refers
to, so that unlinking the file turns it away. `KeepsPromise` says that
UploadLifecycle implements UploadPromise under it.

### S3Multipart

The object-store backend for one upload: the multipart uploads in progress
(`mp`), the tail object, the finished object, the row, one request of the client
at a time and one deletion. Each call on the object store is a step:
ListUploads, ListParts and StatTail are `state`; NewMultipart, ReadTail, PutPart
and PutTail are `writeChunk`; AbortEmpty, PutEmpty, ReadLast, PutLast,
CompleteMultipart and RemoveTail are `finish`; RemoveObject, ListAborts,
AbortOne and DiscardTail are `S3.Delete`. A byte is known by its position in the
file, so that bytes stored twice or out of place show, and `acked` remembers the
bytes of every chunk that was answered with success. A call may fail with or
without having taken effect. The client goes on from the offset it was told, or
asks for it after an error.

### Compat

One upload of the third-party protocol from its header to its removal. The
variables are the row, its companion in `compat_uploads` (`cred`), the two
files as lengths, the socket (`up`), two deleters (abandon, which the socket's
handler calls, and the reaper), and one record per request (`q`). Again every
statement and every call on the blob store is a step:

| Action | Code |
|---|---|
| CreateCompat, SendLink, ReceiveFrame, EndOfFile, FinishBlob, FinishCompat | `handleUpload`, `runUpload`, `receive` |
| GiveUp, DeleteRow, DeleteFinal, DeletePartial | `abandon`, `Service.Delete` |
| ReapList, Checkpoint | `Service.Reap` |
| Begin, ReadCompat, RotateCompatNonce, Get | a request arrives; `authenticate`; `metadata.Get` |
| SetCompatPassword | `handlePassword` |
| OpenContent, Serve, RecordServed | `handleDownload` |

An authenticator is the pair of a key and a nonce, and nonces are numbered as
they are drawn. A client presents any key with any nonce it was offered. The
lifetime goes through `Duration`, the multiplication into nanoseconds in Width
bits, before the policy of UploadRow sees it; the deadline is kept in whole
seconds, as the table does.

### ContentStream, Transfer

`ContentStream` has the content encoding as values: records of MaxPlain units
and one of overhead, the declared length, what the encoder has written, and what
opens under a sequence number. Encryption is ideal: a slice opens as exactly the
record that was sealed at that place.

`Transfer` is one file from `sendan up` to `sendan down`. The sender measures its
source (or spools a pipe), declares, encodes, sends and prints the link; the
source may yield another length than it was measured with. Anything may become
of the stored stream: units removed, repeated, moved, damaged or added, MaxDamages
times. The receiver describes, opens, decodes record by record into a temporary
file and renames it. The destination may fail to open (no safe name, no temporary
file), closing and renaming may fail, and so may the removal of the temporary file
on each path that ends in one, since its error is ignored.
Both sides may be interrupted; the receiver may be killed.
The instance is what the client sees of it.

### KeyStream, AtRest

`KeyStream` is the counter arithmetic of `shred.go`: `incrementCounter` octet by
octet with its carry, `streamAt` for an offset, `NextBlock` for what the cipher
does by itself from there. Octet, Octets and BlockSize are parameters so that
carries and the wrap of the whole counter happen within a short blob.

`AtRest` puts it to work: uploads are created under a fresh key, which is wrapped
if the server has a master key; chunks are appended through a stream entered at
their offset; a reader seeks and reads. The operator stops the server, rotates
from one key to another (either may be missing) and starts it with a key. The
rotation works row by row inside a transaction and may die before the commit or
after it, before its report. `unreported` and `strayed` remember the case the
documentation leaves to the operator: a rotation that died after its commit has
printed nothing, and who starts the server with the old key again creates rows
only that key opens.

### RegistryPrune

The registry as a set of digests, with tags and references per index; the two
workflows that publish to it; and the job. A build pushes its images one by one
(PushImage) and then its index (PushIndex), which takes the edge tag from the build
before it, and all tags from an earlier build of the same commit or release (`of`)
when it is a re-run; or it is cancelled in between (CancelBuild). The registry is
taken to accept an index without looking whether its images are still there.
Images are shared between builds when their digests agree.

The job is Start, with the `-keep` of the weekly run or that of a dispatch;
ListPage, newest first and as many versions as a page happens to have, with the
tags as they are when the page is read; Plan (`planPrune`); Delete, one version at
a time; and Fail. A push during the listing moves what is not yet read one place
back, so nothing is missed, but a build that is read twice takes two of the places
to be kept: ListPage may lower `keep` then. Doomed indexes are taken newest first
(`Descending`); the images of one index in the order of its manifest, which is
some order of the set (`SetToSeq`). `loose` are images that came without an index,
`least` the fewest builds a run was to keep, `raced` says that a build was under
way during a run.

### ServerProcess

`run()`: a program counter, the stack of deferred calls, the context, the state
of the store, of the reaper's goroutine and of the serving goroutine, the
channel between them, and the numbers of requests and of hijacked connections. A
compatibility upload begins as a request and is hijacked by `websocket.Accept`
(SocketAccepted); `Shutdown` waits for requests (Grace) and neither waits for nor
closes what was hijacked. Configuration, database and blob store may each fail; a
signal may come at any time, before NotifyContext and after `stop` included.

### RateLimit

The map of buckets. A caller reads the clock and then takes the mutex, as two
steps, and the mutex is taken in any order; what is under it is one step. A
reading that comes late sets the bucket back, by `Rewind`. Tokens are integers
(`Token` fractions to an event), so the arithmetic of `float64` seconds is exact
here; the truncation of a wait to a duration and its rounding to seconds are
modelled. `since`, `admitted` and `rewound` observe an arbitrary window of time:
`OpenWindow` may begin one at any moment, and Forget and Sweep, after which a
key has a full bucket, begin one of their own. Nothing ties Idle to the time a
bucket takes to fill, in the code or here.

### MC modules and proofs

`MCUploadLifecycle`, `MCRateLimit`, `MCCompat` and `MCAtRest` give the sets TLC
needs and the symmetry. `UploadLifecycle_proofs` (which has the refinement too),
`ServerProcess_proofs`, `RateLimit_proofs`, `Compat_proofs`,
`S3Multipart_proofs`, `Transfer_proofs`, `AtRest_proofs` and
`RegistryPrune_proofs` hold the theorems, each next to the lemmas it rests on.
The inductive invariants are at the end of the module they are about. Names that
end in a word such as `Any`, `Unchecked`, `Anyway` or `Only`, marked "Variant"
in a comment, are plausible mistakes in the code: each is used to show that a
property fails when the code is changed that way, and no specification contains
them.

## 3. Runs

### Passing

| Run | States | Question |
|---|---|---|
| Upload_safety | 760,944 | One upload; two write requests, one after the other, two downloads, a revocation and the reaper; one failure and one crash anywhere. `PublishedWhole`: a completed row has its whole blob. `ReaderSeesWhole`: who was let in reads the whole file. `RevokedGone`: after a 204 there is neither row nor file, for good. `RemovedForCause`: a row goes because its owner said so or because it is due when it goes, although the reaper works from a list; the one exception is an upload that was completed after it was listed as abandoned (see Disagreements). `LogRetired`: as long as nothing fails, no deleted row is in the log once nobody is deleting. `OvershootBounded`: each reader overshoots the allowance by at most one answer, whatever ranges it asks for. `KeepsPromise`: all of it together implements UploadPromise. |
| Upload_removal | 823,759 | Two uploads and the reaper, which takes one in a pass; one failure and one crash. `DeadRemoved`: what is due is removed in the end, or its client completes it after all. |
| Process_exit | 850 | Every path through startup and shutdown. `StoreOutlivesReaper`: the store is open while the reaper runs. `HandlersKeepStore`: it is open while an ordinary request runs, unless the process ends with an error that says otherwise. `SignalExits`: a signal ends the process. |
| Limit_exact | 1,605,839 | `Bounded`: in every window no more than the burst, the rate for its length and the rate for the time by which readings came late, with Forget and Sweep at any time: what is credited twice is that time and nothing else. `RetryHonest`: the Retry-After of a refusal is enough (to within the unit a duration is truncated to) and not a second too much. |
| S3_chunks | 230,048 | A file sent in chunks of every size, one failing call, one crash, one deletion. `UndisturbedWhole`: without failures the object is the file. `AcknowledgedKept`: whatever fails, every byte of a chunk that was answered with success stays stored until the object exists (perhaps twice: Find_s3_stale_tail). `ReportedUnlessFailed`: writeChunk reports what it stored, after crashes too. `DeleteClears`: a deletion with no request under way leaves nothing. |
| Compat_upload | 145,405 | One socket, one request, the reaper; one failure and one crash. `FinishedWhole`: a complete row has the size its frames added up to. `NoLeftovers`: an upload that is given up or reaped while its socket sends leaves no file, as long as nothing fails. `DeadlineWithinPolicy`: a lifetime that wraps stays within the policy. `UnfinishedEnds`: an unfinished upload is finished or removed. |
| Compat_requests | 2,378,174 | Two requests of every kind, one failure. `AuthenticatorOnce`: a request that begins after a nonce authenticated another is not let in with it. `PasswordTakesEffect`: a request that begins after a password was set is not let in by the link's key, though a rotation that read the old row was under way. `LimitHolds`: as long as clients stay for their answer, at most a file per request beyond the limit. |
| Transfer_whole | 230,859 | A file or a pipe, sent and received, interrupted and damaged. `DeclaredExactly`: what is declared is what the encoder writes. `LinkOpens`: a printed link opens. `PrefixOnly`: what a receiver writes is a prefix of the file. `SavedWhole`: the destination is as it was or the whole file. |
| AtRest_keys | 862,830 | Two uploads, two master keys, two rotations. `ReadsWhatWasWritten`: any read at any offset, after any chunks. `KeyStreamOnce`: no unit of a key stream covers two places. `TableReadable`: one key opens every row, unless an unreported rotation was followed by a start with the old key. |
| Prune_registry | 1,307,794 | Three builds, two images, runs that keep one build or two, one failure. `SurvivorsWhole`: what every run so far was to leave alone can be pulled, unless a build was under way during a run. `NoOrphans`: between runs no image is left that nothing refers to, but for those of builds that never pushed their index. `ReleasesStay`: a release is never deleted, although pages go stale and tags move. `OldRemoved`: a run that is not cut off leaves nothing that is due, although runs before it were cut off and left indexes without their images, unless a build was under way during a run. |

Bounds. One upload is enough for the safety of the life cycle, since nothing in
the code relates two uploads except the reaper's batch, the log and the
directory of a shard. Upload_removal has two uploads for that, with a batch of
one, so that a pass leaves something due behind; a lifetime of one unit, or
none, beside the two that an upload may take, so that the reasons to remove fall
at different times; and a failure and a crash in the middle of a pass. Two
blocks make a body that can be cut in the middle and resumed; a size of zero is
the upload that is finished at once. Times up to two pass every deadline while a
request is open. Two readers overlap on an allowance of one, which is what
overshooting needs. One failure and one crash may fall between any two steps;
two failures in one history are not
explored by the runs (the theorems do not bound them). In RateLimit a burst of two events, a rate that divides neither
an event nor a second, and an idle time shorter than a bucket takes to fill let
buckets fill, empty, be set back and be swept within five units, and let every
rounding happen; two callers are enough for readings to change places. In
S3Multipart parts of three bytes and files of six and seven have tails of every
length, files that end on a boundary and files that do not, and the empty file.
In Compat_upload two blocks make an upload that can be cut in the middle, and
durations of four bits have lifetimes that wrap to "never" and to one the policy
accepts (`MCTimeLimits`). Compat_requests has two requests at once instead, on
an upload of one block; three nonces are one to spend, one to be offered
meanwhile and one after. In Transfer records of two units and lengths up to five
give empty, short and exactly full last records, and one damage of every kind.
In AtRest octets of two values and counters of two octets wrap within five
bytes; one of the two keys starts with the marker of a wrapped key. In
RegistryPrune three builds are enough for one to be kept or a release, one to go
and one to be published meanwhile, and two images for a listing of several pages
and for builds that share some of what they refer to. Deadlock is checked in AtRest_keys and not
elsewhere, because the other systems may stop: the clock and the identifiers are
bounded, an upload ends, and the process exits.

`TypeOK` of UploadLifecycle, of Compat and of Transfer is not listed with a run:
the first two are proved (`TypeCorrect`), the third is the first conjunct of the
invariant that Transfer_proofs shows to be inductive.

Fairness. A handler that has begun runs to its end (goroutines are scheduled,
transfers have an end or a timeout), the reaper's ticker keeps firing, and a
mutex is granted to those waiting: weak fairness for each request's and the
reaper's steps. In Compat time passes, the reaper runs and a removal that has
begun goes on; neither the socket nor a request is obliged to. In
ServerProcess, `run()`, the serving goroutine's return after its listener was
closed and the end of a sweep are weakly fair; the reaper's exit is strongly
fair because Go's `select` picks among ready cases at random, so a done context
is not passed over for ever. No fairness is assumed of clients, of signals or of
failures, nor, except in Compat, of time.

### Disagreements

What a document, a test or a comment says and TLC refutes. Two of them are runs:

| Run | What the code does |
|---|---|
| Find_failure_hangs | When the listener fails, `run()` waits for the reaper before the deferred call that stops it: the process hangs until a signal. |
| Find_s3_stale_tail | A crash after a part was uploaded and before the tail it begins with was replaced leaves those bytes stored, and counted, twice. |

The others are stated in the modules and refuted by adding one line to the cfg of
a passing run, or in one case changing one too:

| Change | What the code does |
|---|---|
| Upload_safety: `Serial = FALSE` and `PROPERTY ContentStable` | tusd is given no Locker, so two PATCH requests of one upload may overlap: one that has opened the partial goes on writing through its descriptor after the other has completed the upload (design.md:376: "A completed upload cannot be written to"). |
| Upload_safety: `INVARIANT ListedUnreachable` | An upload that was listed as abandoned and is completed before the reaper gets to it can be downloaded, and is deleted all the same (upload.go:230: "an upload the reaper has not reached yet is already unreachable"). |
| Upload_safety: `INVARIANT OrphanDisclosesNothing` | A crash between the row and the blob leaves the blob, and its key in the log (upload.go:205). |
| Upload_safety: `PROPERTY RevokeIdempotent` | The owner's second DELETE is answered 403, not 204 (httpapi/revoke.go:26). |
| Process_exit: `INVARIANT TransfersKeepStore` | A compatibility upload runs on a hijacked connection: `Shutdown` returns without waiting for it, and the store is closed under it with no error (main.go:254: "In-flight transfers are given time to finish"). |
| Limit_exact: `INVARIANT WithinRate` | Of two readings of the clock the later may reach the mutex first; the other then sets the bucket back, and the time between them is credited twice (ratelimit.go:45: "the sustained number of permitted events per second"). |
| S3_chunks: `INVARIANT ReportedIsStored` | When a call on the object store fails, `writeChunk` reports bytes it has read and not stored (blob.go:53). |
| Compat_upload: `INVARIANT ServedCounted` | A client that leaves in the middle of a download cancels the context the accounting runs under, and nothing is counted (compat/download.go:106: "Whatever arrived still counts, so the accounting below runs either way"). The native endpoint detaches it (content.go:98). |
| Compat_upload: `PROPERTY LifetimeHonoured` | Seconds are multiplied into an int64 of nanoseconds; one that wraps may be accepted as another lifetime (upload.go:139: "rejected rather than silently clamped"). The same holds of tusstore.go:164. |
| Transfer_whole: `INVARIANT InterruptLeavesNothing` | An interrupted sender leaves its unfinished upload to the reaper (sendan-cli/main.go:54: "rather than leave a half-written upload the instance will reap later"). |
| Prune_registry: `INVARIANT SharedKept` | A build that pushes its index between the listing and the deletions loses an image it shares with a doomed one (docs/workflows/registry-prune.md:43: "A child that a surviving index also references is kept"). |
| Prune_registry: `INVARIANT NothingBroken` | Images go before their index, so a run that is cut off leaves exactly the index without its children the comment warns of (registry-prune/main.go:197). |

Seen in the models, without a property of their own:

- three overlapping PATCH requests can publish a blob that is not whole (the same
  missing Locker); a deletion that fails after the row leaves a file nobody looks
  for, and so does one that overlaps a native write request; an upload fails when
  the removal of another prunes the directory they share at the wrong moment;
- a download of many small ranges is counted for more than the file is long
  (`Overhead`), since the headers of the parts pass through the counter too;
- a checkpoint that fails is not tried again before the next deletion, and
  `abandon` does not checkpoint at all, so the key of an abandoned compatibility
  upload stays in the log until then;
- a password attempt that overlaps a deletion makes the record of attempts again
  (`Allow` after `ForgetAttempts`); nothing outside tests calls Sweep, and nothing
  would keep it from removing a bucket that is not full yet;
- a lifetime counts from creation, so an upload slower than its lifetime is
  complete and was never available;
- one authenticator may serve two requests that overlap (both read the nonce
  before either replaces it), which is why `AuthenticatorOnce` is about requests
  that begin afterwards; a download token handed out before a password was set
  stays valid;
- a rotation that dies after its commit has reported nothing (`unreported`); and
  repeating a rotation from A to B fails rather than being the no-op of
  rekey.go:23, since B's rows do not open under A;
- a source that grows while it is sent may get a link to an upload that does not
  decode (`Grew`); an interrupt is not noticed while a pipe is spooled; a killed
  receiver leaves its temporary file, and so does one that cannot remove it;
- a re-run of a commit takes the tags of the build before it, whose index is then
  without a tag and never pruned; nor are the images of a build that was cancelled
  before its index (`loose`); a run with a smaller `-keep` that is cut off leaves
  an index broken that a weekly run means to keep (hence `least`);
- compatibility mode and a master key are refused together (`RegisterCompat`).

## 4. Proofs

All theorems hold for every value of the constants that satisfies the named
assumptions: any number of uploads, requests, failures, crashes, any policy, any
time bound.

| Module | Theorem | Statement | From |
|---|---|---|---|
| UploadLifecycle | `TypeCorrect` | `Spec => []TypeOK` | PolicyAssumption, LifecycleAssumption |
| | `RemovalCause` | `Spec => RemovedForCause` | `CauseInv` |
| | `LogCleared` | `Spec => []LogRetired` | LifecycleAssumption, `LogInv` |
| | `WholePublished`, `WholeServed`, `GoneForGood` | `[]PublishedWhole`, `[]ReaderSeesWhole`, `[]RevokedGone` | `Serial`, `IInv` |
| | `OvershootLimited` | `Spec => []OvershootBounded` | `Serial`, ReadersAssumption, `AllowanceInv` |
| UploadRefinement | `PromiseKept` | `Spec => KeepsPromise` | `Serial`, `IInv` |
| ServerProcess | `ReaperHasStore`, `RequestsHaveStore` | `[]StoreOutlivesReaper`, `[]HandlersKeepStore` | ProcessAssumption, `ProcessInv` |
| RateLimit | `WindowBounded` | `Spec => []Bounded` | LimitAssumption, `LimitInv` |
| | `WaitsHonest` | `Spec => RetryHonest` | LimitAssumption |
| Compat | `TypeCorrect` | `Spec => []TypeOK` | CompatAssumption, PolicyAssumption, PowerAssumption |
| | `AuthenticatorsOnce`, `PasswordsTakeEffect` | `[]AuthenticatorOnce`, `[]PasswordTakesEffect` | `NonceInv` |
| | `FinishedUploadsWhole`, `NothingLeftOver` | `[]FinishedWhole`, `[]NoLeftovers` | `FileInv` |
| | `DeadlinesWithinPolicy` | `[]DeadlineWithinPolicy` | itself and `TypeInv` |
| | `LimitKept` | `Spec => []LimitHolds` | ClientsAssumption, `LimitInv` |
| S3Multipart | `TypeCorrect`, `UndisturbedUploadsWhole`, `AcknowledgedBytesKept`, `ReportsTrue`, `DeletionClears` | `[]TypeOK`, `[]UndisturbedWhole`, `[]AcknowledgedKept`, `[]ReportedUnlessFailed`, `[]DeleteClears` | MultipartAssumption, `Inv` |
| Transfer | `PrefixWritten`, `DestinationWhole` | `[]PrefixOnly`, `[]SavedWhole` | RecordAssumption, TransferAssumption, `Inv` |
| | `LengthDeclared` | `[]DeclaredExactly` | the same and `NotEmpty` |
| | `LinksOpen` | `[]LinkOpens` | the same and `StreamInv` |
| AtRest | `TypeCorrect`, `RotationsSafe` | `[]TypeOK`, `[]TableReadable` | AtRestAssumption, `Inv` |
| | `ReadsTrue`, `StreamNeverReused` | `[]ReadsWhatWasWritten`, `[]KeyStreamOnce` | CounterAssumption, PowerAssumption, `StreamInv` |
| RegistryPrune | `TypeCorrect`, `SurvivorsPullable`, `NothingOrphaned` | `[]TypeOK`, `[]SurvivorsWhole`, `[]NoOrphans` | PruneAssumption, `Inv` |
| | `ReleasesKept` | `Spec => ReleasesStay` | the same and `ReleasesSpared` |
| | `OldBuildsRemoved` | `Spec => OldRemoved` | the same as the first and `PlanComplete` |

The assumptions are named in the modules that declare the constants. Two say
that the requests of a kind are finitely many (ReadersAssumption,
ClientsAssumption), which the two counting arguments need; PruneAssumption says
the same of the images. The two
PowerAssumptions are facts of arithmetic that the provers do not know (what a
power is one exponent up, that a power of two is a natural number); TLC
evaluates them for the values of each run.

The arguments.

`CauseInv`. The reaper deletes from a list it read earlier, so `RemovedForCause`
is not inductive: what was listed has to stay due until its turn (`ListedDue`).
What was expired or exhausted does because deadlines never change, the clock never
goes back, and the download count is recomputed from bytes served, which only grow
(`CountDerived`). What was listed as abandoned stays so unless it is completed, and
then that happened after the list was read (`DueSince`). An identifier that is
listed is never drawn again (`RowsDrawn`). Nothing is assumed of the clients.

`LogInv`. `LogRetired` speaks of a moment when nobody is deleting. What is invariant
is that while the log holds a deleted row, somebody who deletes has the checkpoint
before it (`Retiring`): a revocation because it runs straight on to it, the reaper
because it remembers in `removed`, through the rest of its batch, that it deleted
something.

`IInv`. `PublishedWhole` depends on what a writer holds: between FinishBlob and
CompleteRow the final name must already be whole (`WriterOK`), which needs
the partial to have been whole at FinishBlob, which needs its length to be
what the writer has counted, which needs nobody else to write to that inode
(`InodesApart`, `OneWriter`). Files are removed only after the row
(`DeleterOK`), so a writer whose row exists still has its partial. Once a
download or a revocation has seen a completed row, no write request can reach
the upload any more (`Closed`), so nothing brings a removed file back.

`AllowanceInv`. `OvershootBounded` speaks of what was counted, and a download is
counted when it ends. What is invariant is that the bytes counted and one answer
(`Response`) for every transfer under way stay below the limit and one answer for
every reader: a reader that is let in adds a transfer only while the count is below
the limit, and when it is recorded it trades its answer for at most as many bytes.

`PromiseKept`. Every action of UploadLifecycle is shown to be a step of
UploadPromise or to leave the mapped variables alone. The row decides what an
upload is, so DeleteRow is the abstract removal and the removal of its files
only turns readers away; `IInv` says that the body a completed row offers does
not change under CopyBlock and FinishBlob, and that nobody can begin to read
when a revocation is answered.

`ProcessInv`. `Stage` ties the program counter to the stack of deferred calls
and to what has been started; the reaper runs only while "wait" is still on the
stack, above "close", and an ordinary request runs past the grace only when
`Shutdown` has returned an error, which `err` then holds. Of hijacked connections
nothing of the kind holds (see Disagreements).

`LimitInv` of RateLimit. For each key, what was admitted of the readings in the
window plus what is left in the bucket never exceeds the burst plus what was
credited between the beginning of the window and the time the bucket was last seen,
a time that may lie before the window, and what was credited again after readings
that came late (`Balanced`). Setting a bucket back lowers the first term by exactly
what it adds to the second. `RetryHonest` is an action
property and needs no invariant: it is arithmetic about a quotient truncated
once to a duration and rounded up once to seconds.

`NonceInv` of Compat. The statement that replaces the nonce does not compare it
with the one that was read, so two overlapping requests may both be let in. What
holds is that a nonce some request was let in with is behind the row's
(`SpentPast`): a request that begins afterwards with it carries a nonce the row
has left. A password's key is never replaced by the link's (`PasswordKept`), since
rotating leaves the key alone.

`FileInv` of Compat. While the row exists only the socket touches the files, in
the order of its program counter (`SocketOK`); deleters take the row first
(`RowFirst`). A file left after the row is gone is one that some deleter, or the
abandon that the socket's next frame runs into, has still to get to
(`StillRemoving`).

`LimitInv` of Compat. As above, but bytes are sent before they are recorded, by
several requests at once, so two sums over the requests are kept (`Account`):
what was sent and not recorded is exactly what the requests in "record" carry,
and what is recorded with one file for each admitted download stays below the
limit and one file for each request. A sum over a finite set is the last of a
sequence of partial sums in a fixed order (`Total`); the lemmas say how it
changes with one request and when one sum is below another.

`Inv` of S3Multipart. What the request learnt of the object store is still so
while the row is pending (`Accurate`), because one request of the client runs at
a time and a key never has two multipart uploads (`OneUpload`). Every byte that
was acknowledged is among the parts or in the tail (`Kept`). A chunk keeps that:
the tail it read is the one it replaces (`Replacing`), and the bytes of that
tail and of the chunk are in the parts or still to be uploaded, until the chunk
is answered (`Carrying`). Bytes are in order as long as nothing failed
(`Content`): after a crash between a part and the tail they may be stored twice
(Find_s3_stale_tail), which is why `UndisturbedWhole` asks for more than
`AcknowledgedKept`.

`Inv` of Transfer. Every record but the last is full (`EncoderInv`), and a slice
that opens under the receiver's sequence number is the record sealed at that
place, so a receiver that has opened n records has written exactly their
plaintext (`ReceiverInv`), whatever units arrive: the invariant says nothing of
what is stored.

`StreamInv` of Transfer. Since every record but the last is full, a unit of an
undamaged stream is known by its place (`UnitAt`), and what the encoder has
written is the first `Written` of them (`UnitsWritten`, by induction over the
records). The last record is empty only in an empty file (`NotEmpty`), so a closed
encoder has written exactly `EncodedContentLength` of the file, and an open one
less than that of what it has read. What is stored is a part of what was written
(`StoredInv`); when it is as long as what was declared (`DeclaredInv`) and the file
did not grow, the lengths leave no choice: the encoder is closed and everything is
stored (`Delivered`). A receiver then stands where its next record begins
(`LinkInv`), and the slice it cuts there is that record, whole and with nothing
after the final one (`RecordOpens`).

`Inv` of AtRest. A rotation has the server stopped, works on a copy of the
table and replaces it in one commit (`RotationInv`), so that at any time the
configured key opens every row unless a rotation has committed and not reported
(`TableInv`).

`StreamInv` of AtRest. A counter of Octets octets is the number `Value`, and
incrementing it with its carries adds one to that number, modulo the number of
counters; `StandsAt` says that a stream stands where the offset divided by the
block size has moved the initial counter. `streamAt` begins there, `NextBlock`
stays there from byte to byte, so a byte is hidden by the unit of its own place
(`BlobInv`) and a reader that skips into a block undoes it (`ReaderInv`). Two
places less than a whole round of the counter apart have different units
(`PlacesApart`), and keys are issued once, so none is used twice.

`Inv` of RegistryPrune. What a plan holds is found from its blocks, one per
doomed index, by induction over them (`PlanHolds`): the doomed indexes and the
listed, unprotected images they refer to, each once, every index after its own
images. Between the list and the deletions anything may be published, so what is
invariant is said of the registry as it is: what was there when the listing
began is still there, and what is there beside it came with a build that is not
listed or without an index (`ListedOK`, `loose`); an image that an index of the
plan refers to goes before it or has an index that is not in the plan
(`ImagesFirst`), which is why no image that had an index is ever without one,
during a run either (`Referred`). As long as no build was under way during a run
(`BuildsApart`), the plan takes only what is due with the fewest builds to keep
that any run had (`least`, `FewerKept`) and nothing that a survivor refers to
(`PlanDue`). That stays true while it is carried out because deleting a build
that is due changes neither which builds are kept nor which others are due
(`DueGoes`): there are as many builds above it as are kept. Publishing between
runs keeps no build that was due before: the new one is above all others and at
most one loses its tags to it (`NewerKeepsLess`). `SurvivorsWhole` needs all of
this, since an index that a run left without its images must never count among
the survivors again. `ReleasesStay` needs that a build listed as an edge build
does not become a release later (`ReleasesSpared`): a release pushes an index of its own.
`OldRemoved` is the other direction of `PlanDue`: the plan holds all that is due
(`PlanComplete`), and a deletion keeps that because of fewer builds no others are
due (`DoomedShrinks`).

Induction. The library's induction theorems take an operator as a parameter,
which the provers cannot instantiate. Where a proof needs induction over the
naturals (the octets of a counter, the blocks and records of a stream, partial
sums, the order of a finite set, the blocks of a plan), the lemma `Induction`
states it for a set and gets it from the least element of the complement
(`WFMin`); what a recursive function computes is found the same way.

What stays with TLC: the liveness properties (`DeadRemoved`, `SignalExits`,
`UnfinishedEnds`), since fairness and ENABLED are out
of the prover's reach. Every invariant and every action property that a passing
run checks is a theorem. The inductive invariants were checked with TLC on the
instances of the runs before they were proved and are not repeated there.

## 5. Plan

Models that could follow: an append-only storage both blob stores implement; two
instances that migrate one database at once; the browser's saving of downloads.

## 6. Not modelled

PostgreSQL (the same statements, no log to retire); migrations (each one a
transaction with its record, before anything else runs); configuration parsing,
the client's address, release verification and logging (no state of their own);
the cryptography itself (a key is known by whose it is, a record opens as what
was sealed); the browser client and the user interface; connecting to the object
store; and Put of the blob stores, which nothing outside tests calls.
`PROJECT.json` gives the reason component by component.
