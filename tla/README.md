# Eye-Fi service integration: TLA+ models, model checking and proofs

The repository receives photos from Eye-Fi SD cards (the cards' old SOAP
protocol), geotags them from the Wi-Fi access points the card saw, and stores
them in one of eight destinations.  It runs inside Home Assistant, as one
asyncio event loop with an executor for blocking jobs.  All paths below are
relative to the repository root (`src/eyefi_core`, `src/custom_components`,
`src/wifi_geolocation`).

The promise that matters is simple to say: *a photo the card was told is
uploaded reaches the destination, whole.*  The card deletes or skips what it was
told is uploaded, so everything between the SUCCESS answer and the destination
is the only copy.  The models are about what can come between: lost answers,
overlapping attempts, unreachable destinations, full disks, cancelled tasks,
executor jobs that outlive them, and processes that die.

## Inventory

| Component | State | Operations | Talks to |
|---|---|---|---|
| SOAP upload server, `eyefi_core/soap_server.py` | `_sessions` (nonce per card), `_background_tasks`, the listener | `start`, `stop`, StartSession, GetPhotoStatus, MarkLastPhotoInRoll, `_handle_upload`, `_process_upload` | the card (HTTP), tar extraction, geotagger, event bus, storage |
| Wire protocol, `protocol.py` | none | credentials, integrity digest, envelope and multipart parsing | called by the server |
| Tar extraction, `tar_extract.py` | the download directory | `verify_integrity`, `extract_upload` (unpacks in place, pairs image and sidecar) | called by the server, in the executor |
| Event bus, `events.py` | subscriber lists | `subscribe`, unsubscribe, `publish` | server, camera entity, the bridge to Home Assistant events |
| Geotagging, `geotag.py` | the EXIF block of the image file | `parse_log`, `select_access_points`, `write_gps_exif`, `geotag_image` | geolocation service, the file of the photo |
| Storage, `storage/__init__.py` | the spool directory: images and `.json` files | `store`, `_spool`, `retry_spool` | wrapped destination; called by server, backfill, timer |
| Destinations, `storage/*.py` | what the destination has | `store` (raises `StorageError` or lets its exception escape) | file system or cloud service |
| Backfill, `backfill.py` | none of its own | `backfill_geotags` over the download directory | geotagger, storage |
| Adapter eyefi, `custom_components/eyefi/__init__.py` | `hass.data`, the five-minute timer, the backfill service | setup, unload, service call | owns server and storage |
| Camera, `camera.py` | the path of the latest image | `handle_event` | synchronous subscriber of the bus |
| Config flow eyefi, `config_flow.py` | flow data, options | user, destination and options steps | config entry |
| Geolocation core, `wifi_geolocation_core/` | the cooldowns of WiGLE and WifiDB | `FallbackGeolocationBackend.resolve`, one `resolve` per backend | HTTP services |
| Adapter wifi_geolocation | `hass.data`, one HTTP session per entry | setup, reload on an options update, unload | geolocation core; found by the eyefi adapter |
| Config flow wifi_geolocation | flow data: priorities, credentials | user, next, options steps | config entry |
| Selector patch, `_selector_patch.py` | a patched Home Assistant class | the patch of the selector | imported by the flow |

How one photo travels: the card posts a tar; `_handle_upload` checks its digest
and extracts it, creates a background task for each image and answers SUCCESS;
the task publishes `IMAGE_RECEIVED`, asks the geolocation service, rewrites the
image with the coordinates, publishes `IMAGE_GEOTAGGED`, calls `store()` and
publishes `IMAGE_STORED`.  A store that fails with `StorageError` leaves the
photo in the spool; a timer calls `retry_spool()` every five minutes.

What is hard, and what has to hold, per component:

- **Storage.**  Concurrency of several `store()` calls with overlapping retry
  runs (a tick does not wait for the previous run), crashes and full disks
  between two file operations, answers lost after the bytes landed.  Correct:
  nothing whose `store()` returned is lost, no unsent entry is unlinked, and
  every spooled photo is eventually delivered.
- **Upload server.**  Attempts of one photo overlap when the card does not see
  the answer; `stop()` cancels tasks whose executor jobs go on; handlers outlive
  the cancellation.  Correct: SUCCESS is followed by storage, IMAGE_STORED is
  said of stored photos only, and the file that is stored is whole.
- **Event bus.**  A subscriber must not hurt the publisher.
- **Sessions.**  A nonce is kept per card; nothing but a line of the log depends
  on it.
- **Wire protocol, tar extraction.**  The server adds up a block first and folds
  the carries in afterwards, which may carry again: its digest must be the card's
  for every payload that arrived intact.  Images and sidecars come in any order,
  several with one stem.
- **Backfill.**  It is meant to catch up whatever was missed and works on files
  the live pipeline may be using.
- **Geotagging.**  The log is a sequence of records in any order; the session
  returned must be the photo's last one, with the access points of that session;
  the rational numbers written must read back as the coordinates.
- **Geolocation.**  Fallback order, a backend that raises, a rate limit that
  lookups already under way do not see, a reload during a lookup.
- **Config flows, selector patch.**  Two flows at once, a cancelled flow, an
  options flow working on an old copy, a patch that fails half-way.
- **Adapters.**  Setup that fails half-way, unload with work under way, a service
  that goes through the entries while they are set up and unloaded, cards added
  while the server runs.

`PROJECT.json` lists each hazard at its line; one without a property says why.

## Modules

| Module | What it is |
|---|---|
| `Delivery` | Abstract: what storage promises to its callers. A ledger (offered, owed, delivered) and the answer of each `store()`. |
| `Spool` | `SpoolingStorageBackend` and the directory it keeps, with its destination. |
| `Spool_proofs` | Theorems about `Spool`, proved for every value of the constants. |
| `MCSpool` | Instances of `Spool` for TLC. |
| `UploadPipeline` | Cards, `_handle_upload`, `_process_upload`, executor jobs, start and stop; storage by its abstract promise (`INSTANCE Delivery`). |
| `UploadPipeline_proofs` | Theorems about `UploadPipeline`, proved for every value of the constants. |
| `MCUploadPipeline` | Instances of `UploadPipeline` for TLC. |
| `Backfill` | Overlapping calls of the backfill service on the files of the download directory, next to the uploads. |
| `Backfill_proofs` | Theorems about `Backfill`, proved for any number of photos and calls. |
| `MCBackfill` | An instance of `Backfill` for TLC. |
| `Extraction` | One payload: the integrity digest on both sides, the comparison, the unpacking, the pairing by stem. |
| `Extraction_proofs` | Theorems about `Extraction`, proved for payloads, blocks and tars of any length. |
| `MCExtraction` | An instance of `Extraction` for TLC. |
| `EyeFiEntry` | The config entries of eyefi: the flows that create them and add cards, set-up and its failures, unload, restart, and the backfill service going through all entries. |
| `EyeFiEntry_proofs` | Theorems about `EyeFiEntry`, proved for every value of the constants. |
| `MCEyeFiEntry` | An instance of `EyeFiEntry` for TLC. |
| `GeotagLog` | `parse_log` and `select_access_points` on every log; the coordinates as `write_gps_exif` writes them. |
| `GeotagLog_proofs` | Theorems about `GeotagLog`, proved for logs of any length and all coordinates. |
| `MCGeotagLog` | An instance of `GeotagLog` for TLC. |
| `Geolocation` | The resolve service: concurrent lookups through the backends, cooldowns, reloads of the entry. |
| `Geolocation_proofs` | Theorems about `Geolocation`, proved for every value of the constants. |
| `MCGeolocation` | An instance of `Geolocation` for TLC. |
| `ConfigFlows` | The config entries of wifi_geolocation: dialogs that create and change them, set-up, reload and removal, the service they share, the selector patch. |
| `ConfigFlows_proofs` | Theorems about `ConfigFlows`, proved for every value of the constants. |
| `MCConfigFlows` | An instance of `ConfigFlows` for TLC. |

`Spool` and `UploadPipeline` meet in `Delivery`: `Spool` is shown to implement it
(by TLC and by proof), and `UploadPipeline` uses it in the place of the code of
`store()`.  So the pipeline is checked against any storage that keeps the
promise, not against one spool directory.  The modules meet one level at a time:
`UploadPipeline` and `Backfill` see of a lookup only that it answers, or not, in
the end, which is what `GeotagLog` (whether the service is asked, and about what)
and `Geolocation` (what it answers) are about; `Backfill` sees of storage only
that it accepts a photo or raises.  `Extraction` ends where a task of
`UploadPipeline` begins, with an image and its sidecar; a visit of `EyeFiEntry` to
an entry is one call of `Backfill`.

**Grain.**  asyncio is cooperative: a coroutine runs without interruption from
one suspension point to the next.  One action is therefore what runs between two
awaits that can suspend.  In `Spool` those are only the awaits of the wrapped
backend's `store()`, so "unlink the image, unlink the `.json`, look for the next
entry" is one step (`RetryFlushes`, whose rest of the loop is the operator
`Scan`).  A process that dies does not respect this grain, so the crashes that
fall between two file operations have actions of their own: `CrashInSpool`,
`CrashInFlush`.  In `UploadPipeline`, blocking jobs run in the executor; a
job has a beginning and an end (`BeginWrite`, `EndWrite`), the file is torn in
between, and two jobs that overlap on one file may leave a mixture.

### Spool: state and actions

`image` and `meta` are the two files of a spool entry; an entry is identified by
its random `uuid4`, so `Ids` is a set of numbers taken in any order, and their
order is the order in which `sorted(glob("*.json"))` finds them.  `holds` is the
photo spooled under an id.  `call` is where each `store()` call stands; `run` is
where each run of `retry_spool()` stands.  `delivered` and `up` are the
destination.

| Code | Action |
|---|---|
| `store()`: begin, the bytes land, return | `StoreBegin`, `StoreLands`, `StoreReturns` |
| `except StorageError: self._spool(...)` | `StoreSpools`; a full disk: `StoreSpoolFails` |
| another exception escapes | `StoreRaises` (only with `Escapes`) |
| `retry_spool()`: listing, stale `.json`, first upload | `RetryStart` |
| upload succeeds: two unlinks and the next entry | `RetryLands`, `RetryFlushes` |
| `except StorageError: continue` | `RetryStaysSpooled` |
| another exception ends the run | `RetryAborts`; a `.json` that is torn, or that another run has unlinked since it was listed: in `Scan` |

`Escapes` distinguishes the kinds of destination.  The two that work on the file
system and the drop folder turn what they meet into `StorageError`; the cloud
backends raise `StorageError` for an HTTP status and let connection errors of
`aiohttp` through.

### UploadPipeline: state and actions

A request is `<<photo, attempt>>`.  `card` is what the card knows (`holds` the
photo, `waits` for an answer, `done` once it saw SUCCESS), `handler` and `task` are
the two coroutines of the request, `fired` the events its task published, `disk` the
file of the photo in the download directory and `writers` the executor jobs writing
it, `server` and `tracked` the listener and `_background_tasks`, `copy` what
`store()` read.  The calls of backfill that rewrite the same file stand for one
writer, `Calls(p)`, which comes and goes next to everything (`BackfillBegins`,
`BackfillEnds`) and waits for nobody, as nothing in the code makes it wait;
`crossed` is history, the photos backfill rewrote while the pipeline wrote the file
or storage read it, or rewrote torn.  `HandlerStep` is `_handle_upload`, `TaskStep`
is `_process_upload`; `Stop`, `HandlerCancelled` and `Stopped` are the three stages
of `stop()` (cancel the tasks, close the listener, wait for handlers); `JobEnds` and
`LateLanding` are executor jobs whose coroutine was cancelled. `SyncRaisers` is the
set of events for which some synchronous subscriber raises.

### Backfill: state and actions

A photo has its file (`file`), the name its sidecar has (`sidecar`) and whether
that sidecar yields access points that can be looked up (`usable`: a sidecar
without a marker, without a sighting near the shot or with a power of 0 never
does), its latest upload (`posts`, `live`) and the copies storage has accepted
since it was posted last (`stored`); `call` is where each `backfill_geotags()`
stands, with the photos it listed and its summary.  `tar_extract.py` pairs
`IMG.log` with `IMG.JPG`, `backfill.py` pairs `IMG.JPG.log` with `IMG.JPG`; a
card's names decide, so both are initial states.

Unpacking and tagging write the file in place, so `file` is "half" while one job
is at it; what jobs that overlap leave is open ("mixed" if all of them tag it,
"crossed" if one unpacks it).  Uploads and calls may be cut short, and what they
wrote stays: `cut` is history, the photos this happened to before the end of
`store()`.

| Code | Action |
|---|---|
| `_handle_backfill_geotags`, the listing, the first photo | `Begin` |
| the next sidecar, or the end | `TakeNext`, a part of each action that ends a photo |
| `_has_gps_tags` | `AlreadyTagged`, `Untagged` |
| `geotag_image` returns `None` or raises | `Unresolved`, `GeotagRaises` |
| `geotag_image` rewrites the image | `BeginTagging`, `Tagged` |
| `store()` returns or raises | `Stores`, `StoreRaises` |
| the call is cancelled; its executor job goes on | `CallCancelled`; `AdriftEnds`, `Lands` |
| the upload: unpacked, received, looked up, tagged, stored | `BeginExtract`, `Extracted`; `Received`; `LiveUnresolved`, `LiveBeginsTagging`; `LiveTagged`; `LiveStores` |
| unpacking fails, or its handler is cancelled | `ExtractFails`, `HandlerCancelled` |
| a subscriber raises on IMAGE_RECEIVED, on IMAGE_GEOTAGGED | `ReceivedRaises`, `GeotaggedRaises` |
| `stop()` cancels the task; its executor job goes on | `LiveCancelled`; `LiveAdriftEnds`, `LiveLands` |
| the process dies | `Crash` |

A call is a record that three operators build: `Enters` (the next stage), `Turns`
(another photo), `Counts` (the summary, as sets of photos rather than numbers, so
that counting one twice shows).  A photo is posted again only when its upload is over
(two uploads of one photo that overlap are in `UploadPipeline`).  `StartsAnswering`
and `StopsAnswering` are the geolocation service.

### GeotagLog: state and actions

The log grows by one line for each line `parse_log` reads, so its state
(`shotTime`, `aps`) is compared with the log at every prefix, and every log is
reached.  A line is what parsing tells apart: a sighting, a `NEWPHOTO` of the
photo, `POWERON`, a line that is skipped, a line whose numbers do not parse.
`Select` is `select_access_points` and what `geotag_image` makes of it.  `Shot`,
`TheShot` and `SightingsAround` say by quantifiers over the whole log what the
parser computes line by line.  A sighting with reading 0 that is selected makes
`_pwr_to_dbm` raise and costs the photo its geotag: `Convertible`.
`Unresolved`, `WriteFails` (the backend or `piexif` raises) and `WriteGpsExif` are
the rest of `geotag_image`.  A coordinate is a whole number of thousandths of a
second of arc, so that a tenth of what is written can be seen; `ToDms` is
`_to_dms_rational` with the two places where floating point decides left open:
`int()` of a value that is a whole number may give the number before
(`Truncated`), `round()` of a half either neighbour (`Tenths`).  The properties
of the log are about the states before the coordinates come: afterwards the log
is dropped, because nothing reads it any more.

### Extraction: state and actions

`words` are the 16-bit words of the payload summed so far, each as the card sent
it and as the server got it; `cardSum` and `total` are the two sums of the block
under way; `agree` says whether the checksums of the blocks before are equal.
The card's firmware is not part of the repository: its side is the definition of
the one's-complement sum (`OnesSum`).  MD5 is taken to tell apart what differs.

| Code | Action |
|---|---|
| `_tcp_checksum`: one turn of the `for`, its end, one turn of the `while` | `Add`, `EndBlock`, `Fold` |
| its return, and the next block of `calculate_integrity_digest` | `Checksummed` |
| `verify_integrity` | `Verify` |
| `_extract_sync`: `tarfile`, one turn of the loop, the return | `Unpack`, `UnpackFails`; `Pair`; `Return` |

Several altered words of one block can cancel out: that is the digest's design,
and why `AcceptedIsIntact` speaks of blocks with a single one.

### EyeFiEntry: state and actions

`state` is where Home Assistant has each entry, `saved` the cards in its data,
`read` the cards a set-up has read before it awaits `server.start()`, `built` the
dictionary its running server was given and `known` how many cards that was made
of; `listener` is who holds each port and `call` where each call
of the service stands.  The service awaits inside
`for ... in hass.data[DOMAIN].values()`, so the iteration follows CPython's
dictionary: removing leaves a gap, adding appends, a full table is rebuilt without
gaps, and `next()` raises if the number of items changed, or if as many items as
there were at the start have been met and another is found.  The table is `place`
(where each entry stands in it, 0 if it does not), `filled` (how many places are
taken, gaps included) and `room`; a rebuild gives each entry its `Rank` among those
that are there, and the room CPython has for that many items, `RoomFor`.
`throughout` and `rebuilt` are history: the entries that have been in the table
ever since a call began, and whether the table was rebuilt since.

| Code | Action |
|---|---|
| `EyeFiConfigFlow`, `EyeFiOptionsFlow` | `CreateEntry`, `AddCard` |
| `async_setup_entry` up to `server.start()`, which fails or not | `BeginSetup`, `StartFails` |
| the rest up to the platforms | `Started` |
| the platforms are set up, or raise | `Forwarded`, `ForwardRaises` |
| `async_unload_entry`: the platforms, refused or not; after `stop()` | `BeginUnload`, `UnloadRefused`, `Popped`; `Stopped` |
| `_handle_backfill_geotags`: the call, the end of one entry | `BeginCall`, `EntryDone`; each ends in `NextEntry`: a visit, `Returns` or `Raises` |
| Home Assistant removes an entry, restarts | `RemoveEntry`, `Restart` |

### Geolocation: state and actions

`lookup` is where each call of the service stands: the backend it asks, the
access points left, and how many requests it sent while that backend was paused.
`until` is `_until` of each cooldown; setting the entry up again makes new
backends, hence `gen`.  A lookup suspends only while a request is out, so an
action is one answer and everything up to the next request.

| Code | Action |
|---|---|
| `_handle_resolve`, the first backend that is not paused | `Call` |
| an answer of WiGLE or WifiDB for one access point | `Recognised`, `NotRecognised` |
| 429: `trigger()` and `break` | `RateLimited` |
| 429 whose body is lost while it is read for the log message | `RateLimitedBodyLost` |
| an answer of another backend; `None` or an exception of any | `Located`, `NoneOrRaises` |
| the session closed by `async_unload_entry` | `SessionGone` |
| unload, set-up, the clock | `Unload`, `Setup`, `Tick` |

### ConfigFlows: state and actions

`flow` is each dialog: the step it shows, its `_data` and its `_pending`.
`state` and `data` are the entries, `due` that an entry's update listener is to
reload it, `built` the data its backend chain was built from, `service` whose
handler is registered as `wifi_geolocation.resolve`.  `patch` is how far the
patch of `SelectSelector` got, `fits` whether Home Assistant has all it calls.
The credentials of a backend are one fact, there or not.

| Code | Action |
|---|---|
| `async_step_user`, `async_step_init`: the first form | `OpenUser`, `OpenInit` |
| the same with a selection, with none, with another entry there | `SelectUser`, `SelectInit`, `SelectNone`, `AbortUser` |
| `_async_step_next_backend` | `EnterCreds`; the end of each is `NextBackend`: `Create` or `Save` |
| `async_setup_entry` | `Setup` |
| `async_unload_entry` before and after its await | `BeginUnload`, `Unloaded` |
| `_async_reload_entry`; the user reloads or removes | `Reload`; `ReloadByHand`, `Remove` |
| `patch_select_selector_reorder`, `_backend_field_schema` | `FieldSchema` in each action that shows the first form |

## Runs

| Run | Shows |
|---|---|
| `spool_safety` | Files, calls and runs fit together (`SpoolInv`); nothing accepted is lost (`NoPhotoLost`); no retry unlinks an entry whose photo is not delivered (`FlushOnlyDelivered`); a run attempts all it has listed unless it is cut short in one of four ways, of which the overlap with another run is one (`RunsSkipNone`); the spool implements `Delivery` (`ImplementsDelivery`). Both kinds of failure at once, so every destination is covered. |
| `spool_live` | With faults that become `StorageError` and room on the disk: no outage makes a call raise (`UnreachableLosesNothing`), and every complete entry is delivered (`SpoolFlushed`). |
| `spool_cloud` | *Finding.* `UnreachableLosesNothing` fails for the cloud backends. |
| `spool_poison` | *Finding.* `SpoolFlushed` fails once a full disk leaves a torn `.json`. |
| `pipeline` | Cards, handlers, tasks, jobs and the promise fit together (`PipelineInv`); IMAGE_STORED is said only of photos storage took over, and what storage got of a photo sent once is whole unless the disk was full, and the tagged file if the photo was announced as geotagged, but for photos whose file backfill rewrote at that moment (`StoredIsTaken`); at any moment the attempt the card got SUCCESS for is under way or in the storage, or its task ended in one of four ways the code has (`AckedIsAccounted`); an attempt acknowledged to the card ends with the photo delivered, unless its task was stopped or killed or its `store()` raised and was logged (`AckedIsStored`). |
| `pipeline_raising` | *Finding.* `AckedIsStored` fails when a synchronous subscriber raises. |
| `geolocation` | Lookups, set-ups and cooldowns fit together (`GeoInv`); after a 429, a paused backend gets only requests that lookups under way still had to send (`OverrunBounded`); every answer ends a lookup or leaves it with a later backend or fewer requests (`LookupAdvances`); every lookup ends (`LookupEnds`). |
| `geotag_log` | `shot_time` and `aps` are those of the power cycle under way (`ParserInv`); what `parse_log` returns is the photo's cycle with its sightings (`ParsedSession`); the nearest sighting of each access point is selected (`SelectedNearest`); the tags written read back as the coordinates (`TagsAreCoordinates`). Every log of at most five lines. |
| `backfill` | A file that carries coordinates, and that nobody is at work on, has been handed to storage with them, unless `store()` raised for it or an upload or a call that wrote it was cut short (`TaggedIsSent`); files, calls and summaries fit together, each listed photo counted once (`BackfillInv`); repeated calls catch up every photo with a usable sidecar whose name backfill finds, with the same two exceptions, though the copy may be torn (`CaughtUpByName`). |
| `extract` | The server's sum of a block is the card's up to carries (`DigestInv`); what arrived intact is accepted (`IntactIsAccepted`); what is accepted has no block with a single altered word, but for the two zeros (`AcceptedIsIntact`); each image gets the sidecar of its stem (`PairedByStem`). |
| `entry` | Set-ups, listeners, `hass.data` and the service fit together (`EntryInv`); a server knows the cards its entry had when its set-up began, each with the key saved last (`ServedWasSaved`); a call of the service that returns has visited every entry that was there throughout, once, unless the dictionary was rebuilt meanwhile (`VisitsEach`). |
| `flows` | An entry always holds what its set-up needs, whatever dialogs overlap (`FlowsInv`); the handler in service is of a loaded entry and built from what was last saved, or a reload is due (`ServedIsSaved`); what is saved is built in the end (`SavedIsBuilt`). |

**Bounds.**  `Photos`, `Ids` and `Runs` size the instance; `MaxOutages`,
`MaxDiskFull`, `MaxCrashes`, `MaxSends`, `MaxDrops`, `MaxEnds`, `MaxRetags`,
`MaxPosts`, `MaxCuts`, `MaxOff` bound the faults and what comes from outside, and
nothing else is bounded.  Three photos with three ids is the least in which one
entry sorts before, and one after, the entry a run is at; every call spools at most
once, so three ids never run out.  Two retry runs are the least that overlap.  Two
outages let a photo fail, come back and fail again while a run is in the middle.  In
the pipeline each photo has its own file, handlers and tasks and shares only the
listener and the set of tasks with the others, so one photo with two attempts holds
the interesting interactions: the attempts of one photo share a file.  One rewrite
by backfill is enough to meet any of their jobs; a stop and a crash in one run are
left to the theorems (`MaxEnds` is 1).  In `backfill`, two posts let an upload
follow one that was cut short, and one crash or cancelled call leaves a file behind
for the other call; two calls are the least that overlap, and there is one photo,
because calls meet on one photo only: that the photos of a call do not disturb each
other is what the theorems add.  In `extract`, the words 0, 1 and 65535 make sums
that carry once, twice and not at all, and that are either of the two zeros; a full
block of three and a rest of two let a checksum be forgotten; two altered words can
cancel out.  In `entry`, two entries, two ports and two keys for one card are the
least with which set-ups compete for a port, a card's key changes, and one entry is
reloaded while a call is at the other; `SmallRooms` (three places more than there
are items; CPython has 5 in all for up to two items, 10 for three) makes the rebuild
come earlier, and the theorems hold for any room.  `Positions` are coordinates on
and next to whole minutes and degrees on both sides of 0.  In `geolocation`, three
backends let a lookup go from one with a cooldown over one without to another with
one; `MaxTime` 2 with `Pause` 1 lets a pause begin, end and begin again.  In
`geotag_log`, five lines hold two power cycles with sightings before and after the
shot; the theorems lift this bound.  In `flows`, two dialogs of each kind are the
least that overlap, two entries the least that share the service, and of two
backends one has credentials and one has none, so that each may be added, kept and
dropped. `SYMMETRY` is used in runs without liveness only (photos, runs, calls,
entries, ports, keys, stems and access points are interchangeable; ids are not, they
are ordered).

**Fairness.**  `Spool!FairSpec`: every coroutine that can go on is run (asyncio is
fair), an attempt ends one way or another (HTTP requests time out), the timer keeps
ticking (`RetryStart`), and an outage ends.  Weak fairness is enough, because
outages are bounded and so the destination is reachable for good from some point
on.  `UploadPipeline!FairSpec`: every handler and task goes on, their executor jobs
end, the server comes up again, and the spool is flushed: the last is `SpoolFlushed`
of the module `Spool`.  No fairness makes a card post again, backfill come or go, or
a fault happen.  `Geolocation!FairSpec`: the request a lookup waits for ends, by an
answer, an error or its ten-second timeout.  `Backfill!FairSpec`: coroutines and
jobs go on, nobody need cut anything short, somebody calls the service again and
again, and the geolocation service answers in the end; without the last two nothing
can be caught up. `ConfigFlows!FairSpec`: Home Assistant runs the set-ups, unloads
and listeners it has started; no dialog need ever be finished.

**Deadlock** is checked in the `MCSpool` runs: the timer never stops.  The
pipeline runs switch it off: a card whose photos are uploaded really stops.  So
do `geolocation` (no more reloads, no time left), `geotag_log` (the image is
tagged) and `extract` (the upload is unpacked).  In `flows`, `entry` and
`backfill` it is checked.

## Findings

1. `spool_cloud` (`storage/__init__.py:44`).  The README says a temporarily
   unreachable destination does not lose the upload.  `store()` spools on
   `StorageError` only, and a cloud service that cannot be reached fails with
   an `aiohttp` exception: nothing is spooled, and the task ends.
2. `spool_poison` (`storage/__init__.py:61`).  `_spool` writes the `.json` in
   place; a disk that fills up leaves it torn; `json.loads` is outside the
   `try`, so every later run of `retry_spool()` ends at this entry, and all
   entries sorted after it are stuck.
3. `pipeline_raising` (`events.py:69`).  `publish()` promises that a failing
   subscriber never blocks the pipeline.  A synchronous one is called in place,
   before `store()`, and the exception ends the task.

Observed while modelling, without a run of their own:

- A retry run ends early when another run has unlinked a `.json` it listed: the
  `read_text()` of `storage/__init__.py:61` is outside the `try`.  The run's other
  entries wait for the next tick (`RunsSkipNone` names this, `SpoolFlushed` holds
  nevertheless).
- Nothing keeps backfill off a file the pipeline is at work on (`backfill.py:82`): the
  copy storage takes may be torn even of a photo that was posted once (TLC shows
  it when `StoredIsTaken` is stated without `crossed`).
- A task that a handler creates after `stop()` went through the tasks it knew
  (`soap_server.py:96`) is cancelled by nobody and goes on after the unload.
- A task that `stop()` cancels, or that dies with the process, leaves an acknowledged
  photo in the download directory that nothing hands to `store()` again, unless
  backfill finds it untagged and can locate it.
- One sighting with power 0 makes `log10` raise (`geotag.py:119`) and costs the photo
  its geotag, at upload time and in every call of backfill.
- Geotagging rewrites the only copy of an acknowledged photo in place, before
  `store()` has taken it (`geotag.py:178`): a process that dies then leaves a torn
  file, which nothing repairs.
- Backfill is to catch up anything missed (`backfill.py:8-11`).  It finds the image of
  `IMG.JPG.log` only (`backfill.py:70`), extraction pairs `IMG.log` only
  (`tar_extract.py:59-67`): a photo that was to be geotagged at upload time is
  never found later, and one that backfill finds never had its sidecar at upload
  time.  `CaughtUpByName` therefore speaks of the one name.
- An image is hidden by a later one of its stem (`IMG_1.JPG`, `IMG_1.MOV` in one tar):
  it is unpacked and the card is answered SUCCESS, but it is never stored
  (the exception in `PairedByStem`).
- A set-up whose camera platform raises leaves its server running (`EntryInv` has it
  filed, but Home Assistant does not unload an entry that never loaded): the next
  attempt finds the port taken by the first one, until a restart.  An entry whose
  platforms refuse the unload keeps its server as well.
- A call of the backfill service that meets a reload either raises, and its counts
  are lost although photos were re-stored, or goes on; it goes on unnoticed if as
  many items came as went.  When enough gaps have come together the dictionary is
  rebuilt meanwhile, and the call can pass over an entry that was loaded throughout
  (TLC shows it when `VisitsEach` is stated without `rebuilt`), although
  `services.yaml:3-6` says every photo is scanned.
- A card added by the options flow is unknown to the running server until the entry
  is reloaded, which nothing in the flow does (`config_flow.py:210`).
- Seconds of 60.00 are written for coordinates just below a whole minute
  (`geotag.py:150`); read back, they are the coordinate (`TagsAreCoordinates`).
- WiGLE's comment says one 429 pauses all lookups for a day (`wigle.py:26-30`).
  Lookups already under way go on (`OverrunBounded` says how far); so does the one
  that got the 429 if the body of the answer is lost; and a reload of the entry
  forgets the pause.
- A photo whose file was tagged but not handed to storage counts as already
  tagged from then on, and is not stored again (`backfill.py:77-80`).  A `store()` that
  raised does this, and so does whatever comes between the rewrite and the end
  of `store()`: `stop()` (`soap_server.py:96-97`), a subscriber that raises on
  IMAGE_GEOTAGGED (`soap_server.py:247`), a call of the service that is cancelled, a
  crash.  These are the exceptions `refused` and `cut` of `TaggedIsSent`.
- Two wifi_geolocation entries can exist, though "only one configuration is
  allowed" (`translations/en.json:38`): only the first step asks for others
  (`config_flow.py:167`), so two dialogs past it both create one (`SelectUser` twice,
  then `EnterCreds` twice).  They share one service: the entry set up last
  answers for both, and unloading either removes it (`__init__.py:163`).
- The fallback of the selector patch is shown once.  `_selector_patch.py:46` sets
  the annotation before the schema is built; if the build fails, the next call
  finds the annotation and reports success, the reorder field is refused, and
  every request for a form raises until Home Assistant restarts - even the
  one that answers an empty selection in the form just shown (`SelectNone`).

## Theorems

`Spool_proofs` proves, for every set of photos, ids and runs and any number of
faults, under `SpoolAssumption` only (ids are numbers, `NoPhoto` is not a photo,
bounds are numbers):

- `SpoolInvariant`: `Spec => []SpoolInv`.
- `NoPhotoIsLost`: `Spec => []NoPhotoLost`.
- `FlushesOnlyDelivered`: `Spec => FlushOnlyDelivered`.
- `RetriesSkipNone`: `Spec => RunsSkipNone`.  It needs that an entry a run is at is
  not among those still to come (`BehindTodo`), and that an entry still to come whose
  `.json` is gone is of a delivered photo (`FlushedAhead`), because only a run that
  delivered it unlinks it; `ScanCovers` is the loop itself.
- `SpoolImplementsDelivery`: `Spec` implements `Delivery`, under the refinement
  mapping `Ledger`, `Answer`.
- `UnreachableIsHarmless`: with `~Escapes` and no full disk, no call raises.

The inductive invariant is `SpoolInv`.  `NoPhotoLost` is not inductive on its
own: a photo in the spool is safe only as long as no step unlinks it, so the
invariant has to say what a run may unlink.  `FilesInv`: an id is written once,
and a complete `.json` has its image unless the photo is delivered (so unlinking a
stale `.json` harms nobody).  `RunsInv`: the entry a suspended run is at is
still complete, or its photo is delivered, because only a run that delivered it
unlinks it; a run in the state "landed" has delivered it.  `CallsInv`: a call that
has not ended has spooled nothing, so a fresh entry is its photo's only one.  The two
places where the argument is not routine are `ScanEffect` (what the rest of the
loop may do to the files, whichever entry it stops at) and the overlap of two
runs on one entry (the second finds the image gone, and the photo delivered).
The step lemmas (`StoreStepInv`, `RetryStepInv`, `FaultInv`) have a step per
action.  The refinement is proved from the same invariant: each action of `Spool`
is a named step of `Delivery` or leaves ledger and answers alone.

`UploadPipeline_proofs` proves, under `PipelineAssumption` only (a photo may be
sent, subscribers raise on events of the bus, bounds are numbers):

- `PipelineInvariant`, `StoresWhatIsWhole`: `Spec => []PipelineInv` and
  `Spec => []StoredIsTaken`, from the invariant `Inv`.  Its parts that neither
  property has: `JobOK` says which executor jobs may be writing, and that
  `store()` has not been called for a request whose job is, though its handler or
  task is gone; `AnswerOK` ties the answer of `store()` to the task and to
  the events; `FileOK` follows the file of a photo sent at most once up to the copy
  storage takes, as long as backfill has not crossed it.  What carries `FileOK` is
  `OneWriter`: of such a photo nobody but its own request and backfill write the
  file (with a second send two jobs of the pipeline may write at once, and
  `StoredIsTaken` promises nothing about the content); backfill touches nothing
  but the file (`RetagInv`).  A step of a
  request leaves all others alone (`StepInv`), so each step lemma proves the
  invariant for that request only; `Arrive`, `Stop` and `Crash` are proved for all.
- `AccountsForAcked`: `Spec => []AckedIsAccounted`, from `Inv` and `Fates`: a card is
  told of an attempt only by its own handler, which has a task by then
  (`AckedBefore`), and a task ends after `store()` returned or by an exception
  (`TaskMoves`).  This is the part of `AckedIsStored` that is not about time.

`Geolocation_proofs` proves, under `GeolocationAssumption` only (backends are
numbered, bounds are numbers):

- `GeoInvariant`: `Spec => []GeoInv`, inductive as it stands.  The part that does
  the work: the requests a lookup still has to send and those it sent late are
  together no more than its access points (`GoOnKeeps`), because a lookup enters a
  backend with the cooldown inactive and none late (`EnterKeeps`).
- `OverrunIsBounded`: `Spec => []OverrunBounded`, since one request is always
  left to be answered.
- `LookupsAdvance`: `Spec => LookupAdvances`: the backend and the requests left are a
  measure that every answer takes down, which is why a lookup over finitely many
  backends ends (`LookupEnds`, itself only model-checked).

`GeotagLog_proofs` proves, under `LogAssumption` only (times and readings are
natural numbers), for logs of any length:

- `ParserInvariant`, `ReturnsSession`, `SelectsNearest`: the three properties of
  the run, which are inductive together (`LogInvariant`).  A new line leaves the
  cycles of the old ones alone (`CyclesStay`); only a marker can make or unmake a
  shot (`ShotsStay`), and a new marker outdoes every earlier one of the cycle
  under way (`MarkerOutdoes`); `POWERON` with a shot leaves the session as it is
  (`SessionEnds`).  That a nearest sighting exists (`ClosestExists`) is the
  well-foundedness of the natural numbers, used twice.
- `WritesCoordinates`: `Spec => []TagsAreCoordinates`, for all coordinates: what is
  left over of a degree and of a minute goes on into the next unit, so nothing is
  lost however `int()` falls, and `round()` moves the value by half a
  hundredth of a second at most (`ToDmsReadsBack`).

`Extraction_proofs` proves, under `ExtractionAssumption` only (words have 16 bits, a
block has at least one), for payloads, blocks and tars of any length:

- `DigestInvariant`: `Spec => []DigestInv`, inductive as it stands.  The sums are
  compared modulo 65535, because a carry that is added back takes 65536 away and
  adds 1; that the server's sum is 0 exactly if the card's is tells the two
  zeros apart, which congruence cannot.  A block with one altered word then
  differs by that word.
- `AcceptsIntact`, `AcceptsOnlyIntact`: from it.
- `PairsByStem`: `Spec => []PairedByStem`, from an invariant of the loop: each
  stem has its last image and its last sidecar so far.

`Backfill_proofs` proves, under `BackfillAssumption` only (calls are not photos,
bounds are numbers):

- `BackfillInvariant`, `TaggedIsSentAlways`: `Spec => []BackfillInv` and
  `Spec => []TaggedIsSent`, from the invariant `Inv`.  Of each call: what it has
  listed is what it has counted, is at, and has left, and it counts nothing twice
  (`Sums`); a call about to store has an image that is not untagged.  Of each
  file: it is torn while somebody writes it (`FileOK`), and if it is tagged it has
  been handed to storage, an upload or a call stands before its `store()`, or one
  was cut short there (`SendOK`).  The steps that are not routine are the end of a
  job while another is at the file, whether its coroutine still waits for it or
  not (`JobEnds`, `LiveEndsInv`), and a new post, after which nothing counts that was
  handed over before (`BeginExtractInv`).

`ConfigFlows_proofs` proves, under `ConfigFlowsAssumption` only (dialogs of the two
kinds differ, `NoEntry` is not an entry, what takes credentials is a backend):

- `FlowsInvariant`: `Spec => []FlowsInv`, inductive as it stands.  What a dialog
  still asks for and what it has make up what its selection needs
  (`FlowComplete`), every dialog step ends in `NextBackend`, which keeps that
  (`NextBackendKeeps`), and an options dialog begins with a complete copy and
  compares with that copy, not with the entry as it is by then.
- `ServesWhatIsSaved`: `Spec => []ServedIsSaved`, inductive next to `FlowsInv`.

`EyeFiEntry_proofs` proves, under `EyeFiEntryAssumption` only (there are finitely many
entries, `None` is not one of them, an entry may have a card, a dictionary has
more room than the items it is built with):

- `EntryInvariant`: `Spec => []EntryInv`, inductive as it stands.
- `ServesWhatWasSaved`: `Spec => []ServedWasSaved`.  It needs that an entry has a card
  (`HasCards`), that what is saved only grows while the entry lives, and that what
  a set-up has read is the beginning of it (`ReadOK`), whatever is added while the
  server starts.  That a mac has a last card is the
  well-foundedness of the natural numbers (`KeyIsOfLast`).
- `VisitsEachOnce`: `Spec => []VisitsEach`.  Of a call under way whose table was not
  rebuilt, the invariant says (`CallOK`, `Visits`) that it has passed every entry
  that was there throughout, or has it still ahead.  That
  none is visited twice has no proof step by step, because an entry that is
  reloaded does come back ahead of the iterator: it is a counting argument over
  the end of the call (`AllOnce`).  A call returns only if there are as many items
  as when it began; it has made at most as many visits; and where each of these
  items was visited, as many visits as items leave none for a second one.
  `RankKeepsOrder` is about the table itself: without its gaps the items keep their
  order and places of their own.

Only model-checked: liveness (`SpoolFlushed`, `AckedIsStored`, `LookupEnds`,
`CaughtUpByName`, `SavedIsBuilt`), because weak fairness is defined by ENABLED, which
is beyond the prover.  `RetriesSkipNone`, `AccountsForAcked`, `LookupsAdvance`,
`BackfillInvariant` (a call counts all it has listed) and `ServesWhatIsSaved` are the
parts of them that are about steps and not about time.  Every other property of
a passing run is stated by a theorem.

## What the models leave out

- Contents of requests, tokens, OAuth signatures, file names and formatting.
  Two photos with one file name at the destination are not modelled.
- Power loss: what a dead process wrote stays (no loss of the page cache).
- A process that dies after some of several stale `.json` files are unlinked by
  one `Scan`: the unlinked ones are owed to nobody (`FilesInv`), and the next
  run goes on with the others.
- Several images in one tar: each gets a task of its own with its own file.
- Sessions: StartSession, GetPhotoStatus and MarkLastPhotoInRoll answer from the
  request and the cards alone; the nonce is compared for a line of the log
  (`soap_server.py:155-156`), so an upload is accepted with or without a session.
- Envelopes and the multipart parser (`protocol.py`): stateless text processing, in
  which a model would repeat the code character by character.
- The destination settings of the eyefi flow and the texts the normalisation of a card
  refuses (a form that is refused changes nothing).
- In `Extraction`: names with directories, members that have one name.
- In `Backfill`: a disk that fills up during a rewrite (its end is a torn file, as
  that of overlapping jobs is), two uploads of one photo that overlap.
- In `UploadPipeline`: what becomes of a call of backfill, and how many of them are
  at one file; their lookups and their `store()` are in `Backfill`.
- In `Geolocation`: positions themselves, the centroid, several entries.
- In `ConfigFlows`: the order of the backends, the values of credentials, an entry
  that is disabled.
- Coroutine subscribers: each is a task of its own that reaches nothing of the
  publisher's.
- Everything in "Plan" below.

## Plan

What is left: the multipart parser (`protocol.py`) on sequences of parts with and
without a boundary inside, if a grain is found that is not the parser's own.  Of
the properties only liveness has no proof, and none is in the prover's reach.
