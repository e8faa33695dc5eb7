# Shutter: a verification project

Shutter is a Flutter app that operates the motorised shutters of a home. The
phones of a user keep no server of their own: they share one Firebase Realtime
Database (RTDB) and one Firebase Authentication project, and every operation of
the app is a handful of awaited requests to these two. The core logic is in the
Dart code under `src/lib`; `ios/Pods`, the platform directories and the assets
are vendored or generated.

The app has no locks, no transactions and no queue. What makes it hard is what
happens *between* two awaits: another phone writes, the connection drops, a
request is rejected, the app is killed, a listener's event rebuilds a list or
refills a form, a second tap starts the same call again. That is what these
modules model, and what a unit test with a mocked database would hardly reach.

## 1. The system: inventory

| Component | State | Operations | Interacts through | Correct when |
|---|---|---|---|---|
| Bulk commands (`commands_controller.dart`, `commands_screen.dart`) | none of its own; a query result held over a loop of awaits | eight commands: query the user's devices, update them one by one, report | database, full-screen loader | success means applied; a loop stopped half way leaves a tail; the loader closes |
| Device records (`shutter_device_model.dart`) | the node `ShutterDevices` | `set`, `update`, `remove`, query by owner | database | a record that has an owner is complete |
| Device controller, cards, dialogs (`device_controller.dart`, `room_card.dart`, `edit_device_dialog.dart`, `input_dialog_for_new_data.dart`, `device_form.dart`, `home_screen.dart`) | the observable list of devices; calls in flight | listen, save, delete, toggle, update, reset an alarm, edit and settings dialogs | database, events, loader, user repository | the list converges to the database; writes touch only what they mean to; a deleted device stays deleted |
| User repository (`user_repository.dart`) | the cached profile | one fetch | session, save | a device is filed under its user |
| Authentication (`authentication_repository.dart`, the sign-in, sign-up and reset controllers) | account, profile, session | sign up, sign in, reset, sign out | Authentication and database | the two copies of a password agree; every call ends |
| Schedule (`schedule_controller.dart`, `schedule_form.dart`) | seven rows in a form, seven children in the database | save (a loop), listen, edit | database, local events, language | what was typed is stored; row *i* is day *i* |
| Auto play (`auto_play_controller.dart`, the settings page) | timers, the setting shown | tick (query, compare the minute, update), two update loops, two loads | database, clock | no due shutter is forgotten; the last choice wins |
| Full-screen loader and navigation (`screen_loader.dart`, every `Get.to`, `Get.offAll`, `showDialog`, `Navigator.pop`) | the stack of routes; GetX's current route | open a page, a drawer, a dialog, the loader; pop; the answers that push or pop | every call above | the loader belongs to the call that opened it and is the route its `stopLoading()` pops; a call that succeeds ends on its page |
| Drawer, splash page | the splash page's timer | start commands, open pages; choose the first page | session, navigation | a page is always below the loader |
| Localization (`localization_controller.dart`, `language_selector.dart`) | language code on the screen and in the preferences | load, choose, store | preferences, schedule keys | what is shown is what is kept; a calendar is in one language |
| Validation, error texts, network manager, clock of the drawer, start-up | - | pure checks, wording, display | - | not modelled, see section 7 |

The hard behaviours, each at its line and with the properties that would catch
it, are the `hazards` of `PROJECT.json`.

## 2. Modules

```
DeviceRecords            records, set / update / query       DeviceRecordsProofs
  |-- DeviceStore        abstract store                      DeviceStoreProofs
  `-- ShutterDevices     db, session, connection, loader
        |-- CommandsController   bulk commands               CommandsControllerProofs
        `-- DeviceController     list, cards, dialogs, save
              `-- Dashboard      the two composed            DashboardProofs
                    (implements DeviceStore)
Authentication           sign-up, sign-in, reset             AuthenticationProofs
ScheduleController       the weekly calendar                 ScheduleControllerProofs
  `-- LocalizedSchedule  in the language of the phone          (both)
        (with Localization: load, choose, store)
AutoPlayController       timers and the auto play setting    AutoPlayControllerProofs
Navigation               routes, drawer, dialogs, loader     NavigationProofs
  (implements PageFlow: who has the screen)
```

`MCCommands`, `MCDashboard`, `MCAuthentication`, `MCLocalizedSchedule`,
`MCSchedule`, `MCAutoPlay` and `MCNavigation` give the constants values for TLC;
each `.cfg` is one question.

### Conventions that all modules share

- A Dart method is split at its `await`s. One action is everything between two
  of them: the code after an answer up to the next request is one step, because
  Dart runs it without interruption.
- The requests of a phone travel on one connection, in order (`wire`). The
  server takes the oldest one; its answer lets the call go on. The fetch of the
  settings dialog and that of the profile are other calls to the SDK and are
  not ordered with the rest.
- While a phone is offline the SDK holds its writes back and reports no error
  (`online` in `ShutterDevices`). A request that is rejected is one that was
  not applied.
- A kill (`Restart`) loses all state of a phone but the session, which is on
  disk, and drops the requests not yet taken by the server.
- An `onValue` event carries what the SDK shows the phone at the moment of its
  delivery (`View`): the node as the server has last told it, with the phone's
  own unanswered writes on top, whether the phone is connected or not. An event
  is owed (`news`) when that view changes, be it by a write of somebody else, by
  a write of the phone's own that is sent, or by one that is rejected; events
  that were due before it are merged into it. Listeners are never cancelled and
  pile up; all of them rebuild the same list from the same view, so one stands
  for all.
- A single read (`once()`, `get()`) that is answered from the SDK's cache is
  taken for a read the server answered at an earlier moment.
- Validation failures change no state and are left out.
- *History* variables (`touched`, `saved`, `replaced`, `changed`, `asked`,
  `vouched`, `stray`, `upset`, `mother`) are read by properties only.

### DeviceRecords, DeviceStore

A record is a function from the children the app's writes tell apart (grouped:
`fAuto` stands for the three children the edit dialog writes together,
`settings` for those of the settings dialog, `userId` for the children only
`set()` writes). `Merge` is `update()`, which creates a node that is not there;
`NewDevice` is `toJson` of a device that is saved, with every child present;
`Query` is `orderByChild('userId').equalTo(uid)`, which for a null uid finds
the records without an owner.

`DeviceStore` is the abstract promise: each step saves one complete record,
removes one, or writes the children of one update of the app (`Updated`: a card,
a bulk command, one of the two dialogs, the alarm button) and leaves all others
as they were. `Dashboard` is shown to implement it.

### ShutterDevices, CommandsController

`ShutterDevices` holds what the controllers share. `loader` records which calls
are between `openLoadingDialog` and `stopLoading()`, and whether a page was
pushed over the dialog. `CommandsController` has the eight commands as the
patches they write, and `Start`, `Found`, `NotFound`, `UpdateNext`, `Finish`,
`Fail` for the one body they share (bound: one command per phone at a time,
which the loader enforces).

### DeviceController, Dashboard

A call in flight is a *task* with the phone, key, patch and owner the Dart
closure holds. `ToggleRead`/`ToggleWrite` are the two halves of
`toggleDeviceStatus`; `OpenDialog`, `EditUpdate`, `SaveSettings`, `ResetAlarm`,
`ConfirmDelete` the dialogs; `Update`, `RemoveDevice`, `SetDevice`, `FillForm`
the answers; `Reject`, `FormFails` the errors;
`OpenDrawer`/`UserAnswer` the profile that is fetched once per
`UserRepository`; `SignIn`, `SignOut`, `Dispose` a change of user. A card of a
record without `deviceId` writes to the key `"null"` (`NullKey`), as string
interpolation does. A sign-out leaves the controllers and the cached profile
alive, as `Get.put` does. The fetch of the settings dialog is one `get()`: it
fills the form, fails, or finds no record, and then the dialog keeps its spinner
(`missing`) until it is closed, whatever is stored later.

`Dashboard` composes this with the bulk commands and with what the SDK shows a
phone. `heard` is the node as the server has last told it; `Unanswered` are the
phone's own writes on the wire, of tasks and of the bulk loop, and `View` puts
them on top, a `set` or `remove` as a whole and an update child by child.
`Events` keeps `heard` and `news` up to date in every step, and `Deliver` is the
listener, which rebuilds the list from the view. A dashboard that is closed
(`Dispose`) leaves the next listener owed its first event, whoever opens it; an
app that is started again has been told nothing until it is connected. `Waiting`
are the calls between a request and the answer.

A second tap on Update while its request is in flight is not modelled (it
equals opening the dialog again). Which route the dialog's own `Navigator.pop`
takes is `Navigation`'s subject: here a dialog is closed by its answer or was
left before. An answered deletion or sign-out pushes a page, over a loader if
one is up (`PushPage`). The iOS branch of `fetchDeviceData` is left out, and
`fetchDevices` has no caller.

### Authentication

`account` is what Firebase knows, `profile` the copy of the password under
`users/<uid>`. Sign-up is two steps (`CreateAccount`, `StoreProfile`), sign-in
and reset read all users first and ask Firebase second; `FollowLink` is the
reset page, which changes the account alone.

### ScheduleController

One device's calendar on several phones. `View` is the phone's local view: RTDB
applies a phone's own update to its cache, and raises the event, before the
server answers, and that event refills the form (`Deliver`). `SaveTap`,
`SaveNext`, `SaveDone` and `SaveFails` are the loop of `saveSchedule`, whose
request holds the only state it has, the day it is at. The notifications of an
`RxList` are synchronous, so that clear, addAll and sort are one step; days
named in another language have `indexOf` -1 and come first in any order; one
row too many throws before the list is sorted. The four times of a row are one
text. A form that is left keeps saving. `ReplaceDevice` is a save or a deletion
of the device elsewhere, which clears the calendar with the record.

### AutoPlayController

The devices of one user who stays signed in. Each call has one request in
flight, and it holds the call's state: the device it is at and those still due.
`Tick` is a timer that fires, `TickRead` the answer of its query, where the
time of day is looked at, `ShutterOpened`/`OpenFails` the per-device update
with its own `catch`; `updateAutoPlayStatus` and `updateAutoPlayTime` are the
taps, `ListRead`, `StatusStored`, `TimeStored` their loops; `StatusLoaded` and
`TimeLoaded` the two loads, which the controller sends when the first card is
built and the settings page each time it is built, the time first there, because
the time field loads in its constructor and the switch in its `build`. Each build of a card starts one more timer, so a
running phone has any number of them and a tick may come at any time.
`convertTo24HourFormat` is modelled by what it does: "2:30 PM" is a minute,
"14:30" from a phone whose clock shows 24 hours is not, nor is the empty text.
The set of devices is fixed; devices that appear and go are `Dashboard`'s
subject.

### Localization, LocalizedSchedule

`Localization` is the controller over the preferences of each phone: it starts
in the default language, `LanguageLoaded` shows the stored one when the
preferences are there, `ChangeLanguage` shows a choice at once and
`LanguageStored` stores it later; `LoadFails` and `StoreFails` are the errors,
of which only the first is caught. `getInstance` is one shared future, so a
choice made before the load is stored after it. `upset` remembers that a choice
came before the load, which then takes it off the screen again, or that storing
one failed: in both cases screen and preferences really disagree until the next
start, and `ShownIsKept` says that there is no third.

`LocalizedSchedule` composes it with the calendar: the controller names its days
once, in the language on the screen when the schedule page is opened
(`OpenPage`), a form finds that controller (`OpenLocalized`), and every other
step of the form is `ScheduleController`'s. A page may be opened while the
language is still being loaded, and then keeps the default one's names. A
language is chosen while no schedule page is open, as that page and the settings
page are never both on the screen. Two bounds: no save is running when a
language is chosen or a page opened, and a page is opened once the last choice
is stored. `mother` is the language stored on every phone as long as nothing
disturbed it.

### PageFlow, Navigation

`Navigation` is the stack of one phone. `Push`, `Pop`, `To` and `OffAll` are
Flutter's navigator and GetX's observer, modelled from how the code uses them:
`Get.to` pushes nothing when GetX takes the page for the current one, dialogs
opened with `showDialog` have no name and leave the current route as it was, an
open drawer is a local history entry of the dashboard that a pop takes first.
`OpenPage`, `OpenDrawer`, `OpenDialog`, `CreateAccount` and `Back` are the user's
moves, possible on what is on top; `Load` opens the loader, which `Back` cannot
take; `Fail` and `Succeed` are all exits of the five controllers' calls
(`stopLoading()`, and then `Get.to`); `Removed`, `LoggedOut` and `Updated` are
the calls that act on the stack without a loader: a deletion and a sign-out push
a page, and the two dialogs of a card pop themselves after an `await`. Such a
dialog may be covered by then, or on its way out: for the time of its exit
animation its context is mounted and `Navigator.pop` takes whatever is on top;
after that it throws (`Unmounted`). `Restart` is a kill, after which FirebaseAuth
may or may not have done what was asked of it.

`stray` remembers that a pop took a route that was not its own or a page was
pushed over the loader. What follows then is really arbitrary (a loader may stay
for good), so the properties speak of the time before, and `LostBy` pins down
the only three answers that can end it. `PageFlow` is the abstract promise:
pages move while nobody holds the loader, one call at a time opens it, nothing
moves below it, and it closes to the page it was opened from or to one page
more. The settings dialog and the edit dialog of a card are one route here.

## 3. Runs

| Run | Instance | Checks | Result |
|---|---|---|---|
| `commands` | 2 phones, 2 users, 2 devices, 2 commands, flaky connections | `CommandsTypeOK`, `LoopInvariant`, `NoDeviceSkipped`, `SuccessMeansApplied`, `LoaderCloses` | holds, 43k states |
| `dashboard` | 1 phone, 2 users, 2 calls in flight and a command | `TypeOK`, `OwnedComplete`, `LoaderHasOneHolder`, `EachCallHasItsRequest`, `StoreSpec` (refinement), `SuccessMeansApplied` | holds, 303k states |
| `converges` | 2 phones of one user, one of them flaky | `SettledCardsAreStored`, `DashboardConverges`, `LoaderCloses` | holds, 75k states |
| `dialogs` | 1 flaky phone, all card operations, 2 calls in flight | `FormLoads` | holds, 123k states |
| `ghost` | 2 phones, a command and a deletion | `DeletedStaysDeleted` | violated |
| `saved` | 1 phone, 2 users | `SavedIsMine` | violated |
| `authentication` | 2 phones, 2 addresses, 2 passwords | `TypeOK`, `PasswordsAgree`, `SignUpInvariant`, `CallsEnd` | holds, 380k states |
| `reset` | as above | `NewPasswordWorks` | violated |
| `navigation` | 1 phone, all pages and dialogs, 5 routes, 2 calls in flight | `TypeOK`, `LoaderOnTop`, `LostBy`, `SuccessIsSeen`, `ScreenFrees`, `FlowSpec` (refinement) | holds, 138k states |
| `schedule` | 1 phone, 2 languages, a week of 2 days, 2 saves and 2 choices in flight | `TypeOK`, `LanguageTypeOK`, `PrefixStored`, `RowsAreDays`, `ShownIsKept`, `OneLanguage`, `FirstSaveAsTyped` | holds, 1.1M states, 2.5 minutes |
| `schedule_lost` | the calendar alone, 1 language, 1 save | `SavedAsTyped` | violated |
| `auto_play` | 1 phone, 2 devices, a day of 2 minutes, 2 calls in flight | `TypeOK`, `DueOpened`, `LastChoiceWins`, `TimeShown` | holds, 3.7M states, 2 minutes |

### What the violated properties show

Each states what a text of the app tells its user; `findings` in `PROJECT.json`
quotes the line.

- **ghost**: `update()` on a key that was removed after the command had read
  its list creates the node again, without name or owner.
- **saved**: a device is filed under `userData['id']` of a repository that
  fetches once and survives a sign-out: under nobody, or the previous user.
- **reset**: the link changes the account; sign-in compares with the profile's
  copy of the old password first.
- **schedule_lost**: the first day's own update raises an event that refills
  the form with the stored rows, before the loop has read the later days.
  `FirstSaveAsTyped` shows why this was easy to miss: the first calendar of a
  device is stored as typed, since no later row is there to come back.

Two bulk commands that overlap on two phones are part of `commands`:
`SuccessMeansApplied` excuses the devices somebody else wrote meanwhile
(`touched`), since nothing orders the two loops and their shutters may end up
mixed.

### Bounds, and why they are enough

Two devices (days) are the least for a loop to be interrupted between two
updates; two phones, users or calls in flight the least for one to get in the
way of another; three of either only repeat the same interleavings. One shutter
is enough for `converges` to reopen a dashboard after a save or a deletion; that
a command does so too, with a list that is not empty, is left to the proof of
`SettledCardsAreStored`. Which operations a model offers (`Operations`, `Buttons`,
`Switches`) is cut so that the runs stay small: `dashboard` has saves, deletions
and a command, `dialogs` everything a card opens. `MaxSaves` and `MaxCalls`
bound the calls in flight of a phone in `schedule` and `auto_play`, which run
with one phone: there the phone's own overlapping calls are the hazard. The two
loads of a page need one free place and may exceed `MaxCalls` by one, so that a
load is sent while a loop runs and answered between its updates. All
safety properties of the two modules are proved for any number of phones and
calls. `auto_play` has no phone that shows 24 hours; the unparsable text it
would store behaves as the empty one does. `MCDashboard`'s symmetry over phones,
users and tasks is used in `dashboard` alone, where no liveness is checked.
`MaxDepth` bounds the routes on the stack when the user opens one more; answers
may push beyond it. Five are enough for splash page, dashboard, drawer, a page
and a dialog or the loader; `Visits` has every page, and the proofs of section 4
need neither bound. `MaxChoices` bounds the languages chosen and not yet stored:
two, so that one can be stored after the other. No run disables the deadlock
check.

### Fairness

Only what is not the user's is fair. In `FairCommandsSpec` and
`SameUserFairSpec` the server answers the oldest request of a phone that is
connected and owed events are delivered: weak fairness of the answers, since
they stay enabled while the phone is online. `FormLoads` needs no more than the
answers to the calls of cards and dialogs (`AnswerFairness`,
`SameUserAnsweredSpec`). Whether a phone is online is not assumed:
`LoaderCloses`, `FormLoads` and `DashboardConverges` are conditional on a phone
that eventually stays connected (for the last one: stays in one session, is not
killed, sends nothing more, and nobody writes any more). In `Authentication` the
calls to Firebase are answered, with success or an error, and so are the calls
of `Navigation` (`ScreenFrees`; a phone that stays offline keeps its loader, as
`LoaderCloses` says). Taps, kills,
rejections and minutes are never fair. `DashboardConverges` and `FormLoads` are
checked without changes of user: the controller of the previous session stays
alive and its list is not rebuilt before the next event.

### Mutants

Every property of a passing run has a mutant of the code that breaks it: an
operator just before the mutated one, whose comment says `Mutant of`, makes a
plausible mistake (a loop that stops early, a `catch` outside the loop, `set`
for `update`, a loader left up). `mutants` in `PROJECT.json` pairs them.

## 4. Proofs

TLAPS proves these for all values of the constants, from the named assumptions
of the modules: constants do not collide with `Null`, devices are natural
numbers, the calls that share a connection are the bulk command and the tasks, a week has a day, a day a minute, a user a device, the default
language is one, and calls are no routes.

| Theorem | Argument |
|---|---|
| `StoreOwnedComplete` | inductive as it stands: a save writes every child, a patch takes none away and leaves the owner |
| `CommandsLoopInvariant`, `CommandsNoDeviceSkipped`, `CommandsSuccessMeansApplied` | `CommandsInv`: the types and, for each phone, `LoopAt`: what the loop has not to do and nobody has touched carries the patch, and what it has to do lies behind what it has done. Needed because `LoopInvariant` says nothing of the order in which keys are left |
| `DashboardTypeOK` | inductive: one step per action |
| `DashboardImplementsStore` | the refinement mapping is the identity on `db`; every step saves or removes one key, writes the children of one of the app's updates there (`UpdatedLemma`), or leaves `db` alone |
| `DashboardOwnedComplete` | from the refinement and `StoreOwnedComplete` |
| `DashboardSuccessMeansApplied` | the loop invariant carried through every operation of every phone; a write of anyone else marks its key as touched |
| `DashboardLoader` | inductive per phone (`HolderAt`): a call opens the loader only where it is free, unless the dashboard was pushed over it |
| `DashboardSettledCards` | `ListInv`: a phone that is owed no event has a listener, and its list is the one built from its view; a connected phone has heard what is stored. Needed because the list follows the view and not the database: only where none of the phone's own writes is unanswered do the two agree, and a dashboard that is closed and opened again starts from an empty list, so that the event its listener is owed is owed from the moment it was closed |
| `DashboardRequests` | inductive per phone (`RequestAt`); sending adds the call to a wire that does not have it, an answer takes the first one off (`SentAppend`, `SentTail`) |
| `AuthenticationPasswordsAgree`, `AuthenticationSignUp` | `AuthInv`: types, what a call in flight knows, the sign-up invariant and the agreement. The agreement alone is not inductive: storing the profile is right only because the phone that stores is the one that created the account |
| `SchedulePrefixStored` | `ScheduleInv` adds `SavesFollowPrefix`: an update under way for a day has all days before it stored |
| `ScheduleRowsAreDays` | from `ScheduleInv`: the view of a phone, its own updates included, is a prefix of the week too (`ViewPrefix`), so the rows it counts are the days 1 to n (`FirstDays`), and a list of n of them without repetitions, sorted by day, is the list of these days (`SortedLemma`, by the least row out of place; its length is counted with `FiniteSetTheorems`) |
| `ScheduleFirstSaveAsTyped` | `FirstSaveInv`: while nobody interferes with a first save, the view has exactly the days it has sent, with the rows of the tap, and the form still shows those rows. Needed because each of the save's own updates refills the form |
| `LocalizedTypeOK`, `LocalizedShownIsKept` | `LocalizedInv` adds that a choice made before the load upsets the phone, and the type of the pages |
| `LocalizedImplementsSchedule` | every step is one of `ScheduleController` or leaves the calendar alone: `SchedulePrefixStored` holds in every language the phone may change to |
| `LocalizedOneLanguage` | `MotherInv`: until another language is chosen, the preferences, the choices under way, the screen, the schedule pages and the forms of all phones are in one language. Needed because what is stored was named when the page was opened, long before |
| `LocalizedCalendar` | from the refinement: the three promises of the calendar in the composition |
| `LocalizedMotherRows` | from `MotherInv` and `RowsAreDays`: a view has the days of the database and of the phone's own form, and both are in the language of the phones |
| `NavigationTypeOK` | inductive; `Mounted`: the dialog of an update that still has one is where the call says |
| `NavigationLoaderOnTop`, `NavigationLostBy`, `NavigationSuccessIsSeen` | `NavInv`: the types, `Waiting` (the splash page's timer runs only on a fresh stack) and `Ordered`, which adds to `LoaderOnTop` that the bottom route is a page and that a page is below the loader. Needed for a popped dialog never to be the last route, and for GetX's current route to be right when the loader is gone. `Shapes` shows that each step rests, moves, opens, closes, starts again or loses the order |
| `NavigationImplementsFlow` | from `Shapes`: the five shapes are the five steps of `PageFlow` |
| `AutoPlayDueOpened` | inductive with the types; what an answer does to the queue of requests is `GoOnLemma`, that nothing on its way is dropped is `StaysOnItsWay` |
| `AutoPlayLastChoiceWins`, `AutoPlayTimeShown` | `ChoicesInv`: the types, `LoopShape` (what a loop in the queue looks like) and `ChoiceInv` for the switch and for the time: of the calls of a kind in flight the last is the one least far along the list, it writes what was asked for, and the devices it has passed hold that. Needed because an older loop, further along, may still write, but only to devices the last one has yet to reach. `Newest` singles that call out, and `NewestAdvances` shows that an answer never lets an older one fall behind it |

`CommandsTypes`, `AuthenticationTypeOK`, `ScheduleTypeOK` and `AutoPlayTypeOK`,
the type invariants, are proved on the way.

Only model-checked: everything temporal under fairness (`LoaderCloses`,
`DashboardConverges`, `FormLoads`, `CallsEnd`, `ScreenFrees`), which is out of
the prover's reach. Of two of them the part that does not depend on fairness is
proved: `DashboardSettledCards` says that `DashboardConverges` needs no more
than the delivery of events that are owed, `DashboardRequests` that
`LoaderCloses` needs no more than answers to requests that were sent. Every
invariant and every action property of a passing run is proved.

## 5. Plan

Done: the modules above. Next, in this order:

1. Auto play across a change of user, and a run with two phones that change the
   setting; a 24-hour phone.
2. `Navigation` composed with `Dashboard`, where the loader is still a resource
   (`loader.over`) and a tap is possible wherever no loader is up.

## 6. Reading the modules beside the code

`map` in `PROJECT.json` names, for every definition that models code, the lines
it stands for. Definitions marked external are the Firebase SDK, its server and
the connection, modelled from how the code uses them.

## 7. Not modelled

- Form validation (`validations.dart`): pure string checks before any state
  change.
- Error wording and snackbars: that a call ends with success or an error is in
  the models, the text is not.
- The network manager: its only use, in the sign-up, is commented out.
- The clock of the drawer, themes, pages without logic, start-up and platform
  code.
- `ios/Pods` and the `windows`, `linux` and `macos` runners. More than a million
  lines of C, C++ and Objective-C, nearly all of the repository by size, are
  libraries CocoaPods installed (gRPC, BoringSSL, abseil, leveldb, the Firebase
  SDKs) or templates Flutter generated. They are not this program's logic; what
  the app relies on of them (the order of requests, events from the local cache,
  writes held back while offline) is modelled from how `lib/` uses it and marked
  external. Measured against the whole repository the share of mapped lines is
  therefore close to nothing; of the app's own logic under `lib/` every
  controller, repository and dialog that changes state is mapped.
- The firmware of the shutters, which reads the same database; no part of it is
  in the repository.
- Security rules of the database; a rejected request may come from them.
