# DikuMUD II (Valhalla): specifications

TLA+ specifications of the server in `src/dm-dist-ii`: the parts of it where
several things happen to the same data in an order nobody wrote down. TLC
checks small instances of each module, TLAPS proves what is most important for
every instance. Paths below are relative to `src/dm-dist-ii`.

| module | what it is | checked by | proved in |
|---|---|---|---|
| `Combat` | fights and the turn of `PerformViolence` | `MCCombat*` | `CombatProofs` |
| `EventHeap` | the event queue of `main.c` and the clock | `MCEventHeap` | `EventHeapProofs` |
| `Agenda` | what that queue promises (abstract) | as a property of `EventHeap` | `EventHeapProofs` |
| `Lifecycle` | units, affects, special functions, destruction | `MCLifecycle*` | `WorldProofs` |
| `Session` | login, play, link loss, saving | `MCSession*` | `SessionProofs` |
| `Mplex` | the multiplexer, its link, ids, the server's descriptors | `MCMplex*` | `MplexProofs` |
| `Hooks` | sockets, their queues, and the walk of `Wait` over them | `MCHooks` | `HooksProofs` |
| `Streams` | what a connection promises (abstract) | as a property of `Hooks` | `HooksProofs` |
| `PlayerFiles` | the players' files and ids, with crashes | `MCPlayerFiles`, `MCPlayerIds` | `PlayerFilesProofs` |
| `Vault` | what those files promise (abstract) | as a property of `PlayerFiles` | `PlayerFilesProofs` |
| `Belongings` | inventories, corpses and persistent units, with crashes | `MCBelongings*` | `WorldProofs` |
| `Dil` | programs of units: activation, frames, secures | `MCDil*` | `DilProofs` |
| `Units` | units inside units: weight and counts, extraction and freeing | `MCUnits*` | `WorldProofs` |

## 1. The system

One server process, one thread. `game_loop` (`main.c:449`) repeats four phases:
`game_event` reads the links and runs at most one command per descriptor,
`event_process` runs the events that are due, `clear_destructed` frees what was
destroyed meanwhile, and `tics` is increased. Everything else is called from
these phases, often re-entrantly: a tick function or an attack may kill, extract
or create the units that its callers further up the stack are working on. That,
and not threads, is where the interleavings come from: every specification here
takes one call-out of the code (a tick function, a melee round, a command) for a
point at which any operation may happen.

A second program, the multiplexer (`Mplex/`), holds the players' connections and
talks to the server over one stream.

### Components

**Combat scheduler** (`combat.c`). State: a `cCombat` per fighter (opponents,
melee target, time of the next action, buffered command) and the global sorted
array with the member `nIdx`. Operations: `set_fighting`, `stop_fighting`,
`changeSpeed`, `setCommand`, `setMelee`, and `PerformViolence` once per turn.
Used by damage and death, spells, the interpreter and extraction. Hard: the walk
over the array calls out to code that removes entries of it, the current one
included, and opponents are kept on both sides by code that deletes itself.
Correct when: opponents are mutual, the array holds exactly the living
`cCombat`s, nobody who is destroyed fights, and nobody is charged for, robbed
of, or given a turn that is another's.

**Event queue** (`main.c:409-663`). State: an array heap of (when, function,
arguments). Operations: `event_enq`, `event_deenq`, `event_deenq_relaxed`,
`event_process`. Hard: called re-entrantly from the very events it delivers;
lazy deletion; index arithmetic. Correct when it is an agenda: every order is
delivered once, in time and in order of time, unless it was dequeued.

**Affects** (`affect.c`) and **special functions** (`mobact.c`, part of
`handler.c`). State: lists on the unit, one event each. Operations: create,
destroy, beat, start and stop with the owner. Hard: an event holds a raw pointer;
the function that is called may destroy its own affect or its own unit; an effect
that cannot be taken back is retried later; a player's affects sleep in the menu.
Correct when: no event outlives what it points to, nothing ticks after its
unit left the game, and nothing in the game loses its heartbeat.

**Destruction** (`destruct.c`). State: the registered units, affects and
functions. Operations: `register_destruct`, `is_destructed`, `clear_destructed`.
Correct when: what runs is not freed, and what is registered is freed in the end
or goes back to the menu.

**Login and session** (`nanny.c`, `system.c:226-430`, `dbfind.c`, parts of
`act_other.c`, `act_wizard.c`, `spec_procs.c`). State: `descriptor_list`, each
descriptor's `fptr` and `character`, `CHAR_DESCRIPTOR`, `no_players`, the files.
Operations: one per question of the dialogue, entering, saving, quitting, losing
the link, being thrown out, purged or deleted. Hard: every question decides from
what it sees at that moment, and the same name may be at several questions at
once, in the game, and link dead. Correct when: descriptor and character mirror
each other, a name is in the game once and has one session, and the assertions of
the dialogue hold.

**Player files** (`pcsave.c`). State: a file per player, one temporary file,
`players.id`. Operations: `save_player`, `load_player`, `delete_player`,
`new_player_id`, `player_file_index` at the boot. Hard: the process may die
between two writes; what was read at the name is used, or written back, long
after. Correct when: what is found is a player as saved, whole, and nothing of
somebody else.

**Inventories and persistence** (`reception.c`, `persist.c`, `create.c`). State: a
file per inventory, a file per persistent unit with a function on the unit that
renews and removes it. Hard: a unit with a file of its own may be put into a
player or a corpse that is saved as well; a death writes three files. Correct
when: no crash between two writes loses what is about to be saved, and each file has
one unit that keeps it.

**Links and protocol** (`system.c:435-700`, `protocol.c`, `select.c`, `queue.c`)
and the **multiplexer** (`Mplex/`). State: hooks with queues in both directions,
framed messages, consoles with ids. Hard: requests are answered anonymously, ids
are 16 bits, links break with messages under way, hooks vanish during the walk
over them. Correct when: each text goes to the console its session belongs to, no
console waits for, or talks to, nobody, and no session is left without a console.

**Unit handling** (`handler.c`). State: `inside`, `outside` and `next` of the
units, and in each unit what it weighs, how many characters are in it, how bright
it is and how much light is in it. Operations: `unit_up`, `unit_from_unit`,
`unit_to_unit`, equipping, `modify_bright`, `trans_set`, `weight_change_unit`,
`extract_unit`. Hard: every sum is changed step by step where things move; a program
may put anything into anything, into what is already destroyed, too; and all loops
go outwards until there is nothing around. Correct when: nothing is inside itself,
nothing is in what has been freed, and the sums are the sums.

**DIL** (`dilrun.c`, `dilinst.c`, with the expressions in `dilexp.c` and
`dilfld.c`). State: programs with a stack of frames, each with variables, secured
units and interrupts; flags and `waitcmd`; `dil_list`. Operations: activation by a
message or a tick, the instructions, `dil_copy`, `dil_destroy`, `dil_free_prg`. Hard:
an instruction may run any other handler, which activates other programs, tells
this one to quit, or extracts its unit; units are freed while programs wait.
Correct when: what runs is not freed under the loop, what lost its owner does not
run, and a variable that was kept points to a unit that is still there. `DMC/` and
`DIL/` compile offline.

**Damage and death** (`fight.c`): positions, kill, corpse, experience. **Zones** (`zone_reset.c`, `db.c`), **money,
bank, accounts**, **boards and mail**, **justice**, **weather, shops, bans,
competition**, **spells, skills and commands**: sequential services on top.

`PROJECT.json` lists all of them with what is modelled of each, and the hazards
of the code at the lines where they bite.

## 2. The modules and the code

### Combat

| state | code |
|---|---|
| `opponents[c][d]` | how often `d` is in `CHAR_COMBAT(c)->pOpponents` |
| `combat`, `melee`, `when`, `cmd` | `CHAR_COMBAT` not null, `pMelee`, `nWhen`, `cmd` |
| `list`, `cursor` | `CombatList.pElems`, `nIdx + 1` |
| `current`, `errand`, `anyAction` | the locals of `PerformViolence` while it calls out |
| `heir` | the owner of the `cCombat` at the address of the deleted `tmp` |
| `stopping` | who `stop_fighting(ch, NULL)` is in its loop for |
| `destructed` | `DR_UNIT` |

`SetFighting`, `StopFighting`, `StopAllFighting`/`StopLoop`, `ChangeSpeed`,
`SetCommand`, `SetMelee` and `Extract` are whole calls, possible between turns and
whenever `PerformViolence` has called out (`Running`). `StartTurn`, `Act`,
`Idle`, `Return` and `EndSweep` cut `PerformViolence` at its call-outs. `qsort` is
not stable: `SortedForms` is the set of its possible results. When the actor's
`cCombat` was deleted, the pointer that `combat.c:153` compares with the element now
under nIdx is a freed one, and the next `cCombat` that is made may have got its memory:
`heir` is whose that is, and `Payers` has who is charged then, be it the actor come
back or somebody who never struck.

Abstracted: `CHAR_POS`, and that a fighter who cannot fight is skipped by
`melee_violence` (the operations a call-out performs are arbitrary anyway); the
growth of the arrays. `attacks`, `steady`, `visited`, `passed` and `ops` are
history variables.

### EventHeap and Agenda

`heap` is `event_heap[0..events-1]`, from 1. `Enqueue` puts the element at the
end and `RollUp` is one round of the loop that follows; `Take` removes the top,
`RollDown` is one round of the loop of `event_process`, `Call` its end with the
call. Nothing else runs between those rounds (`Idle`). `Dequeue` clears
functions and moves nothing, as in the code. `Tick` is `tics++`, which
`game_loop` reaches only when `event_process` finds nothing due. The array's
growth and the overflow of `tics` are left out. `Agenda` says what callers may
rely on; `ImplementsAgenda` maps the heap to the bag of its live elements, with
the element that is being delivered still in it until it is called.

### Lifecycle

| state | code |
|---|---|
| `unit` | not loaded, in `unit_list`, a loaded PC outside it, registered `DR_UNIT` |
| `link` | PCs with `CHAR_DESCRIPTOR` |
| `thing`, `owner`, `duration` | affects and functions: free, linked, registered |
| `due`, `later` | how many events of each are in the queue for this cycle, for later ones |
| `phase`, `running` | where `game_loop` is, whose tick function runs |
| `starting` | the affects whose first function runs in `create_affect` |
| `entering` | who `enter_game` has put into the game and not yet started |

Actions in `input`, or while a tick function runs: `Load`, `LoadIntoGame` (`do_load`),
`EnterGame`, `Extract`, `CloseInMenu`, `CloseInGame`, `Reconnect`, `CreateAffect`,
`DestroyAffect`, `CreateFptr`, `DestroyFptr`, `ResetFptrTimer`. `AffectBeat` and
`SpecialEvent` run up to the tick function, `CreateAffect` up to the first function,
`EnterGame` up to what it calls out to, and `...Ends` from the return; all of these
operations may come in between. `ClearDestructed` does all of `clear_destructed`: a
unit's own affects are registered while it runs and freed a cycle later, exactly one
cycle as in the code.

Two things go wrong there, and the properties say how far. `create_affect` orders the
event of an affect after its first function, which may have destroyed it, or killed
its owner: `stray` remembers such affects, and whatever gets their memory, until
their events are taken out. When such an event fires, `affect_beat` reads a freed
affect (`StrayBeat`), or follows its pointers into nowhere, and the server boots
(`Dies`). And what is created on a player in the menu (`nanny_dil`), or by what
`enter_game` calls, has its event before `enter_game` orders one for everything:
`early` remembers what has, until it is dequeued. No property excuses anything else.

Abstracted: times (an event is due now or later), transfer affects (`id < 0`) and
affects without a beat (both have no event), what apply functions add up to, and
the last functions of affects (`lastf`), which are not run inside `Unlink`.

### Session

| state | code |
|---|---|
| `fptr`, `character` | of each descriptor in `descriptor_list` |
| `body` | PCs in memory: place, `CHAR_DESCRIPTOR`, name, guest or not, password or not, version |
| `file` | the version in the player's file |
| `players` | `no_players` |
| `overdue` | descriptors with a `logon` 20 minutes ago (`check_idle`) |

One action per question of the dialogue (`GetKnownName`, `GetNewName`,
`NameConfirm`, `NewPwd`, `PwdConfirm`, `ExistingPwd`, `WrongPwd`, `Throw`, `Motd`),
the menu (`SaveInMenu`, `LeaveMenu`, `KillConfirm`, `EnterGame`), play (`Progress`,
`DoSave`, `Autosave`, `Quit`, `LinkDeadLeaves`, `Purge`, `DeletePlayer`) and the two
things that happen from outside (`CloseLink`, `ClearDestructed`). `Cut`, `Written`
and `Disconnected` are `descriptor_close` for a set of descriptors, as
`nanny_throw` needs it.

Abstracted: the order of the lists (any match may be the first one), passwords
(set or not), a version number for all that `save_player` writes, the menu's
submenus (only that leaving them saves), accounts, snoop and switch. A body that
is extracted without a descriptor is freed at once instead of at the end of the
cycle: nothing looks at it in between.

### Mplex

| state | code |
|---|---|
| `con` | `connection_list`: `m_pFptr`, `m_nId`, `IsHooked()` of each `cConHook` |
| `mud` | the link of `MudHook`, or none |
| `left` | history: the ids consoles had from earlier links when they got this one |
| `ends`, `up`, `down` | which program has a link open, and the messages under way on it |
| `backlog` | links the system has accepted and `cMotherHook` not yet |
| `multi`, `succ_err` | the link of each `Multi.Multi[]`, its count of unknown ids |
| `desc`, `nid` | `descriptor_list` with `d->multi` (a slot, not a link) and `d->id` |
| `phase` | where `game_event` and `game_loop` are |

The two programs are two processes that share only the messages. The
multiplexer's actions are the inputs of `cMotherHook`, `cConHook` and `cMudHook`
and the two steps of `Control`; each `read_mud` is one action per kind of message.
The server's are `cMotherHook::Input` (at most once per cycle, before the links are
read, for it was hooked first), one message of `cMultiHook::Read`, closing a
session by a command or an event, and `multi_clear` at the end of `game_event`.
Either program may be restarted, the network may fail (`Broken`: the reader gets
an error although the other end is open), and a write of the server may fail
(`WriteFails`: `PushWrite` takes the hook away, and the sessions stay until
`multi_clear`, in which time the slot may have another link).

A write of the multiplexer may fail as well (`MudWriteFails`): `MudHook` goes without
`mud_went_down`, the consoles keep their ids, and `test_mud_up` opens another link on
which they use them. There such an id is nobody's, so that its player is talked to
by nobody, or somebody else's; or it is that of a session the server still has in
another slot, and the assertion of `system.c:513` stops the server (`AssertFails`, an
action of `Next`). That is what the code does, and none of `Matched`, `OneConsolePerId` and
`SessionOnItsLink` holds of those ids. `left` remembers for each link which ids the consoles
brought along to it, and the properties except these and no others: they say that the
failed write is the only way to each of the failures, through everything that follows
from it, and that it harms only those who kept an id. `WaitingIsAnswered` has no
exception. What the assertion itself claims is `AssertionHolds`, which `MCMplexWrite.cfg`
finds violated.

Abstracted: the bytes of the frames, texts, host and setup messages (`data`), the
paging and editing of lines, the limit on connections, the order of
`connection_list`, and ids above `MaxIds`.

### Hooks and Streams

| state | code |
|---|---|
| `pfHook`, `nIdx`, `nMax`, `newid` | of `cCaptainHook`; `nIdx` up to `nTop` |
| `fd`, `id`, `qTX`, `qRX` | of each `cHook`: the mother hook and `Multi.Multi[]`; a queue is a sequence of elements |
| `at`, `wait` | where `Wait` is; its copies `nTable` and `nId` with what `select` found, and the hook it is at |
| `busy` | the hook whose `PushWrite` is in its loop |
| `inn`, `hung`, `backlog` | the system's side: bytes to be read, the other end gone, connections not accepted |
| `said`, `told`, `got`, `heard` | histories: messages written and sent to us, bytes the system took, frames handled |

`Hook` and `Unhook` are those of `cCaptainHook`; an unhooked hook keeps its queues
until it is used again. `Write` puts a message into the queue, and `PushRound` is a
round of `PushWrite`, of which the system takes any part; `PushError` is the write
that fails. `Select` is `Wait` up to `select`, `Scan` and `Flush` the two halves of
its loop, in which a descriptor counts only while its hook and id are those of the
copy (`Same`). Between the halves are `Accept` and `TurnAway`, `cMotherHook::Input`,
or the rounds of `cMultiHook::Input`: `Read` takes what the system gives, any part of
what was sent, and parses one frame (`Parsed`), in which the message's handler may
write (`Write`) or close (`Close`). A read that ends or fails drops the frames read
in the same call with the link (`ReadError`), as `read_to_queue` does.

A byte is the k-th of the j-th message of a connection, so that a byte that gets
into another stream, or to another place, is told from the right one. A header
tells the length of the text, which is all that is looked at; that a frame begins
with the wrong byte (-2, after which `Input` calls again without a cut) is not
reached as long as the streams hold. `Streams` has neither descriptors nor
elements: a connection is opened, closed, and two sequences of bytes go through it.
`ImplementsStreams` maps a connection to the hook that has its id, and a queue to
the bytes in it. It is what `Mplex` takes for granted of a link: messages come
whole, in order, and none of an older link.

In the server the listening socket is hooked first and stays in front of `nIdx`:
what `Wait` accepts comes before anything is unhooked, so that the comparison of
ids is a precaution there.

### PlayerFiles and Vault

| state | code |
|---|---|
| `ply`, `tmp`, `inv`, `idFile` | the files: the player's, `player.tmp`, whether there is a `.inv`, `players.id` |
| `up`, `closing` | the process; `mud_shutdown` |
| `place`, `rec` | of a player in the world: with or without a link, the character |
| `copy` | `d->character` of the session at a prompt or in the menu |
| `nextId` | `player_id` |
| `job` | the handler that is writing: for whom, which write is next, what is written |

A handler that saves is cut at its writes: `OpenTmp`, `FillTmp` and `Rename` are
`save_player_disk`, `SaveContents` is `save_player_contents` with the rest of the
handler, `RemovePlayer` and `RemoveInventory` are `delete_player`. Nothing else runs
between them (`Idle`) but `Crash`, which is possible at any point, and the loss of
the buffer of `players.id` with it (`PurgeCache` is `fopen_cache` closing that file for
another). `Boot` is `player_file_index`. `Vault` has a record, a live player and
what was ever stored, and none of the stages; `ImplementsVault` maps `ply`, `rec`
and `past` to them: a login brings what was stored once, a save stores what is live,
a failed login writes back what was stored once, and a crash only takes the live.

Abstracted: a character is an id and how far it got; the sessions of one name are
one here (`Session` has several); passwords, accounts and the text of a record.

### Belongings

| state | code |
|---|---|
| `known`, `inv`, `pers` | the files: of players, of inventories, in `persist/` |
| `inside`, `at` | the players in the world; what is in the room and on them |
| `pt` of a thing | `struct persist_type` of the function `SFUN_PERSIST_INTERNAL`: file, weight and place of the last save |
| `job` | the handler that is writing: the files `send_saves` removes, then the file itself |

`Enter`, `Get`, `Drop`, `Loot` and `Put` move things; `Save`, `Leave` and `Die` start
the handlers that write; `Tick` and `TickInside` are `persist_intern` on its tick,
`Decay` the end of a corpse; `EraseFile`, `WritePersistent`, `WritePlayer` and
`SaveContents` are the writes, and `Crash` may come between any two. `Boot` is
`persist_boot`: `base_load_contents` returns the unit read last (`LastRead`).

Abstracted: the order in a container (any unit of it may be the last), weights
other than how many, rent, slime, the room a thing is in, money; and that
`make_corpse` leaves on the dead what has a `UNIT_MINV` above his level (`create.c:78`): here
nothing players carry has one. A clean exit is
for things the same as the loss of some links and a crash.

### Dil

| state | code |
|---|---|
| `prg` | `dil_list`: owner, `DILFL_EXECUTING`, `DILFL_DEACTIVATED`, whether `fptr->data` is the program, `waitcmd`, frames |
| a frame | one variable of type unitptr, and `secure[]`; `lab` is false in the list of a foreach |
| `stack`, `inside` | the nested calls of `run_dil`; whether the innermost is in its loop or in a call to the outside |
| `life`, `loc` | of a unit: registered, freed; where it is, as `scan4_ref` sees it |

`Activate` is `function_activate` with `run_dil` up to its loop (`Begin`: an interrupt
skips it, the fifty-first activation returns, or it runs). `Wait`, `Stop`,
`EndlessLoop`, `Quit` and `DestroySelf` are the five ways out of the loop, `CallOut` and
`CallDone` an instruction that runs other handlers and the `dil_test_secure` after it.
`Copy`, `Cast` and `DilDestroy` work on other programs, `Assign`, `SecureUnit`,
`Unsecure`, `Foreach`, `ForeachNext`, `Call` and `Return` on the frames. `Sub` is
`dil_sub_secure` with its swap, and `Tested` the loop of `dil_test_secure` over a list
that changes under it. `Clear` is `clear_destructed` with `CMD_AUTO_EXTRACT`.

Abstracted: what programs compute (any instruction may be next), all variables
but one, the interrupts but for their result, how programs are saved. A program
that stays marked as executing never runs again; its frames are dropped from the
model (`Husk`).

### Units

`w` holds `in` (`UNIT_IN`), `weight` and `chars` of each unit, the fields of
`unit_data`; `worn` is `OBJ_EQP_POS`, `gone` is `destructed[DR_UNIT]`; `own` is what a unit
weighs by itself. `refilled` is a history: what of `gone` was given a content since.
`Up` and `Down` are `intern_unit_up` and `intern_unit_down` assignment by assignment,
`From` and `To` the loop and the recursion around them (the loop with a count: no unit
is in more units than there are; and that it does end in nothing is proved).
`Containers` is the loop outwards of `unit_recursive`, which `Link` and `Heavier` use.
`Link` is `dilfi_lnk`, any unit into any other, destroyed or not, with the two conditions
of the code (`Allowed`); it stands for every command that moves something. `ExtractUnit`
is `extract_unit`: the inner ones before what they are in (`InsideOut`), each into the
void, where it waits. A unit that waits is in the void and can be linked elsewhere,
and other things into it. `Clear` is the end of the cycle: `destruct_unit` of what waits,
wherever it is by then, and of what is found inside. `ReadUnit` is the reuse of a
place for a new unit, which may be loaded into anything.

Two things go wrong in the code when programs handle destroyed units, beyond what
`GoneIsEmpty` allows for. `extract_unit` of something with a destroyed unit inside does
not end, since the recursive call returns at once and the loop finds the same unit
again: the guard of `ExtractUnit` leaves this out, and `MCUnitsHang.cfg` shows that it
is reached. A destroyed unit inside of a destroyed one is freed with it, and then again
for itself; `Clear` does it once, as the second time reads freed memory.

Abstracted: money and the order of contents; widths, which are not reached; players
in the menu, who are in nothing. The sums of light are left out because the code
does not keep them: glass in glass leaves its light on the room (`handler.c:616`), a lid
that closes does not take back what shone through (`act_movement.c:1066`), what is
equipped twice shines twice (`dilinst.c:2394`), and `setbright` takes what shines through
glass for the unit's own (`dilinst.c:193`). No statement about them that a reader would
want holds.

## 3. What is checked

| run | instance | what it shows |
|---|---|---|
| `combat` | 3 fighters, one with speed 8 and two weapons, two alike with 12, 2 operations per turn | all invariants of a sweep, and of fights that end and begin again in a turn |
| `combat_turn` | 2 fighters, 3 operations per turn, fair | turns and `stop_fighting` loops end |
| `event_heap` | 2 events, delays 1-3, at most 5 elements, 2 tics | nothing late, implements `Agenda` |
| `lifecycle` | a monster, a player, 1 affect, 1 function, 3 operations per cycle, fair | pointers, heartbeats, the menu; what is destroyed is reclaimed |
| `session` | 3 descriptors, 2 names, 4 bodies, 1 change | sessions of one name |
| `mplex` | 2 consoles, 2 links, 2 slots, 2 ids, 2 messages each way, 1 crash, 1 link with ids of an earlier one, 1 unknown id tolerated | consoles and sessions stay matched, but for ids kept over a failed write |
| `hooks` | 2 slots, 2 connections, messages of 3 and 2 bytes through a buffer of 2, fair | the tables agree, implements `Streams`, nothing stays in a queue |
| `players` | 2 players, 2 ids, 1 deed | nothing half-written is found, implements `Vault` |
| `belongings` | 1 player, 2 items, one of them NOSAVE, 1 corpse, 2 persistent files | who keeps which file; no write of a handler, and no crash between two of them, takes off the disk what it is about to save, but for what only a file held that it removes first |
| `dil` | 2 units, 2 programs, 3 frames and secures together | what runs is whole; which pointers may be loose |
| `dil_secure` | the same | **violated**: a foreach hands out a freed unit |
| `units` | 2 rooms (one is the void), a character, a flask to wear and fill, 2 bags | nothing is in itself, nothing is in what was freed, the sums add up, with programs that move what is destroyed |

**Bounds, and why they are enough.** In a fight three is the first number at which
removing one entry leaves two others on either side of `nIdx`, and at which
someone has two opponents; a fighter that strikes three times in a turn, beside
others that do once, gives more than one sweep per turn. Two
operations within a turn end a fight (a whole loop of `stop_fighting`, or of an
extraction, is one operation) and begin another, which is what free rounds and a
`cCombat` in the memory of a deleted one take; with two fighters there are three.
Five heap elements give a node
with two children and a node with one, on two levels, and every index of the
arithmetic. An affect and a function can destroy each other and their own unit, each from the
other's tick; three operations in a cycle are a call, one inside of it (a first
function, what `enter_game` calls) and one of a tick function after it, and what takes
more goes on in the next cycle; the safety properties are proved for any number. Three
descriptors are needed for two logins of one name beside a player; two names so
that a descriptor can change its mind; four bodies so that a link dead body can be
there beside three descriptors. One version above 0 tells an old save from a
new one. Two players are needed for an anonymous confirmation to find the wrong one;
two links and slots for one that is lost beside the one that replaces it; two
ids are one for each player, or one from before a restart and one after it; with
one tolerated unknown id instead of five the link is cut within the bounds, too; one
link with ids kept from another is enough for their farewells, for the assertion, and
for an id that is given anew while a console still has it.
One connection with a message longer than
the buffer and one that is not has a left-over at every place, and headers in
two pieces; the second takes its slot, or the one beside it, and must find nothing.
Two players are enough for one `player.tmp` and
one counter of ids to be shared, two ids for one to be given twice; one deed tells
an old save from a new one. One player who dies, comes back and loots has two
inventories and a corpse; two items make the corpse's file lose one of them and
make the last one read another than the top; two files are the corpse's and that
of a thing that was revived inside of it. Two programs
destroy, create and activate each other; two units are the owner and another; three
places are a frame with two secures (the least for the swap of `dil_sub_secure`
to skip one), or two frames and a secure. A flask in a bag
in a bag on a character in a room is as deep as sums and links get to be told apart;
with two bags a destroyed unit can be in another, beside one in the game, and links
could close rings of up to four, and an
extraction goes as deep. `MaxDrift` bounds how far `players` may fall, since it falls for ever
(see the findings). `MaxWhen`, `MaxOps`, `MaxBeats`, `MaxDuration`, `MaxTics`, `MaxLeft` and
`MaxEvents` are the other bounds, each in the guard of the actions that would pass it; `Watched`
says of whom `Combat` keeps the history that only `MCCombatSpeed.cfg` is about.

**Symmetry** is used for the two alike fighters in `combat`, for descriptors, bodies and
names in `session`, for consoles, links and slots in `mplex`, for players, persistent files,
programs with their units, and the bags in `units`, which are
interchangeable there, and in no liveness run.

**Deadlock** is checked in all runs but those of `session`, where a full house at its
bounds may have nothing left to do, of `hooks`, which ends with the last connection,
and of `dil`, where programs that stopped keep their memory for good and fill the
bounded places.

**Fairness.** Only what the one thread does by itself is fair: the steps of a turn
in `Combat`, the cycle of `game_loop` in `Lifecycle`, and in `Hooks` the steps of
`Wait`, which `game_event` calls in every cycle. `Drained` also needs the other end:
as long as it reads, the system takes a whole round now and then, and `select` tells
when there is room, though not the first time it could (strong fairness of `TakesAll`
and of a `Select` that finds the hook). Commands, link loss and
operations of tick functions need never come, and are bounded per cycle: a
tick function that never returns stops the server, and no property says
otherwise.

**Findings.** The violated run states what the documentation says of a foreach:
that it secures the units of its list, and that no loose pointers are left. When
one of them is extracted while the program waits inside of the loop,
`dil_test_secure` does not take it off the list, `clear_destructed` frees it, and
the next round of the loop puts it into the variable. `LooseBySecureOnly`
shows that, with this and the entry that the swap of `dil_sub_secure` skips, all
ways to a loose pointer are found.

**Counterexamples to run by hand.** Each of these configurations states what a
document, a comment or an assertion says of the program and ends in a violation:

| configuration | property | what happens |
|---|---|---|
| `MCCombatSpeed` | `TurnGivesEveryAttack` | a `break` in the sweep of `PerformViolence` (`combat.c:130`) leaves `bAnyaction` false and ends the turn: speed 4 does not always give the three attacks of `values.h:828` |
| `MCLifecycleFirst` | `NoEventForDestructed` | the first function of an affect destroys it, or kills the owner (`TIF_FEAR_CHECK`), and `create_affect` orders the event all the same (`affect.c:120`), against what `affect.c:25` and `destruct.c:66` say of a destructed unit |
| `MCLifecycleMenu` | `OneTimer` | a function that `nanny_dil` creates on a player in the menu (`nanny.c:584`), or that is created while `enter_game` calls out, is started a second time at its end (`nanny.c:401`) and ticks twice as often |
| `MCSessionCount` | `PlayersCounted` | a guest who loses the link is subtracted from `no_players` in `descriptor_close` and again in `extract_unit` (`system.c:404`, `handler.c:844`) |
| `MCSessionStale` | `EntersAsSaved` | the copy read when the name was typed (`nanny.c:1933`) enters the game although another session saved in between (`lib/help:2238`) |
| `MCSessionIdle` | `SavesTheLiving` | `check_idle` may save a guest who quit in the same cycle, which `pcsave.c:242` asserts cannot be |
| `MCMplexWrite` | `AssertionHolds` | after a failing write the multiplexer keeps old ids (`select.c:109`), and what it sends over a new link fails the assertion of `system.c:513` |
| `MCPlayerIds` | `UniqueIds` | `new_player_id` leaves the id in a buffer: after a crash it is given to somebody else |
| `MCBelongingsBoot` | `KeptByTop` | after a boot the file of a corpse is kept by a thing inside of it, for `init` stays true in `base_load_contents` (`reception.c:575`) |
| `MCUnitsFreed` | `OnlyExtractedFreed` | a program puts a unit of the game into a destroyed one, and `destruct_unit` frees it with that (`destruct.c:142`), though nobody extracted it and `is_destructed` never told of it: "the only problem" of `destruct.c:47` is another |
| `MCUnitsHang` | `NoExtractionHangs` | a program links a destroyed unit into another (`dilinst.c:1155`), which can then not be extracted: `handler.c:813` finds the destroyed one again and again |

Run one with `tlc -config MCUnitsHang.cfg MCUnits`; the module is the one its name
begins with (`MCPlayerIds` is of `MCPlayerFiles`).

## 4. What is proved

For any number of fighters, any speeds and any bounds (`CombatProofs`):
`TypeCorrect`, `PairsHold`, `CombatsHold`,
`DestructedHolds`, `CursorHolds`, `TurnsHold`, `ChargesHold`. Assumed are only the named assumptions of
`Combat` (null is no character, speeds are natural numbers).

The argument: none of these is inductive alone. That the cursor stays on the
actor needs that the list holds each fighter once; that needs that a `cCombat`
exists exactly while it has opponents; that needs pairs; and that
`stop_fighting(ch, NULL)` gets rid of everybody needs them all. `IInv` is their
conjunction with `ActorKnown`: when the actor's `cCombat` was not deleted there is
an actor. The list lemmas (`Without...`, `Shifted...`, `SortedForms...`,
`EnterProperties`) say what closing a gap, following it with the index, sorting
and appending do to a sequence without repetition; `SubOpponentKeepsIInv` and
`SetFightingKeepsIInv` carry the weight, `StepKeepsIInv` puts them together.

Two more invariants are inductive once `IInv` is known. `TInv`, for `TurnsHold`, says
that nIdx has on one side who was looked at and on the other who was not (`Swept`, which
`SweptWithout` carries through a removal), and with `Looked` that whoever was looked at
still fights: who leaves and comes back is a new entry at the end, which is not behind
nIdx. `PInv`, for `ChargesHold`, says that what a fighter's rounds have cost is in `when`,
but for the round under way (`Owed`); a `cCombat` that was made again has a whole turn
to wait, so that forgetting the old one pays for nothing.

For any set of events, delays and sizes (`EventHeapProofs`): `TypeCorrect` (the two
loops stay within the array), `OrderHolds`, `NothingIsLate`. `HeapOrdered` only speaks of
the heap outside the loops; inside them exactly one place is wrong. `BrokenAbove`
says so for the loop of `event_enq` (everything is ordered but the moving element
and its parent, and its children are under its grandparent), `BrokenBelow` for that of
`event_process`. With both, `IInv` is inductive. `TopIsLeast` (the top is not later
than any other element) is shown by taking the least index with an earlier
element, which has a parent; so no induction over the tree is needed. `NothingIsLate` is
part of `IInv` and no property of the run, where `ImplementsAgenda` says more: the
agenda's clock waits for all that is due.

`Refinement` says that `EventHeap` implements `Agenda`. The bag of the agenda is
compared by the copies of each record: as many places of the array hold it
(`Spots`), and one more is in `tmp_event`. A swap in either loop moves places and
changes no number, `event_enq` adds one, and `event_deenq` takes away those it kills;
that what comes up is the next that is due is `TopIsLeast` again.

For any units, affects and functions (`WorldProofs`): `TypeCorrect`,
`NoEventDangles`, `HeartbeatHolds`, `NoTickAfterExtraction`. Assumed are `SetAssumption`,
`NullAssumption` and `BoundAssumption` of `Lifecycle` (finitely many units and things,
null is none of them, the bounds are natural numbers). An event may be left behind
only if its thing's unit can go without taking it out, so `IInv` says where things may
be linked (`Linked`), that only a player with a descriptor waits in the menu
(`MenuHasLink`), and that nothing of this cycle is left when `clear_destructed` begins
(`Quiet`). That no tick comes after an extraction is `DueInGame`: what is due in this
cycle belongs to a unit that is in the game, or was begun in the menu. That
`enter_game` adds no more than one timer is `NotYetBegun`: who is outside, or still
entering, has none, and what was begun early has one; it needs that no function of
who is entering is running (`RunningIsOwned`), for `enter_game` is not called by a tick
function of the player himself, and that he does not leave to the menu before it
returns (`EntererInGame`).

For any descriptors, names and bodies (`SessionProofs`): `PairsHold`, `OneEach`,
`NobodyAtConfirm`, `NeverOverstated`, `TypeCorrect`. Assumed are `NoneAssumption`, `BoundAssumption`
and `DescsAssumption` (finitely many descriptors) of `Session`. `EnterGame`
does not look whether somebody of that name is in the game: it was looked up when
the session passed the login (`OnlyBody`), and is still true because nobody else of
that name can have passed it since (`OnlySession`). A session with a new name never
looks at the game at all; that there is nobody of this name in it follows from the
files: a saved body has a file unless its descriptor is closing (`SavedHasFile`), one
that was never saved has a descriptor (`GuestLinked`), which `find_descriptor` sees.
`ClosingKeepsIInv` and `ReconnectKeepsIInv` treat `descriptor_close` of a set of
descriptors, as `nanny_throw` does it, with and without a body to reconnect to. `Counted`, for
`NeverOverstated`, keeps `no_players` between the players in the game with a descriptor
and `MaxDrift` less: every way into the game counts one, every way out at least one.
The bounds in `TypeOK` follow, since no two of them have one descriptor.

For any consoles, links, slots and ids (`MplexProofs`): `TypeCorrect`,
`IdsHold` (with its two halves `ConsolesDiffer` and `SessionsOnTheirLinks`), `NobodyTalksToNobody`
and `WaitersAreAnswered`. Assumed are `FiniteAssumption` (finitely many
consoles), `NoneAssumption` (null is no link, no slot, and no pair of them) and
`BoundAssumption` of `Mplex`. An id means something only
to the start of the server that gave it, and slots and links are used again; so `IInv`
says what holds an id alive. A console keeps one no longer than its link, or it is
among those `left` has (`NoLinkNoId`), which are excepted from what follows. The ids that are in use around a link (`Used`: consoles', about to be
given to one, on their way to the server) were all given by the server that reads this
link, to sessions of this link (`Given`); the next id is thus used by nobody. A
confirmation is under way once (`GivenOnce`), a link is in one place (`OnePlace`) and
its sessions are in its slot (`LinkSlot`). The lemmas follow the steps by what they do to
a link: a message added (`WrittenShape`), taken off (`TailShape`), an end that hangs
up (`HangingUpKeepsIInv`).

`Matched` (for `NobodyTalksToNobody`) speaks of both ends of a link, each of which may hang
up while the other does not know. `MInv` says what is under way then: a session
that is gone is announced behind its own confirmation (`EndFollows`) or to a console
that still has the id (`Heard`), and only such a one is (`Told`); a session that is there
has a console, or its confirmation or its farewell on the link (`Reached`); the farewell
is the last that is heard of an id (`LeftFirst`), and a session stays in its slot as long
as its link is open (`SlotKept`). `WaitingIsAnswered` is a matter of counting: on
a link there are at least as many requests and confirmations as consoles that wait,
and no step leaves fewer of them while the link is up.

For any units, programs and memory (`DilProofs`): `RunningHolds`, `OrphansHold`,
`PointersHold`, `TypeCorrect`. Assumed is `DilAssumption` of `Dil` (finitely many units and
programs, null is no unit, there is some memory). Of the first two each needs the other: a program is in one
activation because `DILFL_EXECUTING` is set as long as it is, and its function is there
because `clear_destructed` comes when nothing runs, and who has lost it never starts.
`NobodyBegins` and `BeginKeepsIInv` treat the start of an activation, `PopKeepsIInv` its
end, `ClearKeepsIInv` the destruction.

`PointersHold` is about what is in the frames (`LooseBySecureOnly`). Units are freed while
no program is in an activation, so that it is enough that `run_dil` clears each frame
before it enters (`Secured`), that no instruction makes a freed unit known, and
that a program which is not cleared, because it never ran, has no pointer yet
(`Fresh`). What the loops over a list of secures leave of it is said once, by
`PartsOf`: for that the folds that model the loops are taken apart into recursive
functions (`LoopsOf`), about which one can argue by the length of the list. The same
for the sums over frames and programs gives the bound of the memory in `TypeOK`
(`Roomy`).

For any slots, connections, messages and sizes (`HooksProofs`): `TablesHold`,
`TypeCorrect`, and `Refinement`: `Hooks` implements `Streams`. Assumed are
`BoundAssumption`, `SizeAssumption` and `BodyAssumption` of `Hooks`. `IInv` adds to
`TableWhole` a `Shape` and that a free hook has no id (`FreeHasNoId`). `FilledProperties` says
that the last entry in the place of the one that goes leaves every other in `nIdx`
once, `MostIsGreatest` that the loop over them finds a greatest (the sets y..N are
well-founded, which spares an induction); `HookKeepsIInv` and `UnhookKeepsIInv` are
used by every action that changes the tables.

The streams need two more invariants. `WInv`: the mother hook stays at its
descriptor (`MotherStays`), and when `Wait` comes to it the connection it was told
of still waits, and has an id left (`OneWaits`, `Numbered`); it is the only one at that
descriptor, so that nothing else in the copy can take the connection first. `DInv`:
elements are never empty (`Typed`), nothing is kept of a connection that is down
(`Forgotten`), and what has been sent and not handled begins with a whole message
(`Aligned`), which is why the six bytes that `protocol_parse_incoming` looks at are a
header. Before them come the lemmas about `cQueue`: `Flat` of a concatenation
(`FlatOfConcat`), what `Cut` leaves (`CutProperties`: exactly the bytes that `Copy` did not
give, in elements that are not empty), that `Elements` loses nothing
(`ElementsProperties`). `PushEffect` and `ReadEffect` say with them what a round of `PushWrite`
and a call of `Read` do to the bytes, and `OneHook` that a step at one hook is a step
at the stream of its connection and at no other. With this each action is one step
of `Streams` or none (`StepRefines`).

For any players and any bounds (`PlayerFilesProofs`): `TypeCorrect`,
`NothingIsLeftBehind`, and `Refinement`: `PlayerFiles` implements `Vault`. Assumed are
`LimitAssumption` (the bounds are natural numbers) and `MarkAssumption` (the marks for
"nothing" and "half-written" are no records). The rename carries it: what it makes
the player's file must be a whole record which is the live one or was stored
before, so `IInv` says stage by stage what the handler has established (`JobKnown`,
`TmpKnown`), and that what a session holds was stored once and does not survive the
removal of its file (`CopyStored`, `PlyStored`). Every step is then shown to be one
step of `Vault` or none: a save is its rename, a removal its first `remove`, and a
crash takes the live away at whatever stage it comes.

For any players, things, file names and any number of crashes (`WorldProofs`):
`ThingsTypeCorrect`, `OneKeeper` and `SavedStays`. Assumed are `KindAssumption` (items are
no corpses, the room is no player, what may not be saved is an item) and
`NilAssumption` (null is no file, no thing, no handler and no content of a file) of
`Belongings`. `OneOwner` speaks of the time between two handlers only, while within one
files and keepers are out of step: `send_saves` takes the function of what is saved
inside of something else and then removes its file, a corpse keeps a file that is
not yet written. So `ThingsInv` says what is still to come: a unit keeps a file
exactly when the file is on the disk and not about to be removed, or about to be
written (`Kept`, with `Borne` and `Due`); no two units keep the same (`Single`); and the
handler never writes to a file that it removes first (`JobKnown`). When the handler is
done, `Due` is what is on the disk, and `Kept` with `Single` is `OneOwner`; at a crash there is
nothing to keep anything, and `BootKeeps` shows that the units `persist_boot` makes keep
the files they come from, whichever unit of a file was read last. That a save may
write what it does is `Shape`: nothing with `UNIT_FL_NOSAVE` ever has a file, so the corpse
or thing that keeps one is itself saved.

The sets of things and the things in them are spoken of in one way, by who bears which
file in which set (`In`, `Lone`): `PutIn`, `TakenOut`, `LessInside` and `MoreInside` say what that
is when a thing goes from one holder to another or out of a corpse, `TopRenewed`,
`InnerRenewed` and `RevivedKeeps` when it gets a file. A step is then one change at a holder
(`OneHolder`) or at two (`TwoHolders`). `SavedStays` looks at the writes of a handler one by
one: a removal takes only what is to be removed (what was on the disk in such a file
only is excepted), and the other writes put there what
was to be saved; that `save_contents` removes the file of a player with empty hands
loses nothing, since nothing was to be saved then (`JobKnown`).

For any rooms, characters and objects (`WorldProofs` again): `UnitsTypeCorrect`,
`NeverInItself`, `EmptyWhenGone` and `SumsAddUp`. Assumed is `UnitsAssumption` of `Units`
(finitely many units, each of one kind, the void a room, null no unit). `UnitsInv` is their
conjunction, with rooms being only in rooms (`RoomsInRooms`), so that what is extracted can
go to the void: none holds alone, for a sum over the
contents means something only where going outwards ends, and what is freed is what
is found inside. `NothingInItself` is well-foundedness (`Rooted`,
`Forest`), and a function defined by recursion along `UNIT_IN` exists because of
it (`Recursion`, `RecursionWorks`): `Containers` and `To` are such. The loops with a count
are taken apart by `LoopWorks`.

The sums are folds over sets, in an order that is not known; `TotalIsSum` shows that
the order does not matter, by the same way around induction as above, and `SumsTake` what
becomes of a sum when one unit leaves or joins. `AboveKeepsSums` says once that moving
a unit between a container and what is around it keeps all sums, whichever way, so that
`Up` and `Down` share it; `FromKeeps` and `ToKeeps` are the loop and the recursion.
Between the two the unit is in nothing and the sums are right for that. Extraction and
freeing take a set of units, each after all that is inside of it: `SubsetRecursion` and
`InsideOutEnds` say that this goes through the whole set and one at a time (`OneByOne`), and
`FromGathers` and `VoidGathers` what one of them does (`Gathered`: what is done with is where
it belongs, the rest where it was). `ExtractKeeps` and `ClearKeeps` conclude that all of
it is in the void, or in nothing, with nothing in it. `ShiftedIsFine` says for the steps that
move one unit (`Link`, `UnitUp`, `ReadUnit`) that what waits to be freed stays empty or is
marked; `HeavierKeeps` and `FreshKeeps` are a change of weight and a new unit.

Folds and recursive functions over sequences (`Cut`, `FlattenSeq`, the loops of `Dil`)
are chosen by `CHOOSE` in the library; the theorems about natural numbers and
sequences that would tell what they return take an operator as a parameter, which
the provers cannot instantiate. The proofs go around it by sets: the set of the
numbers (`FromZeroOn`), or of the sequences (`FromEmptyOn`), of which something is true is
all of them when it holds the first and with each the next. So they say what these
functions preserve and return without evaluating them.

Model-checked only: `TurnEnds`, `EverythingReclaimed` and `Drained` (liveness under fairness
is out of the prover's reach).

## 5. Not modelled, and the plan

In this order, the most exposed parts first:

1. An abstract specification for `Mplex` to implement: a matching of consoles and
   sessions in which each talks to at most one of the other; ids of 16 bits;
   several multiplexers.
2. The rest of the death sequence (`fight.c`: `die`, `damage`) with last functions of
   affects, joined to `Combat` and `Lifecycle`; snoop and switch joined to `Session`.
3. `sendtoalldil` with its walk over `dil_list`, and the interrupts of `dilrun.c`.
4. `money.c` and `bank.c` (conservation), `zone_reset.c`, `board.c`, `justice.c`,
   `blkalloc.c` and `blkfile.c`, `trie.c` and `namelist.c` against reference
   definitions.

Left out for good: the offline compilers in `DMC/` and `DIL/`, start-up and
reading the database (pure input), formulas and texts of spells, skills and
commands (content without state of its own), the ports to other systems.
