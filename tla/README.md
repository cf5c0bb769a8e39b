# Verification of JeanBot

JeanBot is the program of an e-puck2 robot that recognises the flag held in
front of its camera and dances to a song of that country (`src/src`, C on
ChibiOS).  This directory holds TLA+ models of it, the TLC runs that check them
on small instances, and TLAPS proofs of what holds for every instance.

File names below are relative to `src/src`; `rapport.tex` is
`src/docs/rapport/rapport.tex`, the project's report (in French).

## The system

| component | state | operations | talks to |
|---|---|---|---|
| `main.c` | – | `main`: hardware, camera and sensors, then the threads | starts `Dance`, then `ManageStates` |
| `state.c` | `ROBOT_STATE`; in the thread `country` (static) and `last_selector`; body LED | thread `ManageStates` (priority NORMALPRIO+1, every 100 ms), `get_robot_state` | calls `obstacle_detected`, `get_flag`, `stop_dancing`, `restart_dance` |
| `dance.c` | `is_dancing`, `music_position`, `current_song` | thread `Dance` (NORMALPRIO), `stop_dancing`, `restart_dance`, `change_figure` and the figures, `LUT_flag_to_music` | reads `get_robot_state`; wheels and DAC |
| `obstacle_detection.c` | LEDs | `obstacle_detected` (scan of eight sensors), `panic`, `unpanic` | wheels, LEDs |
| `flag_detection.c` | – | `get_flag`: one image line, `get_color` per pixel, `extract_color_bands`, `extract_flag` | camera |
| `music.c` | – | the four songs and `NO_MUSIC` | – |
| `chconf.h`, `halconf.h`, `mcuconf.h`, `Makefile` | – | build settings | – |
| e-puck2 library, ChibiOS | motors, DAC, camera, clock, scheduler | driver calls | not in the repository |

What is hard here is that two threads of different priority share the wheels,
the DAC and four static variables and use no lock.  `ManageStates` cannot be
interrupted by `Dance`, but it interrupts `Dance` anywhere: between the test of
the state and the motor commands, between the load and the store of
`music_position++`, in the middle of `stop_dancing`, or during the sleep inside
a note.  What makes each component correct:

* `Dance`: never indexes outside a song; stands still outside WAIT, or does so
  after the figure in hand; plays the notes of a dance in order and to the end;
  reads again the note it has tested; leaves neither a tone nor a motion behind
  when the dance is over.
* `ManageStates`: stops the old dance before a detection and starts a new one
  only with the flag just recognised; a turn of the selector is not lost; an
  obstacle stops the robot; a detection takes ten seconds at most.
* `get_flag`: the colour bands fit their array; a flag is the one whose colours
  the bands show.
* `music.c`: a song fits its arrays, and its durations their 16 bits.

The hazards, each at its line and with the properties that watch it, are in
`PROJECT.json`.

## The modules

| module | models | of |
|---|---|---|
| `Peripherals` | the wheels and the loudspeaker, which both threads drive | driver calls (external) |
| `Dance` | the thread, step by step, with `stop_dancing` and `restart_dance`; `DanceSpec`: the thread among arbitrary callers | `dance.c` |
| `ObstacleDetection` | the poll, `panic`, `unpanic` | `obstacle_detection.c` |
| `ManageStates` | the thread, from one blocking point or input to the next | `state.c` |
| `JeanBot` | both threads, `main`, the scheduler, the user and the obstacles | `main.c` and all of the above |
| `Recital` | what the audience is given, without threads: abstract | – |
| `SystemTime` | the arithmetic of `systime_t` | ChibiOS (external) |
| `DetectionWindow` | the clock of the detection loop | `state.c:46-52` |
| `SongBook` | the four songs and their durations in milliseconds | `music.c` |
| `NotePlayback` | one dance in time: durations, deadlines, lateness | `dance.c:133-176` |
| `ObstacleScan` | `obstacle_detected`, one sensor after the other | `obstacle_detection.c:47-68` |
| `PixelColor` | the bytes of a pixel, and `get_color` | `flag_detection.c:46-74, 268-281` |
| `ColorBands` | `extract_color_bands`, one iteration of its loops at a time | `flag_detection.c:76-194` |
| `FlagDetection` | `get_flag` around it, `extract_flag`, and the stripes and flags of a line by definition | `flag_detection.c:196-288` |
| `MCDance`, `MCJeanBot`, `MCNotePlayback`, `MCObstacleScan`, `MCFlagDetection`, `MCColorfulLine` | songs, readings and lines for TLC | – |
| `DanceProofs`, `JeanBotProofs`, `RecitalProofs`, `NotePlaybackProofs`, `DetectionWindowProofs`, `ObstacleScanProofs`, `ColorBandsProofs`, `FlagDetectionProofs` | theorems | – |

### How the models correspond to the code

**`Dance`.**  `dance` is the place of the thread.  Every access to a variable
that `ManageStates` may also access, and every driver call, is a step:
`is_dancing & (get_robot_state() == WAIT)` is two reads in either order,
`music_position++` a load into `index` and a store, `change_figure` a draw and
two motor commands, and the `stop_dancing` at the end of a song four steps.  The
tone that is played (`dance.c:140`) and the duration in the deadline
(`dance.c:160`) are read a second time, after their tests, and so is
`music_position` each time: `load_play` and `load_deadline`.  A read that a
compiler merges with an earlier one is covered: it is the behaviour in which
nothing happens between the two.  `stop_dancing` and `restart_dance`
exist a second time as single actions, for the thread of higher priority.
`last_note` is a history variable: the note that the dance has come to, once
`Dance` has read it.  `stop_dancing` and `restart_dance` clear it, and a note whose
position they reset after `Dance` had loaded it belongs to no dance.
The frequency played and the length of the sleeps are left open.  The two stores with which `Dance` itself runs
`stop_dancing` are taken in the order of the source.

**`ManageStates`.**  `Dance` sees `ManageStates` only where that blocks, so a
step may span several statements.  It ends where the thread sleeps, waits for an
image, or reads an input that may have changed since its last read: the selector
is read at `state.c:36`, again at 39 and again at 56, and the user may turn it in
between.  `get_flag` returns an arbitrary flag.  `GiveUp` may happen at every
test of the loop: how long that takes is the subject of `DetectionWindow`.

**`JeanBot`.**  `RunDance` is possible only when `ManageStates` does not exist
yet, sleeps, or waits for the camera.  `caught_up` and `strays` are history.
Two constants stand for what the code in the repository does not determine:

* `CameraYields`: whether `wait_image_ready` (in the library) blocks the thread
  or spins.  `rapport.tex:111` says of `ManageStates` and a detection that it "ne
  rend pas la main pendant ce laps de temps", which is FALSE.
* `Prompt`: whether a wait of `ManageStates` is long enough for `Dance` to come
  to its next sleep.  A wait lasts 100 ms or an exposure; the code of `Dance`
  between two sleeps some microseconds.

A constant that is TRUE for `CameraYields`, or FALSE for `Prompt`, only adds
behaviours.  So what is said to hold is checked with TRUE and FALSE, and proved for
all four combinations: no property rests on either.  And what is refuted by an
interleaving is refuted with FALSE and TRUE, as the report has it and with the fewest
behaviours: the counterexamples of `held`, `motion`, `first_note` and `lost_dance`
do not depend on the library or on an unlikely delay of 100 ms.

**`Recital`.**  The abstract robot chooses a piece, begins it, plays it note
after note, and finishes it or chooses again.  In `JeanBot` it chooses from the
turn of the selector to the end of the detection, performs while `is_dancing`,
its piece is `current_song`, and it has reached the note after `last_note`.
`GivesRecitals` is this refinement: a dance that has begun a note goes through all
notes that follow, none twice, to its last one, and only another detection breaks it
off.  It does not say with which note a dance begins.  `NextNote` may pass over the
first notes and `Finish` over all of them, because so does the code, when
`ManageStates` stops one dance and begins the next while `Dance` does not run, or
sleeps.  The run `first_note` shows a dance that begins with its second note; frozen
between the load and the store of `music_position++`, `Dance` gives the new dance the
position of the old one, whichever that is; and `lost_dance` shows a dance that is
over before its first note.

**`NotePlayback`.**  One dance, with the code of `Dance` taking no time and
`ManageStates` holding the core for some ticks between any two of its statements.
`chThdSleepUntilWindowed` is ChibiOS's: it sleeps if the current time is within
the window from `time` to the deadline, and otherwise returns at once.  `score`,
`elapsed`, `lag` and `held` are history: what the notes played so far should have
taken, what they took, and how long `Dance` was held, in this note so far or
beyond catching up.  Nobody exchanges the song or resets the position during the
dance modelled here; that a dance left alone is like that is `GivesRecitals`, and
that the duration in the deadline is the one tested is `SecondReads`.  Both leave
out the note that a stop or a restart overtakes.  Its deadline may use another
duration than its test did.  Of note 0 it is harmless: that one is longer than
`note_offset` in every song of `music.c` (`BookFirstNotes`, an assumption that TLC
evaluates).  But if `Dance` was frozen between the load of `music_position` and the
read of the duration from one dance to the next, it is the new song's at the old
position, which may be 0 behind the end of a short song: the deadline then lies
before `time`, and `chThdSleepUntilWindowed` sleeps until the clock has come round.

**`SongBook`.**  The tables as durations in sixteenths and the positions of the
silences.  `Milliseconds` keeps the order of the code, an integer division before
the product, and its 16 bits.

**`ObstacleScan`.**  The readings change at any moment between two reads.
`Decide` calls the `obstacle_detected` of `ObstacleDetection`, whose input
`obstacle` is here the maximum that the loop has found.  In `JeanBot`, `obstacle`
is therefore what a scan sees: that an obstacle that stays is seen, wherever it
stands, is `ObstacleSeen`; one that moves round the robot during a scan may be
missed by it.

**`DetectionWindow`.**  Times are taken modulo `Range`, as `systime_t` is.
Testing takes no time and an image 1 to `MaxFrame` ticks.

**`PixelColor`, `ColorBands` and `FlagDetection`.**  `PixelColor` puts the two
bytes of a pixel together and classifies it with the arithmetic of `get_color`:
components in eight bits, sums with a margin in an `int`.  `Camera` is the light before
that, three intensities of which the camera delivers the high 5, 6 and 5 bits.
`SeesStrongest` says when light has a hue: exactly when one intensity exceeds the other
two by its margin, but for the bits that are dropped, which are worth 7 at most.  The
margins are absolute.  So the class of a pixel does depend on the light: a red of level
2 of 31 is RED, half of it is UNDEFINED_COLOR, as `rapport.tex:312` reports from
practice.  What does not depend on it is which hue a pixel has if it has one: a change
of light that keeps the order of the three intensities, brighter, dimmer or dazzling,
never gives a pixel another hue (`LightKeepsHuesApart`, proved).  In `ColorBands`,
`get_flag` is called with any line of `Lines`, works through the five loops, and
returns (`Leave`), after which its arrays are gone.  `color_bands` is modelled as
far as memory goes, because the code does not bound its index; `BandsFit` says
that the index stays below `MAX_NUM_COLOR_BANDS`.  `FlagDetection` makes a line of
an image (`ColorLine`) and defines, without arrays or loops, which stripes a line
has: runs of at least `MIN_GROUP_SIZE` pixels count and their pixels are solid;
a stripe begins where such a run begins whose colour is not that of the one before
it, and is as wide as it has solid pixels up to the next stripe.  `Shade` is what
is left of the colours of the stripes when narrow ones lose theirs, `Marks` the
stripes at which that changes: there the bands begin.  `BandsRight` and `FlagShown`
compare the loops with it.

### Composition

`Dance` and `ObstacleDetection` extend `Peripherals`, `ManageStates` extends both,
and `JeanBot` extends `ManageStates`.  `DanceSpec` is what `dance.c` promises
whoever calls it: its environment `Caller` may set the state, stop the motors,
and call `stop_dancing` and `restart_dance` at any moment.  `JeanBot` implements
`DanceSpec` (checked in `async`, proved in `JeanBotProofs`), so what is proved of
`Dance` alone holds in the program.

`JeanBot` in turn implements `Recital` (checked in `async`, proved in
`RecitalProofs`).  `ObstacleScan` instantiates `ObstacleDetection`, `FlagDetection`
extends `ColorBands` and `PixelColor`, and `NotePlayback` and `DetectionWindow`
share `SystemTime`.

## The runs

| run | configuration | shows |
|---|---|---|
| `async` | `JeanBot_async.cfg` | in every interleaving: `IndexInSong`, `NoStaleFlag`, `QuietDetection`, `DancesToASong`, `SongKeptWhileDancing`, `SecondReads`, `NotesInOrder`, `StraysOnce`, and the refinements `DanceSpec` and `GivesRecitals` |
| `live` | `JeanBot_live.cfg` | `ObstacleStopsRobot`, `Settles`, `SoundEnds` |
| `window` | `DetectionWindow.cfg` | `WindowKept`: far from the wrap-around a detection lasts its ten seconds, plus at most one image |
| `playback` | `NotePlayback.cfg` | `TempoKept`, `NeverOversleeps` and `PlayedInFull` for the four songs of `music.c`, across several turns of the clock, whenever `Dance` is held |
| `scan` | `ObstacleScan.cfg` | `ObstacleSeen` and `NoFalseAlarm`, whatever moves during a scan |
| `bands` | `FlagDetection.cfg` | `CompactsBehind`, `BandsRight`, `FlagShown` for all short lines, `HueIsStrongest` for light of every level |

`BandsInv`, `PlaybackInv`, `ScanInv`, `WindowInv`, `DanceInv`, `RecitalInv` and
`StrayInv` are or belong to inductive invariants; the runs check them because
the proofs rest on them.

Six runs refute what the report or a comment says; the code does otherwise:

| run | claim | what happens |
|---|---|---|
| `held` | `dance.c:131-132`: no dancing in FLAG_DETECTION or PAUSE | preempted after its test, `Dance` sets the motors that `ManageStates` has just stopped |
| `motion` | `rapport.tex:115`: `is_dancing` false inhibits the thread | the same race with `stop_dancing`: the note is finished, no one stops the motors, and without a flag the wheels turn for ever |
| `first_note` | `rapport.tex:116`: the thread begins to play the song | restarted while `Dance` sleeps in a note of the old dance, the new song begins with its second note: waking up, `Dance` increments the position that was just reset |
| `lost_dance` | `rapport.tex:116`: when `is_dancing` becomes true, the thread plays the song | with a detection that keeps the core (`rapport.tex:111`), `Dance` preempted at the end of a song, between its load of `music_position` and its `stop_dancing`, goes on with that after `restart_dance`: the new dance is over before its first note |
| `too_long` | `rapport.tex:110`: at most ten seconds | a deadline just below 2^32 ticks is missed when the clock wraps around during an image: the loop goes on for 49 days, or until a flag appears |
| `too_many_bands` | `flag_detection.h:5` and the declarations: at most ten bands | narrow groups between wide ones count as bands of no colour, so that a line of 640 pixels with six objects of 80 has thirteen bands; elements 10 to 12 are written behind the array |

`held`, `motion` and `lost_dance` need a preemption within microseconds.  `first_note`
needs none: a new flag recognised within the duration of a note, with the camera already
looking at it, is enough.  `StraysOnce` bounds what `held` and `motion` show: a figure
whose test saw WAIT sets each wheel once after the state has changed, through any
sequence of states, and then `Dance` tests the state again.
The same unsigned comparison as in `too_long` also ends a detection whose
deadline wraps around before its first image; `WindowKept` excludes both by
`FarFromWrap`.

### Bounds

* `MUSIC_SIZE = 3` (55 in the code) and two countries: a first, a middle and a last
  note, so that a position reset in the middle, at the end, or between load and store
  differ, and one dance after another to another song.  The one song has a silence
  between two notes, the other a note no longer than `note_offset` and a trailing zero:
  both outcomes of both tests on a note.
* `live`, `held`, `motion`: one country, whose song is cut after its second note, the
  silence.  None of its sounding notes is as short as `note_offset`, and `SoundEnds`
  needs that: a tone is ended by the `dac_stop` behind its sleep, which a shorter note
  does not reach.  It is true of the songs of `music.c`: `SongAssumption`, checked in
  `playback`.
* `Selector = {0, 1}`: 16 positions in the hardware; the code only compares for
  equality with the last one.
* `obstacle` is Boolean and changes at any time.
* `Range = 16`, `FLAG_DETECTION_DURATION = 4`, `MaxFrame = 2` for 2^32, 10000 and
  an exposure: small against the range, so that both deadlines that wrap and
  deadlines that do not occur.  `Patience = 9` caps the history variable
  `elapsed` above anything the properties compare it with.
* `playback`: the songs, `MUSIC_SIZE`, `note_offset` and the idle sleep as in the
  code.  `Range = 4096`, so that every song (10 to 22 seconds) crosses the
  wrap-around several times and each of its notes is shorter than a turn.
  `Holds = {70, 130}`: the shortest note sounds for 116 ms, so in it one hold can
  be caught up and the other, or two, cannot.  `MaxHeld = 300` bounds what the holds
  and pauses of one dance add up to.
* `scan`: four sensors, and readings below zero, at the threshold and above it.
  Two sensors already have a before and an after; with four, an obstacle can pass
  in front of the scan or behind it.
* `bands`: twelve pixels, groups of 2, bands of 3, over two palettes of three
  colours, with a stripe of three pixels at the end and one at the first or second
  pixel.  That is room for a flag and noise in one of its stripes, for a flag that
  is not the first of the bands, and for four bands; group sizes below, at and
  above both widths occur in every order.  The pixels lie next to the margins of
  `get_color`, dim ones on the left of the image and bright ones on the right.
* `Intensity`: 64 of the 256 values, the least and the greatest of each level of red
  and blue.  All of them are covered by `LineHasItsHues`.
* `too_many_bands`: the constants of the code and one line.

No state constraint is used and no run switches the deadlock check off.

### Fairness

`FairSpec` assumes: `main` runs (weak fairness of its two steps); `ManageStates`,
the thread of highest priority, takes its next step, its sleeps end and images
arrive (weak); a detection that is tested again and again ends some time, because
the clock does (strong, on `EndDetection`); and `Dance`, which only runs while
`ManageStates` waits, runs in some of infinitely many waits (strong, on
`RunDance`): `ManageStates` sleeps 100 ms in every pass and nothing else of the
program uses the core.  Nothing is assumed of the user or of the obstacles.
Near the wrap-around of the clock a detection may take 49 days (`too_long`); it
still ends.

## The proofs

All theorems hold for every `MUSIC_SIZE`, set of countries, songs, selector,
`note_offset`, and both values of `CameraYields` and `Prompt`; their assumptions
are the named `ASSUME`s, that each constant has its type and that `MUSIC_SIZE` is
positive.

* `DanceProofs`: `DanceSpec => []DanceInv`.  `IndexInSong` is not inductive: that
  `index` is below `MUSIC_SIZE` when a note is read depends on `music_position`
  having been below it when it was loaded, and `music_position` *is* `MUSIC_SIZE`
  at the end of a song.  `DanceInv` adds that it is so only while `Dance` is
  `Closing`, on its way to the reset and with nothing left to read.
  `DanceStaysInSong` follows.
* `JeanBotProofs`: `JeanBotInv`, the conjunction of `TypeOK`, `DanceInv`,
  `NoStaleFlag`, `QuietDetection` and `DancesToASong`, is inductive.
  `QuietDetection` carries the argument: between `stop_dancing` and
  `restart_dance` no dance is on, because `Dance` starts none, so the only step
  that exchanges the song finds `is_dancing` false (`JeanBotKeepsSong`).
  `JeanBotImplementsDance` is the refinement: each step of `ManageStates` is a
  step `Caller`; hence `JeanBotStaysInSong`.  `JeanBotStraysOnce` rests on `StrayInv`:
  whoever has set a wheel outside WAIT is behind it in the code, and cannot come back to
  it but through the test of the state.
* `DetectionWindowProofs`: `WindowInv` is inductive for every range, duration and
  frame time.  It adds to `WindowKept` that the clock is `start_time + elapsed`
  during a detection, which is where the distance from the wrap-around is used.
* `RecitalProofs`, with no assumption on the camera, the timing or the songs:
  `RecitalInv` is inductive together with `JeanBotInv`.  Its core is `OnBeat`: once a
  dance has begun a note, the position is that of the note while `Dance` is in it, and
  the next one before and after.  It is kept because whoever resets the position also
  ends a dance or begins one, so that what `Dance` still does to the position then
  meets no dance that has begun a note; and because such a dance gets its first note only where `Dance` reads
  one at a position that was not reset since it was loaded.  `JeanBotGivesRecitals` maps
  each step to one of `Recital` or to a stutter; `JeanBotPlaysInOrder` and
  `JeanBotRereadsTheSame` follow from the same invariant.
* `NotePlaybackProofs`: `PlaybackInv`, for every range of the clock, durations,
  `note_offset`, holds and start.  `TempoKept` speaks of two places; `PlaybackInv` says
  at each place how much of the note is over (`Spent`), that the clock is `lag` ticks
  behind the note's start, and what is left of a sleep.  The assumption
  `PlaybackAssumption` that a note and what is held stay below a turn of the clock is
  what excludes a window that has come round.  `DancePlaysInFull` rests on a second
  invariant, `Scored`, which compares the score at each position with what the notes
  up to there are written for: a step adds to both one note, of which the integer
  division lost less than a millisecond per sixteenth (`MillisecondsLost`).  What a
  song is written for is a sum over its notes; it comes in as the constant
  `Sixteenths`, with its recurrence (`Sums`) as an assumption.  Of the songs of
  `music.c`, `SongAssumption` is checked by TLC: that no duration overflows 16 bits
  and none is as short as `note_offset` is true of those songs, not of every song.
* `ObstacleScanProofs`: `ScanInv`, for every number of sensors, threshold and readings:
  what has been near since the scan began and was read exceeds the maximum's
  threshold, whatever moved since.
* `ColorBandsProofs`: `BandsInv`, for every line and all widths.  The index of a
  loop stays behind its counter (`CompactsBehind`) except after the last
  iteration; what has to be added is where the first loop begins and that the
  loops of steps 2 and 4 stop at `number_of_groups`.  `GatherType` is the common
  part of steps 1 and 3.
* `FlagDetectionProofs`: the five loops of `extract_color_bands` compute the bands of
  the line as `FlagDetection` defines them, for every line, length and all widths
  (`LineGivesBands`), and `extract_flag` then returns the flag the line shows
  (`LineGivesFlag`).  The argument is below.  The two bytes of a pixel decode to its
  three components (`SeenClassified`), each of which is less than 8 below the light on
  it (`CameraSteps`); that gives `LineHasItsHues` and `LightKeepsHuesApart`.

### The bands of a line

`BandsTrace` is the invariant: `BandsInv`, and for each loop what the arrays hold of
the line up to where the loop is.  It is stated with lists of positions that the
program does not have, as witnesses: `Lists(at, n, S)` says that `at[0] .. at[n - 1]`
are the elements of the set `S` in their order.

| loop | the groups written so far, and those still to be read | witness |
|---|---|---|
| step 1, `SplitAt` | the runs of the line before pixel `i`; the last one may go on | `pos`: where the runs begin |
| step 2, `CleanAt` | the runs before group `i` that count; the runs | `at`: where those begin |
| step 3, `FusionAt` | the stripes, the last of which may go on; the runs that count | `sp`: where the stripes begin |
| step 4, `EraseAt` | the stripes in their shades; the stripes in their colours | `sp` |
| step 5, `BandsAt` | the bands; the shades | `mk`: the marks |

Each loop has a lemma for one iteration and one for the change to the next loop; the
witness of the next state is that of this one with at most one more position.
`SplitRuns` and `FusionRuns` share `GatherAt`, what one call of `Gather` leaves in the
arrays.  Of the arrays themselves only `CompactsBehind` is needed: what a loop writes
lies behind what it reads.  No induction over data is left: the loops carry it, one
iteration a step, and cardinalities enter by two lemmas only.  `ListedRank` says that the
rank of a listed element is its index, which turns `rank(p)` of `BandsRight` into an index
of `color_bands`, and `WidthAdds` that the widths of neighbouring stretches add up, which
is what `current_group_size` does in step 3.

`LineGivesFlag` follows from the last state alone: three marks next to each other, each
with a colour, are three stripes next to each other, because behind a wide stripe the
next stripe is always a mark (`NextMark`).  The theorem says `BandsFit => FlagShown`:
`extract_flag` reads `MAX_NUM_COLOR_BANDS` elements and sees no flag behind them, and
`too_many_bands` shows that there may be more bands.  What is assumed of the constants is
that `color_bands`, read that far, is within the buffer (10 of 640 elements), and that the
line has more than one pixel.

Model-checked only: the liveness properties, since fairness is out of the prover's
reach, and, in the runs that refute them, the six claims above.

## Not modelled

* `main.c` before the first thread (`halInit`, `chSysInit`, `mpu_init`, `init_camera`,
  `init_obstacle_detection`) and the drivers: they set up hardware, and what they do
  is in the e-puck2 library, a submodule that is not in the repository.
* `src/lib`: what the repository holds of ChibiOS are its ports, CMSIS headers and
  demo projects, third-party files which are not the program's own.  They are nearly
  all of the repository's lines; the program is the 1400 lines in `src/src`, and of
  those the models cover every function with state or a decision.
* `chconf.h`, `halconf.h`, `mcuconf.h`, the `Makefile`: of these settings the models
  use that priorities are preemptive and that `systime_t` has 32 bits, a thousand
  ticks a second.
* A detection as one model, `DetectionWindow` and `FlagDetection` in place of the
  arbitrary flag of `ManageStates`: the flag of an image does not depend on the
  threads, and the end of the window is free in `GiveUp`, so the product would show
  nothing its parts do not.

Left out for good: the initialisation of the hardware, the ChibiOS kernel and
drivers, the configuration headers, the stack-protector hook of `main.c`, the
values of the motor speeds (their sign is kept), and LEDs beyond on and off.

## Running

    tlc -config JeanBot_async.cfg MCJeanBot.tla     (likewise live, held, motion, first, lost)
    tlc -config DetectionWindow.cfg DetectionWindow.tla     (likewise over)
    tlc -config FlagDetection.cfg MCFlagDetection.tla
    tlc -config FlagDetection_overflow.cfg MCColorfulLine.tla
    tlc -config NotePlayback.cfg MCNotePlayback.tla
    tlc -config ObstacleScan.cfg MCObstacleScan.tla
    tlapm RecitalProofs.tla     (likewise the other modules of proofs)

Definitions whose comment begins with `Mutant:` are not used by any
specification.  Each is a plausible mistake in the definition that follows it,
and is caught by the property named with it in `PROJECT.json`.
