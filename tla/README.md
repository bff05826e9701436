# Moonlight for Allwinner H618: a formal model

Moonlight is a client for GameStream hosts: it pairs with a host, starts an
application there, receives its video and audio through the streaming library
(`moonlight-common-c`, a submodule whose code is not in this repository) and
sends back what keyboards, mice and gamepads do.  This fork adds zero-copy
rendering for the Allwinner H618.

This directory holds TLA+ modules translated from the C sources, TLC
configurations that check them on small instances, and proofs for TLAPS.
`PROJECT.json` says which lines each definition stands for, and lists the
hazards of the code with the properties that cover them.

    tlc -config HostInput.cfg MCHostInput      # one run
    tlapm EvdevProofs.tla               # the proofs

## 1. The system

### Threads and what they share

| actor | started by | touches |
|---|---|---|
| main thread | `main` | everything below, through `loop_main` or `sdl_loop` |
| video receiving thread | the streaming library | `submit_decode_unit` of the decoder: the ring of decoded frames, the frame pipe, the SDL event queue, the buffers of the vendor decoders |
| connection thread, control thread | the streaming library | `connection_terminated`, the rumble callbacks: the process's signals, the SDL queue, the table of gamepads |
| one mouse-emulation thread per emulating gamepad | `evdev_handle_event` | a pointer to the gamepad's slot in the device table |
| frame thread, display thread | `rk_setup` | the hand-over of framebuffers, `frm_eos`, the DRM request |
| callbacks of the vendor libraries, `aml_display_thread` | MMAL, OpenMAX, `aml_setup` | buffers, a semaphore, `done` |

Whatever happens outside reaches the main thread by one of four ways: a
descriptor `poll` reports (devices, the udev monitor, the signal descriptor, the
display connection and the frame pipe), a callback into a table it also uses, a
mutex with a condition variable (Rockchip), or the SDL event queue.

### Components

**Session** (`main.c`, `connection.c`, `platform.c`).  State: the handlers
installed for the platform, the signal mask, the descriptor signals are read
from, the connection.  Operations: `stream`, the callbacks of the connection,
signals.  Hard: the end of the connection is a signal the process sends to
itself, which may come before, while and after the loop runs.  Correct when no
signal kills the process while it is connected, every session that is told to
end ends, the quit request follows the disconnection, and no callback finds its
handler missing.  (Each of the first and the last has an exception in the code, see below.)

**Event loop** (`loop.c`).  State: two arrays indexed alike, for descriptors and
handlers, and the index of the running scan.  Operations: `loop_add_fd`,
`loop_remove_fd`, `loop_init`, `loop_main`.  Hard: handlers add and remove
entries while the array is scanned; a new entry's `revents` is uninitialised.
Correct when both arrays describe the open sources, no handler blocks, and every
ready source is served.

**udev hot-plug** (`input/udev.c`).  State: the monitor.  Operations:
enumeration, listening, the handler.  Correct when no available device is missed.

**evdev gamepads** (`input/evdev.c`).  State: the table of devices (a `realloc`ed
block), `assignedControllerIds`, per device its id, buttons, emulation flag and
thread; at the host, the mask of gamepads.  Operations: create, event, remove,
send, toggle emulation, rumble.  Hard: removal moves the last entry into the
hole while threads hold addresses of slots; ids may run out.  Correct when the
table is the open devices, ids are exclusive and stable, the mask sent is the
set of ids, and a removed or stopped device's thread ends.

**evdev keyboard, mouse and touch** (`input/evdev.c`).  State: modifiers per
device, the pending quit (`waitingToExitOnModifiersUp`), the collected movement, where
a touch began.  Correct when the quit combo ends the session once the keys are up, the
host is left with no key down, and its pointer moves and clicks as the user's does.

**X11 input** (`input/x11.c`).  State: modifiers, `grabbed`, where the pointer will be.
Operations: one handler for keys, buttons, movements and the window's end.  Hard: the
pointer is put back by a request whose effect comes later than movements already
queued, and state of one event is used for the next.  Correct as the previous one.

**Gamepad mappings** (`input/mapping.c`, `evdev_map`).  State: the mapping that is made,
what is held, the state of the hats.  Operations: the dialogue, printing, parsing,
looking up a button or an axis, converting its value.  Hard: a dialogue of questions
with time limits that is answered by events, their releases included.  Correct when a
control of the gamepad reaches the host as what its mapping says.

**Rockchip renderer** (`video/rk.c`).  State: `fb_id` (a hand-over of one place),
`frm_eos`, buffers, the group of the decoder, `drm_request` and the properties of
connector and plane.  Operations: set-up, submit (which changes HDR and colour
space), the bodies of two threads, clean-up.  Hard: three threads add to
`drm_request` without a lock, and `frm_eos` is read and written outside the mutex.
Correct when frames reach the screen in order and in their colours, submit
returns, clean-up returns and restores the connector, and buffers outlive their
use.

**FFmpeg decoder** (`video/ffmpeg.c`), **x11 renderer** (`video/x11.c`), **SDL
platform** (`sdl.c`, `video/sdl.c`).  State: a ring of decoded frames, the pipe or
event queue that announces them, two counters.  Correct when the newest frame
is drawn, the last one of a burst is not dropped, and no frame changes while it
is drawn.

**VAAPI export and EGL renderer** (`video/ffmpeg_vaapi.c`, `video/egl.c`).  State:
a cache of exported descriptors by surface id, three caches of images by
descriptor, flags for paths that have failed.  Correct when the memory drawn is
the frame's, its size and colours fit, and no image leaks.

**SDL input** (`input/sdl.c`).  State: the table of gamepads, the mask of its entries
in use, references to SDL's controllers.  Operations: arrival, removal, buttons, the
combo that quits, rumble.  Hard: SDL announces every gamepad once more than the
program opens it, and may offer more gamepads than there are entries.  Correct when
the host sees the gamepads that are plugged in and each is open once.

**GameStream** (`libgamestream/`, `main.c`).  State: the identity on disk,
`SERVER_DATA`; at the host, the pairing and the running game.  Operations: status,
the pairing handshake, unpairing, the list, starting and quitting applications.
Hard: any request may be lost on either way, the program killed between two, and
files left half-written.  Correct when what is believed and printed of the pairing is
true, and a session leaves the host as the options ask.

**Configuration** (`config.c`).  State: the options, the files.  Operations: options
from the command line and from files that name further files, saving.  Hard: what
`config_save` leaves out is what `config_parse` has to supply, and a file is read into a
configuration that another file has changed.  Correct when the settings that were
saved return.

**Platform selection** (`platform.c`), **audio** (`audio/`).  State: none.  Operations: the
platform, decoder, renderer and audio output for what the machine has.  Correct when
the formats that are offered to the host are accepted, and each channel reaches its
speaker.

**Vendor decoders** (`video/aml.c`, `mmal.c`, `pi.c`, `imx.c`, `imx_vpu.c`).  State: buffers
on their way between the receiving thread, the decoder, the display and back.  Correct
when no buffer is lost or in two hands, and the program can leave the stream.

**CEC** (`input/cec.c`): a translation of the keys of a remote control.

**G2D kernel module** (`kernel/g2d/`).  State: the clocks, `open_count`, a mutex, the
two imports of a request.  Operations: probe and removal, open and release, the
ioctl, which so far imports two buffers, checks them and releases both.  Hard: each
of some ten calls may fail half-way.  Correct when a request leaves no reference
behind and the block is used with its clocks on only.

The `hazards` of `PROJECT.json` list, at its line, what can go wrong in these
parts and which property would show it.

## 2. The modules

| module | models | composed with |
|---|---|---|
| `EvdevDevices` | the evdev gamepad table, ids, events, mouse emulation | - |
| `EvdevRumble` | force feedback, asked for by another thread | extends `EvdevDevices`, and implements it |
| `EvdevKeyboard` | keys, modifiers, the quit combo | - |
| `EvdevPointer` | a mouse, a touch screen | - |
| `WindowInput` | keys and the pointer of an X11 window | - |
| `GamepadMapping` | making, printing, parsing and using a mapping | - |
| `HostInput` | all that is told the host of the user | extends `EvdevRumble`, instances of the four above |
| `WatchSet` | what an event loop promises: a set of watched sources, each served | - |
| `EventLoop` | `loop.c` with udev, the signal descriptor and a window | implements `WatchSet` |
| `GameStream` | `main` and the requests to the host | - |
| `Session` | `stream()`, its callbacks, signals | - |
| `Client` | the whole program, one after another | `GameStream` (extends) and `Session` (`S == INSTANCE`) |
| `Settings` | options, the files they are read from and saved to | - |
| `AudioOutput` | which output plays, the order of its channels | - |
| `Startup` | the platform, the formats offered, the search for a decoder | extends `Settings`, `AudioOutput` |
| `FfmpegFrames` | the ring of decoded frames | extended by the next and by `SdlDisplay` |
| `X11Frames` | the frame pipe and the drawing | `FfmpegFrames` |
| `SdlInput` | the table of SDL gamepads | extended by the next |
| `SdlDisplay` | `sdl_loop`, its queue and counters | `FfmpegFrames`, `SdlInput` |
| `Imx`, `Mmal`, `Pi`, `Aml` | the vendor decoders | - |
| `Streaming` | a program from its command line to the end of its stream | extends `Startup`, instances of the six renderers above |
| `RkDisplay` | the threads of the Rockchip renderer and its DRM requests | - |
| `ZeroCopy` | `x11_setup`, `egl_init`, the caches of descriptors and images, colours | - |
| `G2dDevice` | the G2D kernel module | - |
| `EvdevProofs` | theorems of `EvdevDevices` and `EvdevRumble` | extends `EvdevRumble` |
| `HostInputProofs`, `EventLoopProofs`, `ClientProofs`, `StreamingProofs`, `RkDisplayProofs`, `ZeroCopyProofs`, `G2dProofs` | theorems | extends the module of that name |

`MCEvdevDevices`, `MCHostInput`, `MCGamepadMapping`, `MCSettings`, `MCStreaming`,
`MCClient` and `MCZeroCopy` give a module the values of its constants; the other
configurations run the module itself.  A composed module declares the variables of
its parts again and shares what has the same name.  Operators named for a mistake
(`RemoveFdOnly`, `RestoreOnTop`, `SentDownOnly`, ...) are variants of the operator next to
them: when the variant takes the operator's place, a run refutes its property.  They
show which piece of code a property depends on, and no specification uses them.

### EvdevDevices

`mem`, `num` are the block `devices` and `numDevices`: an entry past `num` keeps its
old content, because a thread may still read it there; a block that `realloc` has left
is `Freed`, and what is read through such a pointer is any entry or none.  `assigned`
is `assignedControllerIds`.  `open` and `host` are the world's side: which descriptors
are open and what the events sent so far told the host.  `threads` holds each
emulation thread's place and pointer, `main` the place of the main thread, which
blocks in `pthread_join` twice: when Start is held again (`joinOff`) and in a removal
(`joinRemove`).

| actions | code |
|---|---|
| `Create`, `StartLoop` | `evdev_create`, `evdev_start` |
| `Press`, `Release`, `Axis` | `evdev_handle_event` for keys and axes |
| `EmulationOn`, `EmulationOff`, `JoinedOff` | a long press of Start, before and after the join |
| `SynAssign`, `SynReport` | `EV_SYN`: the id of a new gamepad, the event sent |
| `Remove`, `RemoveEmulating`, `JoinedRemove`, `ReadError` | `evdev_remove`, before and after the join |
| `ThreadCheck`, `ThreadBody` | one round of `HandleMouseEmulation` |

A handler is atomic because every handler runs in the main thread; only the emulation
threads interleave with it, and only at the places where they read the table.

### EvdevRumble

The control thread of the streaming library calls `evdev_rumble`; `rumbler` is its place:
`Request` begins it, and `Look`, `StopEffect`, `Upload`, `Play` and `Store` are its steps, each
of which may find that the main thread has moved or replaced the entry it looked up.
`haptic` is `haptic_effect_id` of every slot, `uploaded` and `playing` what the kernel knows,
`asked` what the host has asked for.  `EntriesKept` says what the handlers of
`EvdevDevices` do to `haptic`, so that they need not be stated again.

### GamepadMapping

`pad` is a gamepad: the wire of each control, its keys and axes.  A mapping is made by the
dialogue (`MapEvent`, `LetGo`, `Drain`; `step` is the question) or comes from a file; then
`mapping_print` and `mapping_parse` stand between it and the stream, in which the user
holds and lets go (`Play`).  `dev` is what the stream has read and sent.  Names and
numbers are not spelled: a line is the set of its entries.  `GoodSteps` and `GoodPad` say
what a dialogue asks for and what gamepads there are: each control is asked for once; two
controls share an axis or a hat only as the opposite directions of a D-pad; an axis is
wider than its dead zone; a line of a file says of each control what it is (`Entry`).

### HostInput

`kind` chooses what a behaviour is about; the modules share no state, and their
composition saves a run for each.

### EventLoop and WatchSet

`fds` and `fdHandlers` are the two arrays; `i` the index of `loop_main`'s scan.  A
handler is one step, between two indices of a scan, and may add or remove entries.
The `revents` of an entry added in a scan is read before `poll` wrote it: its value is
a nondeterministic choice.  `present`, `announced` and `data` are the world's side.
`WatchSet` knows sources and their work only; `ServesEverySource` is the refinement,
with `watched` mapped to the descriptors in the array.

### GameStream, Session, Client

A program is one record `proc`: its place in `main` (`loadCert`, `infoHttps`, `pair`,
...), its order (action, application, whether the checks of version and resolution
pass) and the phase of the handshake.  Each request is one step with its three
outcomes: answered, lost before the host, lost on the way back.  `identity` is what
`mkcert_save` has left on disk, at every point it can be killed.  Cryptography is
whether a check passes.

`Session` has one counter for `stream()`, the state of the connection, and the
pending signals, which the process blocks from `loop_init` on.  `Client` puts the two
together: they move in one step where `main` calls `stream()` and where a session
sends a request, and one program follows another, killed or not, without end.  Each
program chooses its order and its options: the platform, `-viewonly`, `-quitappafter`, a
host that asks for trigger rumble, an adapter for CEC.  `sigprocmask` is the main thread's
and that of the threads it starts later; those of libCEC, which `cec_init` has started
before (`Unmasked`), may take any signal of the process.

### EvdevKeyboard, EvdevPointer, WindowInput

Per keyboard `held` (the keys down), `queue` (the kernel's), `modifiers` (of the
device); `waiting` is `waitingToExitOnModifiersUp`, `hostDown` what the host was told.
A queue that is full is thrown away as the kernel does it (`SYN_DROPPED`), and the code
does not ask for what was lost.  `trouble` says whether keyboards are unplugged and
queues overflow in a behaviour.

The pointers compare: `untold` (`behind` in a window) is how far the user has gone and the
host's pointer has not.  In `EvdevPointer` a report up to its `EV_SYN` is one step, as it
is delivered; the kernel (`Reported`) leaves out a coordinate that is the one it sent last.
In `WindowInput` the X server queues events and carries out `XWarpPointer` later (`Warp`);
`mixed` records the moments in which state of one event is used for another.  A window
that has ended keeps its keys, and `unheard`, those whose release was not handled.

### Settings, AudioOutput, Startup, Streaming

`Settings`: `files` are sequences of lines, `args` the command line; `open` and `handles` are
the files that are being read, one in the place of a line of another, and those that
are not closed: `config_file_parse` closes none, which `MaxOpen` bounds.  Programs run one
after another, so that one reads what another saved.  `Startup` goes on with `platform_check`,
the formats that are offered and `ffmpeg_init`, whose six tries are one fold over the
names of decoders; `machine` is what the computer has.  `AudioOutput` is functions only.

`Streaming` connects (`Connect`) when a renderer accepts what was offered; nothing reads
the configuration then, and it is forgotten.  The renderers share the places of the
receiving thread (`spc`) and of the main thread (`mpc`), `decoded` and `shown`, and the ways
to an end: `LeaveLoop`, `EndSubmit` (`LiStopConnection` joins the receiving thread), `CleanUp`.

### Imx, Mmal, Pi, Aml

Each is the way of a buffer.  `Imx`: from the decoder through a pipe to the main loop, to
the V4L2 device, and back through a second pipe; an ioctl that fails ends the program
(`DeviceFails`).  `Mmal`: a semaphore that stands for an input buffer, and the output
buffers between pool, decoder and renderer; its cleanup destroys the decoder, which hands
its buffers on (`HandBack`), and then the renderer, whose callback still looks at the
decoder (`ReleaseLate`).  `Pi`: input buffers, and the event upon which the receiving
thread connects decoder and renderer; its cleanup waits for a buffer (`PiCleanUp`).
`Aml`: a packet written in parts to a codec that may be full, and the thread that passes
pictures on.  The libraries are external: what they may do, and when, is in the
comment at the top of each module.

### RkDisplay

Four actors: the receiving thread (`rk_submit_decode_unit`), the frame thread, the
display thread and the main thread in `rk_setup` and `rk_cleanup`.  Critical sections
are one step; `frm_eos` is read and written outside of them.  `pthread_cond_wait` is
two steps, release and sleep, then wake and lock; it may also wake on its own
(`SpuriousWake`).  The decoder is two bounded queues.

`screen` holds the properties of connector and plane.  `SetLook` is what a decode unit
does when its HDR state or colour space differs from the last; `SetProperties` goes to
the screen at once or, with atomic commits, into `request`, which the display thread
commits with its next frame.  A commit that fails loses its frame (`DisplayCommit`), as
does a frame without a buffer (`DropFrame`).  Two threads that are about to touch `drm_request`
at once are a race, whose outcomes `RequestRace` chooses: the process aborts, or the
request is `garbled` from then on.

### FfmpegFrames, X11Frames, SdlDisplay, SdlInput

A frame is its number; the ring has as many entries as the renderer asks for, and a
packet fills the next entry or, when it yields no frame, empties it.  `X11Frames` adds
the pipe; a frame is drawn in two steps, because the receiving thread may overwrite
it meanwhile.  `SdlDisplay` adds SDL's event queue, in which frames, the end of the
connection, gamepads and other input stand in one order, `sdlCurrentFrame` and
`sdlNextFrame`.  A frame event is two steps, the check that may skip it and
the upload under the mutex.  `SdlInput` is the table of gamepads those events change, with
the references the program holds; SDL's own announcements follow its documentation, and
a gamepad that SDL can not open (`OpenFails`) is as if it had left; those that are there
when the program starts (`sdlinput_init`) are taken to be opened.
`lost` says that SDL had no room for an event, which neither `sdl_submit_decode_unit` nor
SDL itself tells anybody.

### ZeroCopy

`machine` is what the drivers and the environment variables allow; `X11Setup` and
`EglInit` choose the path from it, or fail.  A surface is an id and the memory behind it.
The descriptor cache maps ids to descriptors, the image caches descriptors to
images with the size and conversion they were made for.  One action `FrameHandle`
is the whole of a frame in the main thread, through every fallback: each export,
import and draw may fail or not.

### G2dDevice

`dev` is the place in `g2d_probe` or `g2d_remove`, or `bound`; `enabled` counts what the
driver has enabled of each clock.  A caller (`pc`) is a file used by one thread; its places
in the ioctl are those between the calls of `g2d_ioctl_blt` and `g2d_import`, the labels
of the error path among them.  `imp` holds the fields that are set in its two
`struct g2d_import`, `held` what the kernel counts for each buffer.  `Remove` waits for
all files to be closed: `.owner` keeps the module, and unbinding is suppressed.  The
block is never started yet, so it raises no interrupt.

## 3. The runs

A run with the result "violated" checks one property that a comment or a document
of the repository states; TLC refutes it, and `findings` quotes the line.

| run | result | shows |
|---|---|---|
| HostInput | holds | 3 gamepads, 2 ids: the table is the open devices; ids are exclusive but for 0, which is shared after an overflow; the mask last sent is current; gamepads rumble as the host asked. 2 keyboards: undisturbed, the combo quits once the keys are up. While the loop runs a keyboard or a window leaves no key down at the host, and when it has ended only those whose release ended it or was queued; a mouse, a touch screen or a window moves its pointer as the user does. What a gamepad does reaches the host as its mapping says |
| EvdevEmulation | holds | 2 gamepads with mouse emulation, plugged in and out: an emulating gamepad sends nothing, one thread per emulation, ids never change; a thread reads its own entry and its join returns as long as the entry has not moved |
| EvdevJoinHangs | violated | an unplugged neighbour moves the entry; the thread never sees its flag cleared, and the join never returns |
| MapWizard | violated | a D-pad held longer than the dialogue waits answers two questions: the mapping has a direction that is always on |
| LoopArray | holds | the array has one entry per open source, no handler blocks on the signal descriptor, the array implements `WatchSet`, a signal ends the loop, announced devices are opened |
| ClientPrograms | holds | what is believed and printed of the pairing is true; a session ends, in order, however early it is told to; only threads of libCEC, or trigger rumble on an embedded platform, end a connected process; `-quitappafter` is obeyed |
| Streaming | holds | settings that were saved return; the host is offered what the renderer accepts; channels reach their speakers; no buffer of i.MX6, MMAL and OpenMAX is lost or in two hands, AMLogic's devices are open while they are used; SDL skips a frame only when its entry was reused, and shows a later one only when the ring goes round before the upload; the host sees the gamepads SDL has; x11, SDL and i.MX6 show the last frame before a pause; a program that leaves its loop ends |
| SettingsSaved | violated | the window, the codec and more are not saved although README.pod says that the configuration is |
| RkStream | holds | frames reach the screen in order, none twice, and are lost only when their commit fails; a steady stream is shown in its colours; submit returns; buffers outlive their use however the stream stops; `rk_cleanup` returns when both threads wait, and restores the connector if the kernel takes its last commit |
| RkShutdownHangs | violated | a lost signal, or `frm_eos` written back: `rk_cleanup` never returns |
| ZeroCopyFrames | holds | the memory drawn is the frame's, its size and colours fit, no image leaks |
| G2dDevice | holds | two processes import buffers while any call may fail and the module comes and goes: no reference, attachment or mapping is left behind, registers are touched with the clocks on |

### What the properties except

The following is how the code behaves; properties say so in their premise or in a
comment, and each is a hazard in `PROJECT.json`.

* Once there are more gamepads than ids, id 0 is handed out again, and freed while
  another gamepad has it (`IdsConsistent`).
* A request to rumble that meets a table in change works on another gamepad's entry or on
  none, and gamepads that share id 0 take each other's requests (`disturbed`).
* The dialogue loses a direction of the D-pad that it asks for after one of a hat (the
  release of the hat, if it comes late, answers), an axis that runs the other way, and a
  trigger that is button 0 or that it asks for after one that is an axis, whose late
  release answers as well (`WizardLoses`); of a mapping from a file, half an axis ends at
  127 (`FileLoses`).  A stick without a dead zone is a little off zero at rest (`Told`).
* A touch that begins at a coordinate of the one before it loses its first movement and is
  no click.  In a window, a wheel turned in one call with a button is sent as that
  button, a movement made before the pointer is put back is measured from the wrong
  place, the first movement after a drag past the left or top edge, of a window that has
  let the pointer go, is taken for the first of all (x11.c:135) and not sent (`mixed`),
  and a key let go in another window stays down.  A notch of the wheel is scrolled twice,
  when it is pressed and released; `-viewonly` stops neither the window's input nor SDL's.
* `JoinReturns` holds only while the entry of the emulating gamepad does not move.
* A device plugged in between enumeration and the start of the monitor is missed
  (`AnnouncedDevicesEnabled` starts with the monitor); one plugged in again before
  its first announcement is handled is opened twice.
* A keyboard that goes away, or a queue that overflows, loses keys and the pending
  quit (`UndisturbedQuits`, `HostKeysReleased`).  The quit combo ends the loop on the
  release of the modifiers, even when other keys are down.  That release is never sent to
  the host, nor is that of the window's combo, nor what is queued behind: both handlers
  return before (evdev.c:414-418, x11.c:61-93; `unsent`, `unheard` in `HostKeysReleased`).
* A kill while `mkcert_save` writes leaves an empty or partial identity that no later
  program repairs.  `pair` of a paired client ends by unpairing it.  A running game is
  resumed, whichever application was asked for.  A host that asks for trigger rumble
  makes the embedded platforms call a handler they did not install (`Unhandled`), and a
  signal that reaches a thread of libCEC kills the process (`Unmasked`): the run has both,
  and `NotKilledWhileConnected` excepts them by name.
* The second resolution of a stream aborts the Rockchip renderer; a frame
  whose commit fails (rk.c:177-187) or that has no buffer (rk.c:330) is lost, the last
  one before a pause, too (`CommitFailed`); nobody looks whether the last commit of
  `rk_cleanup` (rk.c:638) succeeds, and the connector keeps what it had if not
  ("unrestored"); a damaged `drm_request` may be carried out in part; a change of HDR in
  the stream does not reach the connector's colour space; a plane keeps the EOTF of an earlier program; the count of
  decoder errors is never reset; `mutex` is destroyed before the frame thread is joined.
* A ring of two frames lets the receiving thread overwrite the frame that is drawn.  SDL's
  check of an entry is made before the mutex is taken (sdl.c:99-101): when the ring goes
  round between the two, an event shows a later frame than its own, and the next event
  may show an older one.
* MMAL's last picture may wait for the next packet (mmal.c:279-283), and its cleanup
  destroys the decoder before the renderer, whose callback uses it (mmal.c:60, 214-218).
  `LastFrameShown` is about x11, SDL and i.MX6 only, and "nothing is used after it was
  closed" is stated of AMLogic only.
* Saving leaves out a packet size of 1024, which is not the built-in one, and every setting
  with the built-in value, which gives way to a `moonlight.conf` (`SavedSettingsReturn`).
* A decoder that was opened is forgotten when FFmpeg has no decoder of its own for the
  format, and one that cannot be opened is not reported (`DefaultFormatAccepted`).
* Beyond stereo, OpenMAX is given the centre and the bass in one order and told another
  (`ChannelsReachSpeakers`).
* The receiving thread may be stuck for good, and a program cannot leave then
  (`Stuck` in `StreamEnds`): a full pipe that nobody reads any more, an error in `mmal.c` that
  keeps the semaphore, an OpenMAX decoder that has all buffers and waits for its tunnel.
* SDL may offer more gamepads than `MAX_GAMEPADS`: `Overflown`.  An event SDL has no room
  for (`lost`) keeps a gamepad or a button from the host, leaves the two counters of frames
  apart for good, or keeps the last frame before a pause from the screen.
* When a driver uses surface ids again, an old descriptor stands for a new surface;
  frames that declare no matrix keep the one chosen for the old height; the
  download path keeps the resolution of `x11_setup`, which a larger frame overruns.

### Bounds, and why they are enough

* `HostInput`: 3 gamepads, 2 ids.  A removal touches the removed entry, the last one
  and leaves a third alone; ids run out at the third.  While the host asks for rumble
  there are 2 at a time (`MaxRumblers`), 2 effects and 2 requests, of which one may be
  overtaken by a removal and the next find another's entry; emulation is left to
  `EvdevEmulation`, with 2 gamepads, so that one moves when the other goes.  Two buttons
  tell Start, the quit combo and neither.  2 keyboards, each with control, two shifts that
  share a bit, and Q; alt behaves as control does.  A queue of one event is full at once,
  a longer one only delays; the keys that a full queue loses (`"drop"` in `Troubles`) are
  not needed for what the properties claim, which except them.  A mouse that moves by
  -1, 0 or 2 along each axis, three coordinates of which two are nearer to each other
  than a click allows.  5 inputs in a window, at most 2 of them unread: the combo takes
  3, a warp and a movement on both sides of it 3.  The middle (`Centre`) is one step from the
  edge, so that a drag may leave the window.  6 gamepads for the mapping, which
  between them have each kind of wire, a D-pad of two kinds, triggers of both, and axes
  with and without a dead zone.  Gamepads, and keyboards, are symmetric.
* `MapWizard`: one of those gamepads.
* `LoopArray`: 2 devices, the signal, the monitor and a window: an entry can be removed
  before, at and behind the scan with another moved over it.
* `ClientPrograms`: 2 applications of which one is asked for, and one the host does not
  have; any number of programs.
* `RkStream`: 2 frames, queues of 1, one retry (`MaxRetries`, 3 in the code), one change
  of HDR or colour space, one colour space: the hand-over is empty, filled and
  replaced (the first frame taken or not when the second is handed over, its commit done,
  failed or to come), and the queues are empty and full; for more frames
  their order is proved (`FramesNeverReordered`).  `RkShutdownHangs` has 2 as well.
* `Streaming`: 3 programs, of which one saves and a later one reads, over 7 command
  lines, 4 sets of files and 8 machines; 4 open files, which a file that names itself uses
  up.  5 frames through a ring of 2 and a pipe of 3: the ring goes round twice and the
  pipe can be full.  In SDL 2 entries for 3 gamepads, and `MaxWork` = 6, where a frame
  weighs one and a gamepad two: 3 gamepads alone, and what lies between; at most one event
  of the user is unread.  The queue of 5 (65535 in SDL) is rarely full, and then
  for a frame as well as for a gamepad. 4 buffers and a threshold of 2 for i.MX6, 3 and
  2 for MMAL and OpenMAX: pools run empty and full. A codec and a video device of 2:
  writing meets a full one and gives up after 3 attempts.
* `SettingsSaved`: the same programs without a stream.
* `ZeroCopyFrames`: 3 pools of 2 surfaces against 3 exports and 2 images, so that
  every cache is full in some behaviours; 480 and 720 lines, on the two sides of the
  line between BT.601 and BT.709.
* `G2dDevice`: 2 files, which meet at the mutex; 2 buffers of which one is contiguous,
  and a descriptor of anything else: every step can fail for the source and for the
  destination, which may be the same buffer.

`RkStream`, `RkShutdownHangs`, `SettingsSaved`, `Streaming` and `ZeroCopyFrames` say
`CHECK_DEADLOCK FALSE`: their systems stop when the bounded number of frames has been
shown or the program has ended.

### Fairness

Threads are scheduled: a step of a thread that can be taken goes on to be taken (weak
fairness); in `Streaming` these are the receiving thread with a packet it has begun, the
main thread with what is ready, and the devices.  A working decoder gives the frames it
was given.  Requests to the host
return, with an answer or without: `Client` assumes it although `http.c` sets no
timeout.  `LiStartConnection`, `LiStopConnection` and `usleep` return.  Nothing is owed
by the user, the host or the world: no key is released, no device unplugged and no
connection ended by fairness; a liveness property that needs one has it as its
premise.  Mutexes are not assumed to be fair.

## 4. What is proved

`tlapm` checks these for every value of the constants that satisfies the modules'
assumptions (`TableAssumption`, `RumbleAssumption`, `LoopAssumption`, `RkAssumption`,
`GameStreamAssumption`, `OptionsAssumption`, `G2dAssumption`, `KeysAssumption`,
`PointersAssumption`, `MappingAssumption`, `ZeroCopyAssumption`, `StreamingAssumption`, `SettingsAssumption`).

| theorem | says |
|---|---|
| `EvdevProofs!TypeCorrect` | types, for any number of gamepads, slots and ids |
| `EvdevProofs!TableAlwaysOpenDevices` | the table is the open devices, one-to-one |
| `EvdevProofs!IdsAlwaysConsistent` | only id 0 is ever shared, no bit is left behind |
| `EvdevProofs!HostMaskAlwaysCurrent` | the host's mask is `assignedControllerIds` |
| `EvdevProofs!GamepadsAlwaysKeepTheirOwn` | no event of another gamepad takes a gamepad's id, or its thread's entry |
| `EvdevProofs!EmulationAlwaysConsistent` | a thread exactly while the flag is set or the join waits; no button left down |
| `EvdevProofs!RumbleImplementsDevices` | with the host's requests in between, the handlers still implement `EvdevDevices`, whose theorems hold of them |
| `EvdevProofs!RumbleAlwaysFollowsHost` | a gamepad rumbles only while the host asks for it, and keeps no effect that can not be stopped |
| `HostInputProofs!ComboAlwaysQuits` | the quit combo ends the loop once all keys are up, if no keyboard goes and no event is lost |
| `HostInputProofs!HostKeysAlwaysReleased` | while the loop runs no key stays down for the host, evdev in the same case, the window unless another saw it go up; after it only keys that are down here, or whose release was not sent |
| `HostInputProofs!PointerAlwaysFollows` | what the host was told of the pointer adds up to where it was moved, and its button is as it is here once all was read, but for the cases of `mixed` and `unreported` |
| `HostInputProofs!ControlsAlwaysReachHost` | for any gamepads, dialogues and files: what the user does with a control reaches the host as the mapping says, but for what is listed as lost |
| `EventLoopProofs!ArrayAlwaysMatchesSources` | the array has one entry per open source, with its handler |
| `EventLoopProofs!SignalReadNeverBlocks` | the signal descriptor is read only when a signal is there |
| `EventLoopProofs!ArrayIsWatchSet` | each step of the loop is a step of `WatchSet` or a stutter |
| `RkDisplayProofs!BuffersOutliveTheThreads` | a framebuffer that is about to be shown exists |
| `RkDisplayProofs!ConnectorAlwaysRestored` | the connector has its defaults when `rk_cleanup` returns, unless the kernel refuses its last commit |
| `RkDisplayProofs!SteadyAlwaysFaithful` | a stream that keeps its colour space and HDR is shown in them |
| `RkDisplayProofs!FramesNeverReordered` | a commit shows a later frame than the one before, or fails and leaves that |
| `StreamingProofs!NoBufferLost` | on any renderer each buffer is in one place, the semaphore counts what it stands for until the decoder is destroyed, and AMLogic's threads use nothing that is closed |
| `StreamingProofs!FormatAccepted` | the renderer takes what the host was offered, where `ffmpeg_init` ends with a decoder |
| `StreamingProofs!ChannelsReach` | each channel reaches its speaker |
| `StreamingProofs!SettingsReturn` | what `config_save` wrote comes back, for any command lines, files and number of programs |
| `StreamingProofs!GamepadsSeen` | the host has the gamepads SDL could open, and their buttons, for any number of them and of entries |
| `StreamingProofs!EventShowsItsFrameOrLater` | SDL skips a frame only when its buffer was decoded into again or emptied, and shows the frame of the event, or a later one if the ring went round before the upload |
| `ZeroCopyProofs!FrameAlwaysShown` | the memory drawn is the frame's, unless a driver uses ids again |
| `ZeroCopyProofs!PictureAlwaysFits` | an imported picture has the frame's size, and every picture the colours its frame declares |
| `ZeroCopyProofs!ImagesNeverLost` | every image that exists is in a cache, and none is left after `egl_destroy` |
| `ClientProofs!PairAlwaysReportsTruth` | what `pair` printed is what the host holds |
| `ClientProofs!PairingAlwaysKnown` | a program is never wrong in taking itself for paired |
| `ClientProofs!QuitAppAlwaysSent` | a session that was told to quits the application, after the connection |
| `ClientProofs!NeverKilledWhileConnected` | for any options: no signal ends a connected process but through a thread of libCEC, no callback but trigger rumble on an embedded platform |
| `G2dProofs!NothingEverLeaks` | a request that is over leaves no buffer referenced, attached or mapped |
| `G2dProofs!ClocksAlwaysFollowDevice` | registers are touched with the clocks on; the module never goes away under an open file |

*Gamepads.*  `TypeOK` alone is not inductive: while the main thread waits in
`pthread_join` it holds an index into a table whose size it has already lowered, and
what it does after the join is typed only if that index still lies in the table
(`JoinOK`).  `TableIsOpenDevices` says nothing of the entry that is being removed, so
the copy of the last entry over it could double a device; `TableInv` says of the slots
`InUse` (the table and that entry) what the property says of the table, and that no
slot is remembered outside of a join.  `CompactedMoves` gives where each entry of the
compacted table comes from, `MinimumExists` and `NextIdIsFree` that the id found by the
search is free whenever one is.  `IdsConsistent` and `HostMaskCurrent` are inductive
over these.

*Emulation.*  `Carried` says of every handler where the entries after it come from, a
device that was not open or an entry that keeps its id; as the table is one-to-one
(`TableInv`), that the id of a gamepad is stable is a matter of this fact alone.  For
the threads, `FlagInv` adds that the flag of the entry a join waits for is cleared
already, without which the join could leave a gamepad with its flag set and no thread.
That no button is left down on the host (`NoButtonLeft`) is inductive by itself: a
handler that takes a gamepad away, or makes it emulate, sends an event without buttons
or with a mask that lacks it in the same call.

*Rumble.*  `RumbleStepKeepsTable` makes every request a stutter of `EvdevDevices`, so that
`TableInv` holds here as well.  `RumbleInv` says of each gamepad that no request is at work
on (`Settled`) that the kernel has at most the effect its entry names, and that it plays
only if the host asked; of the one that is worked on (`Underway`) what the steps done so
far have established (`Worked`).  Three lemmas say what any handler does to an entry:
it stays (`EntriesStay`), it is added, or it goes and the last one takes its place; so
the proof does not go through the handlers once more.

*Keys.*  The events in a queue are promises: `Owed` says that a key is down or its release
is queued, `Covered` that each event of a queue that puts a key down is followed by its
release if the key is up.  Then everything the host believes to be down is owed a release
by some keyboard, and so is each modifier, by a key that has its bit (left and right share
one, so a bit may be gone while a key is held, never the other way round); four lemmas
say what queueing and taking an event do to the two.  A combo that was pressed stays
remembered, since the keyboard that completed it keeps a modifier until the event that
ends the loop (`KeyDebts`).  The window has one queue and the same argument
(`WindowDebts`).

*Pointers.*  For evdev, `PointerInv` says that while a finger is down the program knows
where it is and where it was put down, unless a coordinate was not reported; that what is
sent is what moved, turned as the picture is, is a case for each of the four rotations.
In a window the movements in the queue lead, each from the one before it, to where the
pointer is (`Chained`), so that what the host is behind is the way from `last_x` to there,
as long as nothing waits that was measured before a warp (`Clean`), and no drag has
gone past the edge (`MovesOwed`); and the
last button event in the queue says how the button is (`ButtonOwed`).  These speak of the
ends of the queue and of neighbours, which a step at either end keeps, so no sum over the
queue is needed.

*Mappings.*  The property speaks of the stream, but whether it holds is decided in the
dialogue, so `MappingInv` follows a mapping through all of its phases.  It says of each name
what the field may hold at any time (`Fits`), and of a name whose step is over what it does
hold (`Done`); both need to know what is still held when a step begins, since that is what
can answer a question that is not its own (`Held`, `Lingers`), which leads to the two
exceptions `AfterHat` and `AfterPedal`.  An index tells its button, and its axis
(`KeyIndexOne`, `AxisIndexOne`, by counting the codes below), so a printed line that is read
again names the same controls (`PrintedEntries`, `Loaded`).  In the stream `Played` says that
`hats_state` is what the user pushes and that the host was told (`Heard`) of every control
that was not lost; that no other control's event disturbs it is a matter of the indices
again, and that the ends of an axis arrive as the ends of a stick or a trigger of
`ConvertStraight`, `ConvertReversed` and `ConvertByte`.  No induction over the events of a
dialogue is needed: the invariant is one over its steps.

*The loop.*  `ArrayOK` says that the two arrays have the same length and each open source
once; `AddedFd`, `FoundFd` and `RemovedFd` are the lemmas about the three operations on
them, of which the last is the swap.  `SignalSeen` is why the garbage in a new entry does
no harm: the entry of the signal descriptor is made before the first `poll`, so what its
`revents` says was written by a `poll`, and only the handler takes the signal away.  For the
refinement, `Loads` are the work of all sources; that the announcements of the monitor do
not run over is a pigeonhole argument (`AnnouncedBound`), since a device is announced at
most once at a time.

*Rockchip.*  `Phases` says which threads have ended at each place of `rk_cleanup`, and
`Buffers` that the group of buffers is there as long as a frame is on its way, from the
frame thread's hand-over to the commit.  A damaged request makes the properties on the
screen a mixture: `Some` (a record of some of the properties) and `Over` (one record laid
over another) say what remains, and that the defaults laid over anything are the
defaults.

For `SteadyAlwaysFaithful` the invariant begins before the first packet: a stream that has
no look yet has nothing in the decoder (`Early`), so no other thread can be at the request
when its only look is set, and nothing is damaged (`Undisturbed`).  What the screen has
once the request is laid over it (`Effective`) is that look from then on, for the plane
at once and for the connector from the first group of buffers (`Faithful`).  For
`FramesNeverReordered`, each place a frame passes, from the screen back over the display
thread, the hand-over, the frame thread and the decoder's two queues to the packet that is
submitted, holds a later frame than the places before it (`OrderInv`).

*Settings.*  `Holds` says of a sequence of lines that it has one for each setting that
differs from the value `config_save` leaves out, and no others; `Written` is put together
from parts of which each holds its settings.  Along the program that reads the file
back, `ReadUpTo` says that the first `n` lines of it have given their settings and that
everything else is built-in; at the end of the file that is `Returned`.  `SavedThere`
remembers that nobody has written to the file since, which is also why a `-save` that is
interrupted must forget what was saved: the earlier file is lost by then.

*Choice of a renderer.*  `ffmpeg_init`'s attempts are a fold over six, unfolded once; the
last one decides.  The formats are those offered for the platform from the moment the
stream is about to begin (`StartupInv`).  The channels are a finite matter for each output.

*Buffers.*  There is one invariant per renderer, and only that of the renderer in use is
kept.  On an i.MX6, how often a buffer's number occurs in the two pipes, the decoder and
the device adds up to one place, with lemmas on how `Append` and `Tail` change
`Occurrences`.  MMAL's and OpenMAX's accounts are of counts, with their types inductive by
themselves; AMLogic's needs that the receiving thread has ended before the clean-up begins
(`AmlInv`).

*SDL's frames.*  The age of an entry of the ring, the frames decoded after it, is the
number of frame events behind its event in the queue, as long as that is less than the
ring has entries, and what waits is the difference of the two counters (`Numbers`).  So the
number `sdl_loop` gives an event is that of its frame, and its skip test is exactly whether
the ring has gone round.  Between the check and the upload (`UploadInv`) the entry holds the
event's frame, or nothing, until the ring has gone round once more, and a later frame from
then on.

*SDL's gamepads.*  `TableInv` needs no queue: the mask is the entries in use, at the host as
well; a controller has at least as many references as entries that will close it
(`Claims`), and exactly one per entry as long as no gamepad had to do without, which is
when `sdl_gamepads` counts the entries in use.  What the host sees once everything is read
depends on what the queue promises (`Promises`), which holds while nothing was lost: a
gamepad is announced at most once and while it is there (`Announced`); a removal is of one
that left (`Left`); each entry is of a gamepad that is there, with its buttons but for the
one event of the user, or its removal waits (`Followed`, `Matches`); and each gamepad has
an entry, or its announcement waits, or one had to do without (`Listed`).  The hard one is
`Waiting`.  A gamepad whose announcement waits has not been used, but for one that
sdlinput_init opened when the table was full: for that one the announcement is read while
the table is still full, because no removal is ahead of it (`Surplus`, `Early`).

*Zero copy.*  An entry of a cache describes the buffer its descriptor was exported from, at the
size the caches were last reset for (`GoodEntry`), and without reuse the id of a surface
tells its buffer (`ExportsOK`).  The conversion is that of the metadata it was derived from
(`ColourOK`), and only images that the driver converts carry one of their own
(`Unconverted`).  A reset empties the caches of linear memory or that of tiled memory,
and leaves the others alone; as a machine has one kind only, these are empty (`GpuOK`).

*Pairing.*  Both properties follow from `PairInv`: a program says nothing before it
ends, and asks over HTTP the second time only when its first request was lost or the
host does not know it.  The second fact is what makes `load_server_status` ask over
HTTPS first, and neither property is inductive without it.  The session's variables do
not occur in the invariant; the steps of `Session` need only that they leave `proc`
alone or end the program.

*Sessions.*  `SessionInv` says that a process with a connection has its signals blocked
exactly when it has no SDL (`Guarded`), which holds because `loop_init` comes before
`LiStartConnection`; that from there on the program's place is "streaming", so what was
asked of the host stays true of it until somebody else meddles; and what each place
after the loop has done (`Stopped`, `AfterQuit`).  `NeverKilledWhileConnected` has no
premise about the options: the two exceptions are states the model reaches, "killed" only with `Unmasked` and "crashed" only
with `Unhandled`, and so `Guarded` has to be kept by every callback but that one.

*G2D.*  `Got` says, for every place of the ioctl, which fields the two imports have set
(`ImportInv`), and only the holder of the mutex is at such a place (`LockInv`).  The
kernel's counts are then those fields of that one caller (`HeldInv`): a sum of two when
both imports are the same buffer, which is why the counts themselves are not inductive.
`DeviceInv` gives for every place of the probe the clocks that are on, and `open_count`
as the number of opened files, which needs `Callers` to be finite.

## 5. Only model-checked

Liveness under fairness, and so the liveness half of the refinement of `WatchSet` and of
`FrameReachesScreen`, is beyond the prover: these, `LastFrameShown`, `StreamEnds` and the other
properties that say that something happens, are checked by TLC within the bounds above.
Every invariant and every action property of the passing runs has a theorem; the
properties that a run refutes have none.

## 6. Not modelled

* The streaming library, FFmpeg, libva, EGL, SDL, libudev and the kernel: only what the
  sources rely on, as external actions.
* Of modelled files: grabbing, buttons and wheel of a mouse, a fourth hat and the details
  of `LiSendControllerArrivalEvent` in `evdev.c`; the line `mapping_load` picks for a gamepad;
  the self-test and the shaders of `egl.c`; setting up VAAPI and `vaapi_queue`; the place and
  rotation of the plane in `rk.c`; the mouse, axes, touch and rumble callbacks of
  `input/sdl.c`, which pass a value on; the set-up of the vendor libraries, but for its
  outcomes; parsing of HTTP and XML.
* Decoding and writing of audio, SPS patching: sequences of library calls on data,
  without control of their own.  CEC, utilities: no state.
* Tools and scripts, vendored code: apart from the program.
* Wording, logging, layout of windows.

## 7. Plan

Models, most important first; each extends a module above or composes with it.

1. `SdlDisplay` with `Session`: the end of a connection through SDL's queue instead of
   a signal, and the option `-viewonly` in `WindowInput` and `SdlInput`, with the sentence of
   README.pod that they contradict.
2. Grabbing in `EvdevKeyboard`; the self-test of `egl.c` in `ZeroCopy`.
3. `mapping_load` before `GamepadMapping`: which of several lines a gamepad gets.

Proofs:

1. What each place of `stream()` and of the renderers' cleanup has to wait for, as the safety
   half of `StreamEnds`.
