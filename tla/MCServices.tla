----------------------------- MODULE MCServices -----------------------------
(***************************************************************************)
(* Small instances of the programs outside the kernel: those of Programs,  *)
(* the text consoles, and the file system service with its virtual file    *)
(* system, again as a sum.                                                 *)
(*                                                                         *)
(*  - init: two essential services and the shell, the code's three         *)
(*    restarts, three rounds of waiting for a shutdown;                    *)
(*  - resolver: three drivers with two dependents each at most;            *)
(*  - drivers: two paths, four loads, five processes;                      *)
(*  - keyboard: a letter, both Shift keys, Ctrl with and without prefix,   *)
(*    Caps Lock and an arrow, a queue of two events, three key events;     *)
(*  - console: a screen of two rows and columns, texts that wrap, scroll   *)
(*    and hold what cannot be printed;                                     *)
(*  - vfs, service: "/", the mount point "/m" and "/m/a" below it, mounted *)
(*    by the calls of Vfs or served by FsService.                          *)
(***************************************************************************)
EXTENDS FsService, Programs

VARIABLES owner, vga, vga_status, text, moved

consoleVars == <<owner, vga, vga_status, text, moved>>
allVars == <<programVars, consoleVars, fsVars>>

Console == INSTANCE VgaText WITH
    Height <- 2, Width <- 2, Banner <- <<"V", "\n">>, MaxText <- 4,
    Strings <- {<<"a">>, <<"NUL", "\n">>, <<"\n">>, <<"a", "a", "a">>},
    Colors <- {"white", "red"}, DefaultColor <- "white", status <- vga_status

MCServicesOfInit == <<"fs-service", "driver-manager">>
MCEssentialDrivers == <<"graphics.ko">>
MCKeys == [code : {"A", "LeftShift", "RightShift", "LeftCtrl", "CapsLock"}, ext : {FALSE}]
          \cup [code : {"LeftCtrl", "ArrowUp"}, ext : {TRUE}]
MCMounts == {<<"/">>, <<"/", "m">>}
MCPaths == MCMounts \cup {<<"/", "m", "/", "a">>}
MCFlags == {{"READ_WRITE"}, {"WRITE_ONLY"}, {}}
MCVfsFlags == <<{"READ_WRITE"}, {}>>

ASSUME ConsoleAssumption == Console!VgaAssumption

SumInit ==
    /\ part \in ProgramParts \cup {"console", "vfs", "service"}
    /\ ProgramsStart /\ Console!Init /\ ServiceInit

OfPrograms(A) == A /\ UNCHANGED <<consoleVars, fsVars>>
OfConsole(A) == part = "console" /\ A /\ UNCHANGED <<programVars, fsVars>>
OfFiles(A) == A /\ UNCHANGED <<programVars, consoleVars>>

\* bounds on what is explored: offsets of the descriptors
OffsetsWithin(n) == \A fd \in DOMAIN open_files' : open_files'[fd].offset <= n

SumNext ==
    \/ OfPrograms(ProgramsNext) \/ OfConsole(Console!Next)
    \/ /\ part = "vfs" /\ OfFiles(Next) /\ UNCHANGED <<phase, reply>>
       /\ \A fd \in DOMAIN open_files' : open_files'[fd].flags = MCVfsFlags[fd]
       /\ OffsetsWithin(1)
    \/ part = "service" /\ OfFiles(ServiceNext) /\ (phase' = "stopped" => OffsetsWithin(0))

\* Init is scheduled again and again, and a call of get_unload_order runs on until it ends;
\* nothing is assumed of the services' processes or of who makes requests.
SumSpec ==
    /\ SumInit /\ [][SumNext]_allVars
    /\ WF_allVars(OfPrograms(OfInit(InitProc!InitSteps)))
    /\ WF_allVars(OfPrograms(OfResolver(Resolver!Iterate)))
    /\ WF_allVars(OfPrograms(OfResolver(Resolver!Return)))
-----------------------------------------------------------------------------
\* drivers/graphics and vga_buffer.rs: the screen shows the end of what was written to it.
ScreenShowsText == Console!ScreenShowsText
=============================================================================
