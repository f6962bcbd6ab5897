------------------------------- MODULE Window -------------------------------
(***************************************************************************)
(* The window: main creates emulator, display and GUI, runs the guest and  *)
(* deletes them again (main.cpp), while the thread that OpenWindow starts  *)
(* copies video memory to an image and the image to the screen (GUI.cpp,   *)
(* Display.cpp).  The two threads share the objects, msgflg and video      *)
(* memory without a lock.                                                  *)
(*                                                                         *)
(* Pixels are numbered in the order in which Draw visits them, column by   *)
(* column; the image in memory is row by row.  A pixel is copied in one    *)
(* step: only the window thread reads the image.  A screenshot is the PPM  *)
(* file; files can be created.  ended tells how the process ended: an      *)
(* outcome other than "exit" is where the program leaves what C++ defines, *)
(* and nothing is said of what follows.                                    *)
(***************************************************************************)
EXTENDS Naturals, Sequences

CONSTANTS
  Width,     \* scrnx
  Height,    \* scrny
  Colours,   \* bytes that the guest draws with
  OsTypes,   \* 0 for HariboteOS, 1 for xv6
  UserActs   \* what the user does: "screenshot", "close"

Pixels == Width * Height
Pixel == 1 .. Pixels

\* The number of the pixel in column x and row y
At(x, y) == x * Height + y + 1

\* The 16 entries of the palette that are initialised
table_rgb ==
  << <<0, 0, 0>>, <<255, 0, 0>>, <<0, 255, 0>>, <<255, 255, 0>>,
     <<0, 0, 255>>, <<255, 0, 255>>, <<0, 255, 255>>, <<255, 255, 255>>,
     <<198, 198, 198>>, <<132, 0, 0>>, <<0, 132, 0>>, <<132, 132, 0>>,
     <<0, 0, 132>>, <<132, 0, 132>>, <<0, 132, 132>>, <<132, 132, 132>> >>

\* What an entry that is not initialised, or before the palette, or memory
\* that is not yet written happens to hold
Junk == <<>>

\* Mutant: the table is counted from one.
PaletteMutant(n) == IF n \in 1 .. Len(table_rgb) THEN table_rgb[n] ELSE Junk

Palette(n) == IF n < Len(table_rgb) THEN table_rgb[n + 1] ELSE Junk
Shade == {Palette(n) : n \in Colours} \cup {Junk}

ASSUME WindowAssumption ==
  /\ Width \in Nat \ {0} /\ Height \in Nat \ {0}
  /\ Colours \subseteq 0 .. 255
  /\ OsTypes \subseteq {0, 1}
  /\ UserActs \subseteq {"screenshot", "close"}

VARIABLES
  osType,
  main,      \* what main does next
  alive,     \* objects that exist
  hThread,   \* GUI::hThread: "unset", "thread" or "deleted"
  msgflg,    \* GUI::msgflg
  vram,      \* the guest's screen, part of the emulator's memory
  window,    \* what the window thread does next
  drawn,     \* pixels done in the current Draw
  img,       \* Display::img
  g_img,     \* whether the global pointer to it is set
  screen,    \* what the window shows
  dumped,    \* memdump.bin: "no", "written" or "skipped"
  ppm,       \* the last screenshot
  ended,
  recent     \* history: colours each pixel had since the last Draw began

mainVars == <<osType, main, alive, hThread, msgflg, vram, dumped>>
drawVars == <<drawn, img, g_img, screen, ppm>>
vars == <<mainVars, drawVars, window, ended, recent>>

\* The pixels <<X, Y>> of the file: 640 by 400, of a window of 320 by 200
FileWidth == 2 * Width
FileCell == (0 .. FileWidth - 1) \X (0 .. 2 * Height - 1)

Objects == {"emu", "disp", "gui"}
Stages == {"none", "setup", "flag", "events", "first", "second", "show", "gone"}
Steps == {"new emu", "new disp", "new gui", "load", "OpenWindow", "loop", "dump",
          "delete emu", "delete gui", "delete disp", "return"}

Init ==
  /\ osType \in OsTypes
  /\ main = "new emu" /\ alive = {}
  /\ hThread = "unset" /\ msgflg \in BOOLEAN
  /\ vram \in [Pixel -> Colours]
  /\ window = "none" /\ drawn = 0
  /\ img = [p \in Pixel |-> Junk] /\ g_img = FALSE
  /\ screen = img /\ ppm = [c \in FileCell |-> Junk]
  /\ dumped = "no" /\ ended = "no"
  /\ recent = [p \in Pixel |-> {}]

-----------------------------------------------------------------------------
(***************************************************************************)
(* main                                                                    *)
(***************************************************************************)
\* Mutant: the emulator is deleted before its memory is written.
AfterMutant(step) ==
  CASE step = "new emu"     -> "new disp"
    [] step = "new disp"    -> "new gui"
    [] step = "new gui"     -> "load"
    [] step = "load"        -> IF osType = 0 THEN "OpenWindow" ELSE "loop"
    [] step = "OpenWindow"  -> "loop"
    [] step = "loop"        -> "delete emu"
    [] step = "delete emu"  -> "dump"
    [] step = "dump"        -> "delete gui"
    [] step = "delete gui"  -> "delete disp"
    [] OTHER                -> "return"

After(step) ==
  CASE step = "new emu"     -> "new disp"
    [] step = "new disp"    -> "new gui"
    [] step = "new gui"     -> "load"
    [] step = "load"        -> IF osType = 0 THEN "OpenWindow" ELSE "loop"
    [] step = "OpenWindow"  -> "loop"
    [] step = "loop"        -> "dump"
    [] step = "dump"        -> "delete emu"
    [] step = "delete emu"  -> "delete gui"
    [] step = "delete gui"  -> "delete disp"
    [] OTHER                -> "return"

Do(step) == ended = "no" /\ main = step /\ main' = After(step) /\ UNCHANGED osType
Quiet == UNCHANGED <<drawVars, recent>>

\* The constructors; GUI's sets msgflg and takes the display.
Create ==
  \E object \in Objects :
    /\ Do(CASE object = "emu" -> "new emu" [] object = "disp" -> "new disp" [] OTHER -> "new gui")
    /\ alive' = alive \cup {object}
    /\ msgflg' = IF object = "gui" THEN TRUE ELSE msgflg
    /\ UNCHANGED <<hThread, vram, dumped, window, ended>> /\ Quiet

\* LoadBinary and the copies of the boot loader, none of which reaches the
\* video memory.
Load == Do("load") /\ UNCHANGED <<alive, hThread, msgflg, vram, dumped, window, ended>> /\ Quiet

OpenWindow ==
  /\ Do("OpenWindow")
  /\ hThread' = "thread" /\ window' = "setup"
  /\ UNCHANGED <<alive, msgflg, vram, dumped, ended>> /\ Quiet

\* An instruction of the guest writes a pixel.
GuestDraws ==
  /\ ended = "no" /\ main = "loop"
  /\ \E p \in Pixel, c \in Colours :
       /\ vram' = [vram EXCEPT ![p] = c]
       /\ recent' = [recent EXCEPT ![p] = @ \cup {c}]
  /\ UNCHANGED <<osType, main, alive, hThread, msgflg, dumped, window, ended, drawVars>>

LoopEnds == Do("loop") /\ UNCHANGED <<alive, hThread, msgflg, vram, dumped, window, ended>> /\ Quiet

\* DumpRegisters, which prints nothing, and DumpMemory, which gives up when
\* the guest has moved the base of CS past the memory.
Dump ==
  /\ Do("dump")
  /\ IF "emu" \in alive THEN dumped' \in {"written", "skipped"} /\ UNCHANGED ended
                        ELSE ended' = "use after delete" /\ UNCHANGED dumped
  /\ UNCHANGED <<alive, hThread, msgflg, vram, window>> /\ Quiet

Delete(object) == alive' = alive \ {object}

DeleteEmu == Do("delete emu") /\ Delete("emu") /\ UNCHANGED <<hThread, msgflg, vram, dumped, window, ended>> /\ Quiet

\* ~GUI detaches the thread, which goes on, or follows an uninitialised
\* pointer when there is none.
DeleteGui ==
  /\ Do("delete gui") /\ Delete("gui")
  /\ msgflg' = FALSE
  /\ IF hThread = "thread" THEN hThread' = "deleted" /\ UNCHANGED ended
                           ELSE ended' = "wild detach" /\ UNCHANGED hThread
  /\ UNCHANGED <<vram, dumped, window>> /\ Quiet

DeleteDisp == Do("delete disp") /\ Delete("disp") /\ UNCHANGED <<hThread, msgflg, vram, dumped, window, ended>> /\ Quiet

\* The process ends with the window thread wherever it is.
Return == Do("return") /\ ended' = "exit" /\ UNCHANGED <<alive, hThread, msgflg, vram, dumped, window>> /\ Quiet

Main == \/ Create \/ Load \/ OpenWindow \/ GuestDraws \/ LoopEnds \/ Dump
        \/ DeleteEmu \/ DeleteGui \/ DeleteDisp \/ Return

-----------------------------------------------------------------------------
(***************************************************************************)
(* The window thread                                                       *)
(***************************************************************************)
\* Mutant: events are taken between the two copies of a frame.
ThenMutant(stage) ==
  CASE stage = "flag" -> "first" [] stage = "first" -> "events" [] stage = "events" -> "second"
    [] stage = "second" -> "show" [] OTHER -> "flag"

Then(stage) ==
  CASE stage = "flag"   -> "events"
    [] stage = "events" -> "first"
    [] stage = "first"  -> "second"
    [] stage = "second" -> "show"
    [] OTHER            -> "flag"

\* The thread is at stage and uses objects.
Using(stage, objects) == ended = "no" /\ window = stage /\ objects \subseteq alive

\* glutInit, glutCreateWindow and the registration of callbacks
Setup == Using("setup", {"gui"}) /\ window' = Then("setup") /\ UNCHANGED <<mainVars, ended>> /\ Quiet

ReadFlag ==
  /\ Using("flag", {"gui"})
  /\ window' = IF msgflg THEN Then("flag") ELSE "gone"
  /\ UNCHANGED <<mainVars, ended>> /\ Quiet

\* glutMainLoopEvent, without or after callbacks; those of keys and mouse are
\* in OutBuf.
Events ==
  /\ Using("events", {})
  /\ window' = Then("events")
  /\ UNCHANGED <<mainVars, ended>> /\ Quiet

\* LoadRGB and Write take memory for an image of the file's width: every row
\* of the file is the next FileWidth pixels in memory, and after those of the
\* image whatever lies behind it.
FilePixel(c) ==
  LET j == c[2] * FileWidth + c[1]
  IN  IF j < Pixels THEN img[At(j % Width, j \div Width)] ELSE Junk

\* test, the menu's callback, reads four times the size of the image.
Screenshot ==
  /\ "screenshot" \in UserActs /\ Using("events", {})
  /\ ended' \in IF g_img THEN {"no", "read past image"} ELSE {"null image"}
  /\ ppm' = IF ended' = "no" THEN [c \in FileCell |-> FilePixel(c)] ELSE ppm
  /\ UNCHANGED <<mainVars, window, drawn, img, g_img, screen, recent>>

\* close throws through the library to ThreadProc's handler, which reads
\* hMainWin, or ends the process where the library cannot be unwound.
Close ==
  /\ "close" \in UserActs /\ Using("events", {})
  /\ \/ "gui" \in alive /\ window' = "gone" /\ UNCHANGED ended
     \/ "gui" \notin alive /\ ended' = "use after delete" /\ UNCHANGED window
     \/ ended' = "terminate" /\ UNCHANGED window
  /\ UNCHANGED mainVars /\ Quiet

\* Mutant: the last pixel is left out.
CopiedMutant(p) == [img EXCEPT ![p] = IF p = Pixels THEN @ ELSE Palette(vram[p])]

\* A pixel's colour looked up in the palette
Copied(p) == [img EXCEPT ![p] = Palette(vram[p])]

\* Mutant: one pixel too many.
DrawPixelMutant(stage) ==
  /\ Using(stage, IF drawn = 0 THEN Objects ELSE {"emu", "disp"})
  /\ drawn <= Pixels
  /\ img' = Copied(drawn + 1)
  /\ drawn' = drawn + 1
  /\ recent' = IF drawn = 0 THEN [p \in Pixel |-> {vram[p]}] ELSE recent
  /\ UNCHANGED <<mainVars, g_img, screen, ppm, window, ended>>

\* Draw, called twice for each frame; GUI::display loads disp before each.
DrawPixel(stage) ==
  /\ Using(stage, IF drawn = 0 THEN Objects ELSE {"emu", "disp"})
  /\ drawn < Pixels
  /\ img' = Copied(drawn + 1)
  /\ drawn' = drawn + 1
  /\ recent' = IF drawn = 0 THEN [p \in Pixel |-> {vram[p]}] ELSE recent
  /\ UNCHANGED <<mainVars, g_img, screen, ppm, window, ended>>

\* The first Draw is over: img and g_img point to the image.
FirstDrawn ==
  /\ Using("first", {"gui"})
  /\ drawn = Pixels /\ drawn' = 0
  /\ g_img' = TRUE
  /\ window' = Then("first")
  /\ UNCHANGED <<mainVars, img, screen, ppm, ended, recent>>

SecondDrawn ==
  /\ Using("second", {"gui"})
  /\ drawn = Pixels /\ drawn' = 0
  /\ window' = Then("second")
  /\ UNCHANGED <<mainVars, img, g_img, screen, ppm, ended, recent>>

\* glDrawPixels and glFlush
Show ==
  /\ Using("show", {"disp"})
  /\ screen' = img
  /\ window' = Then("show")
  /\ UNCHANGED <<mainVars, drawn, img, g_img, ppm, ended, recent>>

\* What the thread uses next is gone.
UseDeleted ==
  /\ ended = "no"
  /\ ~(CASE window \in {"setup", "flag"} -> "gui" \in alive
         [] window \in {"first", "second"} ->
              CASE drawn = 0 -> Objects \subseteq alive
                [] drawn = Pixels -> "gui" \in alive
                [] OTHER -> {"emu", "disp"} \subseteq alive
         [] window = "show" -> "disp" \in alive
         [] OTHER -> TRUE)
  /\ ended' = "use after delete"
  /\ UNCHANGED <<mainVars, window>> /\ Quiet

Draw == DrawPixel("first") \/ DrawPixel("second")

WindowThread ==
  Setup \/ ReadFlag \/ Events \/ Draw \/ FirstDrawn \/ SecondDrawn \/ Show

User == Screenshot \/ Close

Next == Main \/ WindowThread \/ User \/ UseDeleted

Spec == Init /\ [][Next]_vars

\* The operating system runs the window thread, which never waits.
FairSpec == Spec /\ WF_vars(WindowThread)

-----------------------------------------------------------------------------
TypeOK ==
  /\ osType \in OsTypes /\ main \in Steps
  /\ alive \subseteq Objects /\ hThread \in {"unset", "thread", "deleted"}
  /\ msgflg \in BOOLEAN /\ g_img \in BOOLEAN /\ dumped \in {"no", "written", "skipped"}
  /\ vram \in [Pixel -> Colours]
  /\ window \in Stages /\ drawn \in 0 .. Pixels
  /\ {img, screen} \subseteq [Pixel -> Shade] /\ ppm \in [FileCell -> Shade]
  /\ ended \in {"no", "exit", "use after delete", "wild detach", "null image", "read past image", "terminate"}
  /\ recent \in [Pixel -> SUBSET Colours]

\* Whatever the guest draws meanwhile, a frame that is shown has for each
\* pixel the shade of a colour that it had since the frame's last Draw began:
\* nothing of an earlier frame, or of the fresh image, is left.
ShownIsRecent == [][Show => \A p \in Pixel : screen'[p] \in {Palette(n) : n \in recent[p]}]_vars

\* The window thread and the deletions of main race, and without a window ~GUI
\* detaches through an uninitialised pointer; but main has dumped the memory
\* for inspection before any of this can end the process.
DumpSurvives == ended \in {"use after delete", "wild detach"} => dumped # "no"

\* A screenshot is taken between two frames, never in the middle of a Draw:
\* the file holds every pixel of the frame that the window shows.  It is not
\* the picture of it: the image is loaded with the width of another size, and
\* two rows of the window make one row of the file, side by side.
ScreenshotHoldsFrame ==
  [][ppm' # ppm =>
       \A x \in 0 .. Width - 1, y \in 0 .. Height - 1 :
         ppm'[<<(y % 2) * Width + x, y \div 2>>] = screen[At(x, y)]]_vars

\* A pixel that the guest leaves alone is shown in the red, green and blue of
\* its colour, as long as the window is open and the guest runs.
EventuallyShown ==
  \A p \in Pixel, c \in Colours \cap 0 .. 15 :
    <>[](main = "loop" /\ window \notin {"none", "gone"} /\ ended = "no" /\ vram[p] = c)
      => <>[](screen[p] = table_rgb[c + 1])
=============================================================================
