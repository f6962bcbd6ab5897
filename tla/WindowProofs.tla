---------------------------- MODULE WindowProofs ----------------------------
(***************************************************************************)
(* Proofs about the window (Window): that the memory dump precedes every   *)
(* use of a deleted object, that a frame shown is made of recent colours,  *)
(* and where a screenshot keeps the frame shown, for any size of the       *)
(* screen, any colours and any user.                                       *)
(***************************************************************************)
EXTENDS Window, Integers, TLAPS

Starting == {"new emu", "new disp", "new gui", "load", "OpenWindow"}
Ending == {"delete emu", "delete gui", "delete disp", "return"}
ShadesOf(p) == {Palette(n) : n \in recent[p]}

\* Which objects exist, by what main does next.
Lives ==
  /\ "emu" \in alive <=> main \notin {"new emu", "delete gui", "delete disp", "return"}
  /\ "disp" \in alive <=> main \notin {"new emu", "new disp", "return"}
  /\ "gui" \in alive <=> main \notin {"new emu", "new disp", "new gui", "delete disp", "return"}

\* The thread starts after the objects it uses, and the dump comes before the
\* first of them goes.
Order ==
  /\ window # "none" => main \notin Starting
  /\ dumped = "no" => main \notin Ending

\* How far Draw has come.
Frame ==
  /\ drawn # 0 => window \in {"first", "second"}
  /\ drawn # 0 => \A p \in Pixel : vram[p] \in recent[p]
  /\ \A p \in 1 .. drawn : img[p] \in ShadesOf(p)
  /\ window = "show" => \A p \in Pixel : img[p] \in ShadesOf(p)

\* Between two frames the image is what is shown.
Between == window \in {"none", "setup", "flag", "events"} => screen = img

Inv == TypeOK /\ Lives /\ Order /\ DumpSurvives /\ Frame /\ Between

-----------------------------------------------------------------------------
LEMMA Numbers == Pixels \in Nat /\ Pixels >= 1
<1>1. Width \in Nat /\ Height \in Nat /\ Width >= 1 /\ Height >= 1
  BY WindowAssumption
<1>2. Width * Height \in Nat /\ Width * Height >= 1
  BY <1>1
<1>3. QED
  BY <1>2 DEF Pixels

\* Outside Draw, before the frame is complete.
LEMMA NoFrame == drawn = 0 /\ window # "show" => Frame
  BY DEF Frame

LEMMA InitInv == Init => Inv
<1> SUFFICES ASSUME Init PROVE Inv
  OBVIOUS
<1> USE DEF Init
<1>1. Junk \in Shade
  BY DEF Shade
<1>2. TypeOK
  <2>1. img \in [Pixel -> Shade] /\ screen = img /\ ppm \in [FileCell -> Shade]
    BY <1>1
  <2>2. recent \in [Pixel -> SUBSET Colours]
    OBVIOUS
  <2>3. drawn \in 0 .. Pixels
    <3>1. drawn = 0 /\ 0 \in 0 .. Pixels
      <4>1. 0 \in 0 .. Pixels
        BY ONLY Numbers
      <4>2. QED
        BY <4>1
    <3>2. QED
      BY ONLY <3>1
  <2>5. g_img \in BOOLEAN /\ msgflg \in BOOLEAN
    OBVIOUS
  <2>4. /\ osType \in OsTypes /\ main \in Steps /\ alive \subseteq Objects
        /\ hThread \in {"unset", "thread", "deleted"} /\ vram \in [Pixel -> Colours] /\ window \in Stages
        /\ dumped \in {"no", "written", "skipped"} /\ ended = "no"
    BY DEF Steps, Stages
  <2> QED
    BY <2>1, <2>2, <2>3, <2>4, <2>5 DEF TypeOK
<1>3. Lives /\ Order /\ DumpSurvives
  BY DEF Lives, Order, DumpSurvives, Starting, Ending
<1>4. Frame
  <2>1. drawn = 0 /\ window = "none"
    OBVIOUS
  <2>2. QED
    BY <2>1, NoFrame
<1>5. Between
  BY DEF Between
<1>6. QED
  BY <1>2, <1>3, <1>4, <1>5 DEF Inv

\* What main does next is a step of main.
LEMMA AfterType ==
  ASSUME NEW step \in Steps
  PROVE  /\ After(step) \in Steps
         /\ step = "new emu" => After(step) = "new disp"
         /\ step = "new disp" => After(step) = "new gui"
         /\ step = "new gui" => After(step) = "load"
         /\ step = "load" => After(step) \in {"OpenWindow", "loop"}
         /\ step = "OpenWindow" => After(step) = "loop"
         /\ step = "loop" => After(step) = "dump"
         /\ step = "dump" => After(step) = "delete emu"
         /\ step = "delete emu" => After(step) = "delete gui"
         /\ step = "delete gui" => After(step) = "delete disp"
         /\ step \in {"delete disp", "return"} => After(step) = "return"
  BY DEF After, Steps

LEMMA ThenType ==
  /\ Then("setup") = "flag" /\ Then("flag") = "events" /\ Then("events") = "first"
  /\ Then("first") = "second" /\ Then("second") = "show" /\ Then("show") = "flag"
  BY DEF Then

\* Steps of main leave the frame alone, except the guest's.
LEMMA MainStep ==
  ASSUME Inv, Main
  PROVE  Inv'
<1> USE DEF Inv
<1>1. main \in Steps
  BY DEF TypeOK
<1>2. CASE Create
  <2>1. PICK object \in Objects :
          /\ Do(CASE object = "emu" -> "new emu" [] object = "disp" -> "new disp" [] OTHER -> "new gui")
          /\ alive' = alive \cup {object}
          /\ msgflg' = IF object = "gui" THEN TRUE ELSE msgflg
    BY <1>2 DEF Create
  <2>2. UNCHANGED <<hThread, vram, dumped, window, ended, osType, drawn, img, g_img, screen, ppm, recent>>
    BY <1>2 DEF Create, Quiet, Do, drawVars
  <2>3. \/ object = "emu" /\ main = "new emu" /\ main' = "new disp"
        \/ object = "disp" /\ main = "new disp" /\ main' = "new gui"
        \/ object = "gui" /\ main = "new gui" /\ main' = "load"
    BY <2>1, <1>1, AfterType DEF Do, Objects
  <2>4. TypeOK'
    BY <2>1, <2>2, <2>3 DEF TypeOK, Steps
  <2>5. Lives'
    BY <2>1, <2>3 DEF Lives
  <2>6. Order' /\ DumpSurvives'
    BY <2>2, <2>3 DEF Order, DumpSurvives, Starting, Ending
  <2>7. Frame' /\ Between'
    BY <2>2 DEF Frame, Between, ShadesOf
  <2>8. QED
    BY <2>4, <2>5, <2>6, <2>7
<1>3. CASE Load
  <2>1. main = "load" /\ main' \in {"OpenWindow", "loop"}
    BY <1>1, <1>3, AfterType DEF Load, Do
  <2>2. UNCHANGED <<alive, hThread, msgflg, vram, dumped, window, ended, osType, drawn, img, g_img, screen, ppm, recent>>
    BY <1>3 DEF Load, Quiet, Do, drawVars
  <2>3. TypeOK'
    BY <2>1, <2>2 DEF TypeOK, Steps
  <2>4. Lives' /\ Order' /\ DumpSurvives'
    BY <2>1, <2>2 DEF Lives, Order, DumpSurvives, Starting, Ending
  <2>5. Frame' /\ Between'
    BY <2>2 DEF Frame, Between, ShadesOf
  <2>6. QED
    BY <2>3, <2>4, <2>5
<1>4. CASE OpenWindow
  <2>1. main = "OpenWindow" /\ main' = "loop" /\ hThread' = "thread" /\ window' = "setup"
    BY <1>1, <1>4, AfterType DEF OpenWindow, Do
  <2>2. UNCHANGED <<alive, msgflg, vram, dumped, ended, osType, drawn, img, g_img, screen, ppm, recent>>
    BY <1>4 DEF OpenWindow, Quiet, Do, drawVars
  <2>3. window = "none"
    BY <2>1 DEF Order, Starting
  <2>4. TypeOK'
    BY <2>1, <2>2 DEF TypeOK, Steps, Stages
  <2>5. Lives' /\ Order' /\ DumpSurvives'
    BY <2>1, <2>2 DEF Lives, Order, DumpSurvives, Starting, Ending
  <2>6. Frame' /\ Between'
    BY <2>1, <2>2, <2>3 DEF Frame, Between, ShadesOf
  <2>7. QED
    BY <2>4, <2>5, <2>6
<1>5. CASE GuestDraws
  <2>1. PICK p \in Pixel, c \in Colours :
          vram' = [vram EXCEPT ![p] = c] /\ recent' = [recent EXCEPT ![p] = @ \cup {c}]
    BY <1>5 DEF GuestDraws
  <2>2. UNCHANGED <<osType, main, alive, hThread, msgflg, dumped, window, ended, drawn, img, g_img, screen, ppm>>
    BY <1>5 DEF GuestDraws, drawVars
  <2>3. vram \in [Pixel -> Colours] /\ recent \in [Pixel -> SUBSET Colours] /\ drawn \in 0 .. Pixels
    BY DEF TypeOK
  <2>4. vram' \in [Pixel -> Colours] /\ recent' \in [Pixel -> SUBSET Colours]
    BY <2>1, <2>3
  <2>5. \A q \in Pixel : recent[q] \subseteq recent'[q] /\ (vram[q] \in recent[q] => vram'[q] \in recent'[q])
    BY <2>1, <2>3
  <2>6. TypeOK'
    BY <2>2, <2>4 DEF TypeOK
  <2>7. Lives' /\ Order' /\ DumpSurvives' /\ Between'
    BY <2>2 DEF Lives, Order, DumpSurvives, Between
  <2>8. \A q \in Pixel : ShadesOf(q) \subseteq ShadesOf(q)'
    BY <2>5 DEF ShadesOf
  <2>9. \A q \in 1 .. drawn : q \in Pixel
    BY <2>3, Numbers DEF Pixel
  <2>10. Frame'
    BY <2>2, <2>5, <2>8, <2>9 DEF Frame
  <2>11. QED
    BY <2>6, <2>7, <2>10
<1>6. CASE LoopEnds
  <2>1. main = "loop" /\ main' = "dump"
    BY <1>1, <1>6, AfterType DEF LoopEnds, Do
  <2>2. UNCHANGED <<alive, hThread, msgflg, vram, dumped, window, ended, osType, drawn, img, g_img, screen, ppm, recent>>
    BY <1>6 DEF LoopEnds, Quiet, Do, drawVars
  <2>3. TypeOK'
    BY <2>1, <2>2 DEF TypeOK, Steps
  <2>4. Lives' /\ Order' /\ DumpSurvives'
    BY <2>1, <2>2 DEF Lives, Order, DumpSurvives, Starting, Ending
  <2>5. Frame' /\ Between'
    BY <2>2 DEF Frame, Between, ShadesOf
  <2>6. QED
    BY <2>3, <2>4, <2>5
<1>7. CASE Dump
  <2>1. main = "dump" /\ main' = "delete emu"
    BY <1>1, <1>7, AfterType DEF Dump, Do
  <2>2. "emu" \in alive
    BY <2>1 DEF Lives
  <2>3. dumped' \in {"written", "skipped"} /\ ended' = ended
    BY <1>7, <2>2 DEF Dump
  <2>4. UNCHANGED <<alive, hThread, msgflg, vram, window, osType, drawn, img, g_img, screen, ppm, recent>>
    BY <1>7 DEF Dump, Quiet, Do, drawVars
  <2>5. TypeOK'
    BY <2>1, <2>3, <2>4 DEF TypeOK, Steps
  <2>6. Lives' /\ Order' /\ DumpSurvives'
    BY <2>1, <2>3, <2>4 DEF Lives, Order, DumpSurvives, Starting, Ending
  <2>7. Frame' /\ Between'
    BY <2>4 DEF Frame, Between, ShadesOf
  <2>8. QED
    BY <2>5, <2>6, <2>7
<1>8. CASE DeleteEmu \/ DeleteDisp
  <2>1. \/ main = "delete emu" /\ main' = "delete gui" /\ alive' = alive \ {"emu"}
        \/ main = "delete disp" /\ main' = "return" /\ alive' = alive \ {"disp"}
    BY <1>1, <1>8, AfterType DEF DeleteEmu, DeleteDisp, Delete, Do
  <2>2. UNCHANGED <<hThread, msgflg, vram, dumped, window, ended, osType, drawn, img, g_img, screen, ppm, recent>>
    BY <1>8 DEF DeleteEmu, DeleteDisp, Quiet, Do, drawVars
  <2>3. TypeOK'
    BY <2>1, <2>2 DEF TypeOK, Steps
  <2>4. Lives'
    BY <2>1 DEF Lives
  <2>5. Order' /\ DumpSurvives'
    BY <2>1, <2>2 DEF Order, DumpSurvives, Starting, Ending
  <2>6. Frame' /\ Between'
    BY <2>2 DEF Frame, Between, ShadesOf
  <2>7. QED
    BY <2>3, <2>4, <2>5, <2>6
<1>9. CASE DeleteGui
  <2>1. main = "delete gui" /\ main' = "delete disp" /\ alive' = alive \ {"gui"} /\ msgflg' = FALSE
    BY <1>1, <1>9, AfterType DEF DeleteGui, Delete, Do
  <2>2. hThread' \in {hThread, "deleted"} /\ ended' \in {ended, "wild detach"}
    BY <1>9 DEF DeleteGui
  <2>3. UNCHANGED <<vram, dumped, window, osType, drawn, img, g_img, screen, ppm, recent>>
    BY <1>9 DEF DeleteGui, Quiet, Do, drawVars
  <2>4. dumped # "no"
    BY <2>1 DEF Order, Ending
  <2>5. TypeOK'
    BY <2>1, <2>2, <2>3 DEF TypeOK, Steps
  <2>6. Lives'
    BY <2>1 DEF Lives
  <2>7. Order' /\ DumpSurvives'
    BY <2>1, <2>3, <2>4 DEF Order, DumpSurvives, Starting
  <2>8. Frame' /\ Between'
    BY <2>3 DEF Frame, Between, ShadesOf
  <2>9. QED
    BY <2>5, <2>6, <2>7, <2>8
<1>10. CASE Return
  <2>1. main = "return" /\ main' = "return" /\ ended' = "exit"
    BY <1>1, <1>10, AfterType DEF Return, Do
  <2>2. UNCHANGED <<alive, hThread, msgflg, vram, dumped, window, osType, drawn, img, g_img, screen, ppm, recent>>
    BY <1>10 DEF Return, Quiet, Do, drawVars
  <2>3. TypeOK'
    BY <2>1, <2>2 DEF TypeOK
  <2>4. Lives' /\ Order' /\ DumpSurvives'
    BY <2>1, <2>2 DEF Lives, Order, DumpSurvives, Starting, Ending
  <2>5. Frame' /\ Between'
    BY <2>2 DEF Frame, Between, ShadesOf
  <2>6. QED
    BY <2>3, <2>4, <2>5
<1>11. QED
  BY <1>2, <1>3, <1>4, <1>5, <1>6, <1>7, <1>8, <1>9, <1>10 DEF Main

\* A pixel is copied.
LEMMA DrawStep ==
  ASSUME Inv, NEW stage \in {"first", "second"}, DrawPixel(stage)
  PROVE  Inv'
<1> USE DEF Inv
<1>1. /\ window = stage /\ drawn < Pixels /\ drawn' = drawn + 1 /\ img' = Copied(drawn + 1)
      /\ recent' = IF drawn = 0 THEN [p \in Pixel |-> {vram[p]}] ELSE recent
      /\ UNCHANGED <<osType, main, alive, hThread, msgflg, vram, dumped, g_img, screen, ppm, window, ended>>
  BY DEF DrawPixel, Using, mainVars
<1>2. /\ vram \in [Pixel -> Colours] /\ recent \in [Pixel -> SUBSET Colours] /\ drawn \in 0 .. Pixels
      /\ img \in [Pixel -> Shade]
  BY DEF TypeOK
<1>3. drawn + 1 \in Pixel /\ drawn' \in 1 .. Pixels /\ 1 .. drawn' \subseteq Pixel
  BY <1>1, <1>2, Numbers DEF Pixel
<1>4. img' = [img EXCEPT ![drawn + 1] = Palette(vram[drawn + 1])]
  BY <1>1 DEF Copied
<1>5. Palette(vram[drawn + 1]) \in Shade
  BY <1>2, <1>3 DEF Shade
<1>6. img' \in [Pixel -> Shade] /\ recent' \in [Pixel -> SUBSET Colours]
  <2>1. img' \in [Pixel -> Shade]
    BY <1>2, <1>3, <1>4, <1>5
  <2>2. [p \in Pixel |-> {vram[p]}] \in [Pixel -> SUBSET Colours]
    BY <1>2
  <2>3. recent' = [p \in Pixel |-> {vram[p]}] \/ recent' = recent
    BY <1>1
  <2>4. QED
    BY <1>2, <2>1, <2>2, <2>3
<1>7. TypeOK'
  <2>1. msgflg' \in BOOLEAN /\ g_img' \in BOOLEAN
    BY <1>1 DEF TypeOK
  <2>2. drawn' \in 0 .. Pixels
    BY <1>3, Numbers
  <2>3. QED
    BY <1>1, <1>6, <2>1, <2>2 DEF TypeOK
<1>8. Lives' /\ Order' /\ DumpSurvives' /\ Between'
  BY <1>1 DEF Lives, Order, DumpSurvives, Between
<1>9. \A p \in Pixel : vram'[p] \in recent'[p]
  BY <1>1, <1>2 DEF Frame
<1>10. ASSUME NEW p \in 1 .. drawn' PROVE img'[p] \in ShadesOf(p)'
  <2>1. p \in Pixel
    BY <1>3
  <2>2. CASE p = drawn + 1
    <3>1. img'[p] = Palette(vram'[p])
      BY <1>1, <1>2, <1>3, <1>4, <2>2
    <3>2. QED
      BY <1>9, <2>1, <3>1 DEF ShadesOf
  <2>3. CASE p # drawn + 1
    <3>1. p \in 1 .. drawn /\ drawn # 0
      BY <1>1, <1>2, <2>3
    <3>2. img'[p] = img[p] /\ recent' = recent
      BY <1>1, <1>2, <1>4, <2>1, <2>3, <3>1
    <3>3. QED
      BY <3>1, <3>2 DEF Frame, ShadesOf
  <2>4. QED
    BY <2>2, <2>3
<1>11. Frame'
  BY <1>1, <1>9, <1>10 DEF Frame
<1>12. QED
  BY <1>7, <1>8, <1>11

LEMMA WindowStep ==
  ASSUME Inv, WindowThread
  PROVE  Inv'
<1> USE DEF Inv
<1>1. CASE Setup \/ ReadFlag \/ Events
  <2>1. /\ window \in {"setup", "flag", "events"}
        /\ window' \in {"flag", "events", "gone", "first"}
        /\ (window' \in {"flag", "events"} => window \in {"setup", "flag"})
    BY <1>1, ThenType DEF Setup, ReadFlag, Events, Using
  <2>2. UNCHANGED <<mainVars, drawVars, ended, recent>>
    BY <1>1 DEF Setup, ReadFlag, Events, Quiet
  <2>3. drawn = 0
    BY <2>1 DEF Frame, TypeOK
  <2>4. UNCHANGED <<osType, main, alive, hThread, msgflg, vram, dumped, drawn, img, g_img, screen, ppm, ended, recent>>
    BY <2>2 DEF mainVars, drawVars
  <2>5. TypeOK'
    BY <2>1, <2>4 DEF TypeOK, Stages
  <2>6. Lives' /\ Order' /\ DumpSurvives' /\ Between'
    BY <2>1, <2>4 DEF Lives, Order, DumpSurvives, Between
  <2>7. Frame'
    BY <2>1, <2>3, <2>4 DEF Frame
  <2>8. QED
    BY <2>5, <2>6, <2>7
<1>2. CASE Draw
  BY <1>2, DrawStep DEF Draw
<1>3. CASE FirstDrawn \/ SecondDrawn
  <2>1. /\ \/ window = "first" /\ window' = "second"
           \/ window = "second" /\ window' = "show"
        /\ drawn = Pixels /\ drawn' = 0 /\ g_img' \in {g_img, TRUE}
        /\ UNCHANGED <<osType, main, alive, hThread, msgflg, vram, dumped, img, screen, ppm, ended, recent>>
    <3>1. CASE FirstDrawn
      BY <3>1, ThenType DEF FirstDrawn, Using, mainVars
    <3>2. CASE SecondDrawn
      BY <3>2, ThenType DEF SecondDrawn, Using, mainVars
    <3>3. QED
      BY <1>3, <3>1, <3>2
  <2>2. TypeOK'
    <3>1. msgflg' \in BOOLEAN /\ g_img' \in BOOLEAN
      BY <2>1 DEF TypeOK
    <3>2. drawn' \in 0 .. Pixels /\ window' \in Stages
      BY <2>1, Numbers DEF Stages
    <3>3. QED
      BY <2>1, <3>1, <3>2 DEF TypeOK
  <2>3. Lives' /\ Order' /\ DumpSurvives' /\ Between'
    BY <2>1 DEF Lives, Order, DumpSurvives, Between
  <2>4. \A p \in Pixel : img[p] \in ShadesOf(p)
    BY <2>1 DEF Frame, Pixel
  <2>5. Frame'
    BY <2>1, <2>4 DEF Frame, ShadesOf
  <2>6. QED
    BY <2>2, <2>3, <2>5
<1>4. CASE Show
  <2>1. /\ window = "show" /\ window' = "flag" /\ screen' = img
        /\ UNCHANGED <<osType, main, alive, hThread, msgflg, vram, dumped, drawn, img, g_img, ppm, ended, recent>>
    BY <1>4, ThenType DEF Show, Using, mainVars
  <2>2. drawn = 0
    BY <2>1 DEF Frame, TypeOK
  <2>3. TypeOK'
    BY <2>1 DEF TypeOK, Stages
  <2>4. Lives' /\ Order' /\ DumpSurvives' /\ Between'
    BY <2>1 DEF Lives, Order, DumpSurvives, Between
  <2>5. Frame'
    BY <2>1, <2>2 DEF Frame
  <2>6. QED
    BY <2>3, <2>4, <2>5
<1>5. QED
  BY <1>1, <1>2, <1>3, <1>4 DEF WindowThread

\* Once the window thread exists, an object is missing only after the dump.
LEMMA GoneAfterDump ==
  ASSUME TypeOK, Lives, Order, window # "none", ~(Objects \subseteq alive)
  PROVE  dumped # "no"
<1>1. SUFFICES ASSUME dumped = "no" PROVE FALSE
  OBVIOUS
<1>2. main \in {"loop", "dump"}
  BY <1>1 DEF Order, Starting, Ending, TypeOK, Steps
<1>3. QED
  BY <1>2 DEF Lives, Objects

-----------------------------------------------------------------------------
(***************************************************************************)
(* Where pixels are in the file.                                           *)
(***************************************************************************)
\* Quotient and remainder are the only ones.
LEMMA Digits ==
  ASSUME NEW m \in Nat \ {0}, NEW q \in Int, NEW r \in 0 .. m - 1
  PROVE  (m * q + r) \div m = q /\ (m * q + r) % m = r
<1> DEFINE n == m * q + r
           a == n \div m
           b == n % m
<1>1. a \in Int /\ b \in 0 .. m - 1 /\ m * q + r = m * a + b
  <2>1. n \in Int
    OBVIOUS
  <2>2. QED
    BY <2>1
<1> HIDE DEF a, b
<1> DEFINE d == a - q
<1>2. d \in Int /\ m * d = r - b
  BY <1>1
<1> HIDE DEF d
<1>3. ~(d >= 1)
  <2>1. SUFFICES ASSUME d >= 1 PROVE FALSE
    OBVIOUS
  <2>2. m * d >= m
    BY <1>2, <2>1
  <2>3. QED
    BY <1>1, <1>2, <2>2
<1>4. ~(d <= -1)
  <2>1. SUFFICES ASSUME d <= -1 PROVE FALSE
    OBVIOUS
  <2>2. m * d <= -m
    BY <1>2, <2>1
  <2>3. QED
    BY <1>1, <1>2, <2>2
<1>5. d = 0
  BY <1>2, <1>3, <1>4
<1>6. a = q /\ b = r
  BY <1>1, <1>2, <1>5 DEF d
<1>7. QED
  BY <1>6 DEF a, b

\* Column x of row y has a number, and every number below Pixels is that of a
\* column and a row.
LEMMA AtPixel ==
  ASSUME NEW x \in 0 .. Width - 1, NEW y \in 0 .. Height - 1
  PROVE  At(x, y) \in Pixel /\ Width * y + x \in 0 .. Pixels - 1
<1>1. Width \in Nat /\ Height \in Nat /\ Width >= 1 /\ Height >= 1
  BY WindowAssumption
<1>2. x * Height \in Nat /\ x * Height <= (Width - 1) * Height
  BY <1>1
<1>3. (Width - 1) * Height = Width * Height - Height
  BY <1>1
<1>4. Width * y \in Nat /\ Width * y <= Width * (Height - 1)
  BY <1>1
<1>5. Width * (Height - 1) = Width * Height - Width
  BY <1>1
<1>6. Width * Height \in Nat
  BY <1>1
<1>7. QED
  BY <1>1, <1>2, <1>3, <1>4, <1>5, <1>6 DEF At, Pixel, Pixels

\* A pixel of the file is one of the image, or memory behind it.
LEMMA FilePixelType ==
  ASSUME TypeOK, NEW c \in FileCell
  PROVE  FilePixel(c) \in Shade
<1> DEFINE j == c[2] * FileWidth + c[1]
<1>1. Width \in Nat /\ Height \in Nat /\ Width >= 1 /\ Height >= 1
  BY WindowAssumption
<1>2. j \in Nat
  BY <1>1 DEF FileCell, FileWidth
<1> HIDE DEF j
<1>3. CASE j < Pixels
  <2> DEFINE x == j % Width
             y == j \div Width
  <2>1. x \in 0 .. Width - 1 /\ y \in Int /\ j = Width * y + x
    BY <1>1, <1>2
  <2> HIDE DEF x, y
  <2>2. y >= 0
    <3>1. SUFFICES ASSUME y <= -1 PROVE FALSE
      BY <2>1
    <3>2. Width * y <= -Width
      BY <1>1, <2>1, <3>1
    <3>3. QED
      BY <1>1, <1>2, <2>1, <3>2
  <2>3. y <= Height - 1
    <3>1. SUFFICES ASSUME y >= Height PROVE FALSE
      BY <1>1, <2>1
    <3>2. Width * y >= Width * Height
      BY <1>1, <2>1, <3>1
    <3>3. QED
      BY <1>1, <1>2, <1>3, <2>1, <3>2 DEF Pixels
  <2>4. At(x, y) \in Pixel
    BY <1>1, <2>1, <2>2, <2>3, AtPixel
  <2>5. QED
    BY <1>3, <2>4 DEF FilePixel, j, x, y, TypeOK
<1>4. CASE ~(j < Pixels)
  BY <1>4 DEF FilePixel, j, Shade
<1>5. QED
  BY <1>3, <1>4

\* Two rows of the window make one of the file.
LEMMA RowsInPairs ==
  ASSUME NEW x \in 0 .. Width - 1, NEW y \in 0 .. Height - 1
  PROVE  LET c == <<(y % 2) * Width + x, y \div 2>>
         IN  c \in FileCell /\ FilePixel(c) = img[At(x, y)]
<1> DEFINE a == y \div 2
           b == y % 2
           c == <<b * Width + x, a>>
<1>1. Width \in Nat \ {0} /\ Height \in Nat \ {0}
  BY WindowAssumption
<1>2. a \in Int /\ b \in 0 .. 1 /\ y = 2 * a + b
  BY <1>1
<1> HIDE DEF a, b
<1>3. a \in 0 .. 2 * Height - 1
  BY <1>1, <1>2
<1>4. b * Width + x \in 0 .. FileWidth - 1
  <2>1. CASE b = 0
    BY <1>1, <2>1 DEF FileWidth
  <2>2. CASE b = 1
    BY <1>1, <2>2 DEF FileWidth
  <2>3. QED
    BY <1>2, <2>1, <2>2
<1>5. a * FileWidth + (b * Width + x) = Width * y + x
  <2>1. Width * (2 * a + b) = a * (2 * Width) + b * Width
    BY <1>1, <1>2
  <2>2. QED
    BY <1>1, <1>2, <2>1 DEF FileWidth
<1>6. Width * y + x < Pixels
  BY AtPixel, Numbers
<1>7. (Width * y + x) % Width = x /\ (Width * y + x) \div Width = y
  BY <1>1, Digits
<1>8. c \in FileCell
  BY <1>3, <1>4 DEF FileCell
<1>9. FilePixel(c) = img[At(x, y)]
  BY <1>5, <1>6, <1>7 DEF FilePixel
<1>10. QED
  BY <1>8, <1>9 DEF a, b

LEMMA UserStep ==
  ASSUME Inv, User
  PROVE  Inv'
<1> USE DEF Inv
<1>1. /\ window = "events" /\ window' \in {"events", "gone"}
      /\ ended' \in {"no", "read past image", "null image", "terminate", "use after delete"}
      /\ ended' = "use after delete" => "gui" \notin alive
      /\ ppm' = ppm \/ ppm' = [c \in FileCell |-> FilePixel(c)]
      /\ UNCHANGED <<osType, main, alive, hThread, msgflg, vram, dumped, drawn, img, g_img, screen, recent>>
  <2>1. CASE Screenshot
    BY <2>1 DEF Screenshot, Using, mainVars
  <2>2. CASE Close
    BY <2>2 DEF Close, Using, mainVars, drawVars, Quiet
  <2>3. QED
    BY <2>1, <2>2 DEF User
<1>2. drawn = 0
  BY <1>1 DEF Frame, TypeOK
<1>3. TypeOK'
  <2>1. ppm' \in [FileCell -> Shade]
    <3>1. [c \in FileCell |-> FilePixel(c)] \in [FileCell -> Shade]
      BY FilePixelType
    <3>2. QED
      BY <1>1, <3>1 DEF TypeOK
  <2>2. QED
    BY <1>1, <2>1 DEF TypeOK, Stages
<1>4. Lives' /\ Order' /\ Between'
  BY <1>1 DEF Lives, Order, Between
<1>d. DumpSurvives'
  <2>1. "gui" \notin alive /\ window # "none" => dumped # "no"
    BY GoneAfterDump DEF Objects
  <2>2. QED
    BY <1>1, <2>1 DEF DumpSurvives
<1>5. Frame'
  <2>1. drawn' = 0 /\ window' # "show"
    BY <1>1, <1>2
  <2>2. QED
    BY <2>1 DEF Frame
<1>6. QED
  BY <1>3, <1>4, <1>d, <1>5

\* Before the dump nothing that the thread uses is gone.
LEMMA UseDeletedStep ==
  ASSUME Inv, UseDeleted
  PROVE  Inv'
<1> USE DEF Inv
<1>1. /\ ended' = "use after delete"
      /\ UNCHANGED <<osType, main, alive, hThread, msgflg, vram, dumped, window, drawn, img, g_img, screen, ppm, recent>>
  BY DEF UseDeleted, mainVars, drawVars, Quiet
<1>2. window # "none" /\ ~(Objects \subseteq alive)
  BY DEF UseDeleted, Objects
<1>3. dumped # "no"
  BY <1>2, GoneAfterDump
<1>4. TypeOK'
  BY <1>1 DEF TypeOK
<1>5. Lives' /\ Order' /\ DumpSurvives' /\ Between'
  BY <1>1, <1>3 DEF Lives, Order, DumpSurvives, Between
<1>6. Frame'
  BY <1>1 DEF Frame, ShadesOf
<1>7. QED
  BY <1>4, <1>5, <1>6

LEMMA InvStep == Inv /\ [Next]_vars => Inv'
<1> SUFFICES ASSUME Inv, [Next]_vars PROVE Inv'
  OBVIOUS
<1>1. CASE Next
  BY <1>1, MainStep, WindowStep, UserStep, UseDeletedStep DEF Next
<1>2. CASE UNCHANGED vars
  <2>1. UNCHANGED <<osType, main, alive, hThread, msgflg, vram, dumped, window, ended, drawn, img, g_img, screen,
                    ppm, recent>>
    BY <1>2 DEF vars, mainVars, drawVars
  <2>2. TypeOK'
    BY <2>1 DEF Inv, TypeOK
  <2>3. Lives' /\ Order' /\ DumpSurvives' /\ Between'
    BY <2>1 DEF Inv, Lives, Order, DumpSurvives, Between
  <2>4. Frame'
    BY <2>1 DEF Inv, Frame, ShadesOf
  <2>5. QED
    BY <2>2, <2>3, <2>4 DEF Inv
<1>3. QED
  BY <1>1, <1>2

LEMMA AlwaysInv == Spec => []Inv
  BY InitInv, InvStep, PTL DEF Spec

-----------------------------------------------------------------------------
\* Draw writes no pixel outside the image, and objects, threads and images
\* are of their types.
THEOREM TypeCorrect == Spec => []TypeOK
<1>1. Inv => TypeOK
  BY DEF Inv
<1>2. QED
  BY <1>1, AlwaysInv, PTL

\* However main's deletions and the window thread interleave, the guest's
\* memory has been dumped before one can end the process.
THEOREM DumpComesFirst == Spec => []DumpSurvives
<1>1. Inv => DumpSurvives
  BY DEF Inv
<1>2. QED
  BY <1>1, AlwaysInv, PTL

\* A frame shows nothing older than its last Draw, at any size of the screen.
THEOREM FramesAreRecent == Spec => ShownIsRecent
<1>1. Inv => [Show => \A p \in Pixel : screen'[p] \in {Palette(n) : n \in recent[p]}]_vars
  BY DEF Inv, Frame, ShadesOf, Show, Using
<1>2. QED
  BY <1>1, AlwaysInv, PTL DEF ShownIsRecent

\* A screenshot holds the frame on the screen, untorn, in the upper quarter
\* of the file and two rows at a time.
THEOREM ScreenshotsHoldFrames == Spec => ScreenshotHoldsFrame
<1>1. ASSUME Inv, Next, ppm' # ppm,
             NEW x \in 0 .. Width - 1, NEW y \in 0 .. Height - 1
      PROVE  ppm'[<<(y % 2) * Width + x, y \div 2>>] = screen[At(x, y)]
  <2>1. Screenshot
    BY <1>1 DEF Next, Main, Create, Load, OpenWindow, GuestDraws, LoopEnds, Dump, DeleteEmu, DeleteGui, DeleteDisp, Return,
           WindowThread, Setup, ReadFlag, Events, Draw, DrawPixel, FirstDrawn, SecondDrawn, Show,
           User, Close, UseDeleted, Quiet, drawVars
  <2>2. window = "events" /\ ppm' = [c \in FileCell |-> FilePixel(c)]
    BY <1>1, <2>1 DEF Screenshot, Using
  <2>3. screen = img
    BY <1>1, <2>2 DEF Inv, Between
  <2>4. QED
    BY <2>2, <2>3, RowsInPairs
<1>2. Inv /\ [Next]_vars
        => [ppm' # ppm =>
              \A x \in 0 .. Width - 1, y \in 0 .. Height - 1 :
                ppm'[<<(y % 2) * Width + x, y \div 2>>] = screen[At(x, y)]]_vars
  BY <1>1
<1>3. QED
  BY <1>2, AlwaysInv, PTL DEF Spec, ScreenshotHoldsFrame
=============================================================================
