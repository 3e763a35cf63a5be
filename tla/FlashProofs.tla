---------------------------- MODULE FlashProofs -----------------------------
(***************************************************************************)
(* Theorems about Flash, for any number of units on the bus, any image and *)
(* any number of units plugged in and pulled out.                          *)
(***************************************************************************)
EXTENDS Flash, TLAPS

Points == {"connect", "load", "confirm", "settle", "open", "identify", "update", "return",
           "reconnect", "serial", "version", "window", "replay", "report", "end"}

\* From the end of the update on.
After == {"return", "reconnect", "serial", "version", "window", "replay", "report"}

\* While the unit the session after the flash is connected to is being settled.
Settling == {"version", "window", "replay", "report"}

Flags ==
  /\ recover \in BOOLEAN /\ verified \in BOOLEAN
  /\ identified \in BOOLEAN /\ rewrite \in BOOLEAN /\ failed \in BOOLEAN /\ cut \in BOOLEAN
  /\ ctxDone \in BOOLEAN

Types ==
  /\ mode \in [Units -> Modes] /\ image \in [Units -> {"old", "partial", "new", "bad"}]
  /\ window \in [Units -> Windows] /\ lost \in [Units -> SUBSET (Settings \ {"window"})]
  /\ pc \in Points
  /\ {expect, conn, jumped, flashed} \subseteq Units \cup {Nobody}
  /\ exit \in {"none", "ok", "error"} /\ survived \in Windows /\ wrote \subseteq Units

Numbers ==
  /\ major \in [Units -> Majors] /\ was \in Majors \cup {Unknown}
  /\ moves \in 0 .. MaxMoves /\ step \in 1 .. Len(Steps) + 1

\* Who is connected to whom, and which identity is known, at each point.
Identities ==
  /\ exit = "none" <=> pc # "end"
  /\ pc \in {"load", "identify", "update", "serial"} \cup Settling => conn # Nobody
  /\ pc = "load" => IF recover THEN conn = expect ELSE expect \in {conn, Nobody}
  /\ pc = "update" \/ pc \in After => expect # Nobody
  /\ jumped # Nobody => ~recover /\ pc \notin {"connect", "load"}
  /\ pc = "connect" => ~recover
  /\ pc \in After => flashed = expect
  /\ pc \notin After \cup {"end"} => flashed = Nobody
  /\ flashed \in {expect, Nobody}

\* What is known of the unit that was flashed, and of the one being settled.
Landing ==
  /\ wrote # {} => pc \in {"replay", "report", "end"}
  /\ pc \in Settling => conn = flashed \/ (~identified /\ "not identified" \in told)
  /\ identified => pc \in Settling \cup {"end"}
  /\ wrote \subseteq {flashed} \/ (~identified /\ "not identified" \in told)

Started ==
  /\ flashed # Nobody /\ verified =>
       image[flashed] = "new" /\ mode[flashed] \notin {"boot", "toBoot"}
  /\ "do not re-flash" \in told => flashed # Nobody /\ verified

\* The window of the flashed unit, and why it is rewritten.
Warned == told \cap {"crosses", "widening"} # {}

Widening ==
  /\ flashed # Nobody => window[flashed] = survived \/ window[flashed] = "default"
  /\ flashed # Nobody /\ window[flashed] = "default" => Warned \/ survived \in {"erased", "default"}
  /\ rewrite => pc \in {"window", "replay", "report", "end"}
  /\ pc = "window" /\ rewrite => Warned
  /\ pc = "replay" /\ rewrite /\ conn = flashed => Warned \/ survived \in {"erased", "default"}

\* What the replay has brought back so far, as long as no step has failed.
Restoring ==
  /\ pc = "replay" /\ ~failed =>
       /\ \A i \in 1 .. Len(Steps) : i < step => Steps[i] \notin lost[conn]
       /\ window[conn] = "erased" => rewrite /\ step <= 2
  /\ pc \in {"connect", "load", "confirm", "settle", "open", "identify", "update", "return",
             "reconnect", "serial", "version", "window"} => step = 1
  /\ pc = "report" /\ ~failed /\ ~cut => lost[conn] = {} /\ window[conn] # "erased"
  /\ exit = "ok" /\ "incomplete" \notin told => lost[conn] = {} /\ window[conn] # "erased"
  /\ exit = "ok" => conn # Nobody

USE FlashAssumption

\* Every step keeps the flags Boolean.
LEMMA FlagsStep ==
  ASSUME Flags, [Next]_vars
  PROVE  Flags'
<1> USE DEF units, choices, identity, replay, Flags
<1>1. CASE Connect
  BY <1>1 DEF Connect, Goto, Opens
<1>2. CASE ConnectFails
  BY <1>2 DEF ConnectFails, End
<1>3. CASE Jump
  BY <1>3 DEF Jump, Goto
<1>4. CASE LoadFails
  BY <1>4 DEF LoadFails, End
<1>5. CASE BootloaderPhaseInterrupted
  BY <1>5 DEF BootloaderPhaseInterrupted, End
<1>6. CASE ConfirmJump
  BY <1>6 DEF ConfirmJump, Goto
<1>7. CASE JumpUnconfirmed
  BY <1>7 DEF JumpUnconfirmed, End, Opens, InApp, InBoot
<1>8. CASE SwitchDelay
  BY <1>8 DEF SwitchDelay, Goto
<1>9. CASE OpenBootloader
  BY <1>9 DEF OpenBootloader, InBoot
<1>10. CASE OpenFails
  BY <1>10 DEF OpenFails, End
<1>11. CASE Identify
  BY <1>11 DEF Identify, Goto
<1>12. CASE IdentifyFails
  BY <1>12 DEF IdentifyFails, End
<1>13. CASE Load
  BY <1>13 DEF Load, Goto
<1>14. CASE UpdateFails
  BY <1>14 DEF UpdateFails
<1>15. CASE UpdateSucceeds
  BY <1>15 DEF UpdateSucceeds, Flashed, Goto
<1>16. CASE AwaitReturn
  BY <1>16 DEF AwaitReturn, Goto
<1>17. CASE ReturnFails
  BY <1>17 DEF ReturnFails, AfterFlashFails, Advice, End
<1>18. CASE Reconnect
  BY <1>18 DEF Reconnect, Goto, Opens
<1>19. CASE ReconnectFails
  BY <1>19 DEF ReconnectFails, AfterFlashFails, Advice, End
<1>20. CASE SerialAgrees
  BY <1>20 DEF SerialAgrees, SerialAnswered, Goto
<1>21. CASE SerialDiffers
  BY <1>21 DEF SerialDiffers, AfterFlashFails, Advice, End
<1>22. CASE SerialUnread
  BY <1>22 DEF SerialUnread, Goto
<1>23. CASE ReadVersion
  BY <1>23 DEF ReadVersion, Goto, CrossesToMajor5
<1>24. CASE ReadWindow
  BY <1>24 DEF ReadWindow, Goto, Plausible
<1>25. CASE WindowUnread
  BY <1>25 DEF WindowUnread, Goto
<1>26. CASE ReplayStep
  BY <1>26 DEF ReplayStep, Skipped, Write, Add, Steps
<1>27. CASE ReplayEnds
  BY <1>27 DEF ReplayEnds, Goto
<1>28. CASE ReportReplay
  BY <1>28 DEF ReportReplay, End, Incomplete
<1>29. CASE Interrupt
  BY <1>29 DEF Interrupt
<1>30. ASSUME NEW u \in Units, ComeBack(u) PROVE Flags'
  BY <1>30 DEF ComeBack
<1>31. ASSUME NEW u \in Units, Move(u) PROVE Flags'
  BY <1>31 DEF Move
<1>32. CASE UNCHANGED vars
  BY <1>32 DEF vars
<1> QED
  BY <1>1, <1>2, <1>3, <1>4, <1>5, <1>6, <1>7, <1>8, <1>9, <1>10, <1>11, <1>12, <1>13, <1>14,
     <1>15, <1>16, <1>17, <1>18, <1>19, <1>20, <1>21, <1>22, <1>23, <1>24, <1>25, <1>26, <1>27,
     <1>28, <1>29, <1>30, <1>31, <1>32
  DEF Next, Command

\* Every step keeps the types.
LEMMA TypesStep ==
  ASSUME Flags, Types, Identities, [Next]_vars
  PROVE  Types'
<1> USE DEF units, choices, identity, replay, Flags, Types, Identities, Modes, Windows, Points,
      After, Settling
<1>1. CASE Connect
  BY <1>1 DEF Connect, Goto, Opens
<1>2. CASE ConnectFails
  BY <1>2 DEF ConnectFails, End
<1>3. CASE Jump
  BY <1>3 DEF Jump, Goto
<1>4. CASE LoadFails
  BY <1>4 DEF LoadFails, End
<1>5. CASE BootloaderPhaseInterrupted
  BY <1>5 DEF BootloaderPhaseInterrupted, End
<1>6. CASE ConfirmJump
  BY <1>6 DEF ConfirmJump, Goto
<1>7. CASE JumpUnconfirmed
  <2>1. PICK words : pc = "confirm" /\ End("error", words)
    BY <1>7, Zenon DEF JumpUnconfirmed
  <2> QED
    BY <2>1 DEF End
<1>8. CASE SwitchDelay
  BY <1>8 DEF SwitchDelay, Goto
<1>9. CASE OpenBootloader
  BY <1>9 DEF OpenBootloader, InBoot
<1>10. CASE OpenFails
  BY <1>10 DEF OpenFails, End
<1>11. CASE Identify
  BY <1>11 DEF Identify, Goto
<1>12. CASE IdentifyFails
  BY <1>12 DEF IdentifyFails, End
<1>13. CASE Load
  BY <1>13 DEF Load, Goto
<1>14. CASE UpdateFails
  BY <1>14 DEF UpdateFails
<1>15. CASE UpdateSucceeds
  BY <1>15 DEF UpdateSucceeds, Flashed, Goto
<1>16. CASE AwaitReturn
  BY <1>16 DEF AwaitReturn, Goto
<1>17. CASE ReturnFails
  BY <1>17 DEF ReturnFails, AfterFlashFails, Advice, End
<1>18. CASE Reconnect
  BY <1>18 DEF Reconnect, Goto, Opens
<1>19. CASE ReconnectFails
  BY <1>19 DEF ReconnectFails, AfterFlashFails, Advice, End
<1>20. CASE SerialAgrees
  BY <1>20 DEF SerialAgrees, SerialAnswered, Goto
<1>21. CASE SerialDiffers
  BY <1>21 DEF SerialDiffers, AfterFlashFails, Advice, End
<1>22. CASE SerialUnread
  BY <1>22 DEF SerialUnread, Goto
<1>23. CASE ReadVersion
  BY <1>23 DEF ReadVersion, Goto, CrossesToMajor5
<1>24. CASE ReadWindow
  BY <1>24 DEF ReadWindow, Goto, Plausible
<1>25. CASE WindowUnread
  BY <1>25 DEF WindowUnread, Goto
<1>26. CASE ReplayStep
  BY <1>26 DEF ReplayStep, Skipped, Write, Add, Steps
<1>27. CASE ReplayEnds
  BY <1>27 DEF ReplayEnds, Goto
<1>28. CASE ReportReplay
  BY <1>28 DEF ReportReplay, End, Incomplete
<1>29. CASE Interrupt
  BY <1>29 DEF Interrupt
<1>30. ASSUME NEW u \in Units, ComeBack(u) PROVE Types'
  BY <1>30 DEF ComeBack
<1>31. ASSUME NEW u \in Units, Move(u) PROVE Types'
  BY <1>31 DEF Move
<1>32. CASE UNCHANGED vars
  BY <1>32 DEF vars
<1> QED
  BY <1>1, <1>2, <1>3, <1>4, <1>5, <1>6, <1>7, <1>8, <1>9, <1>10, <1>11, <1>12, <1>13, <1>14,
     <1>15, <1>16, <1>17, <1>18, <1>19, <1>20, <1>21, <1>22, <1>23, <1>24, <1>25, <1>26, <1>27,
     <1>28, <1>29, <1>30, <1>31, <1>32
  DEF Next, Command

\* Every step keeps the numbers in range.
LEMMA NumbersStep ==
  ASSUME Types, Numbers, Identities, [Next]_vars
  PROVE  Numbers'
<1> USE DEF units, choices, identity, replay, Types, Numbers, Identities, Majors, Unknown,
      Points, After, Settling
<1>1. CASE Connect
  BY <1>1 DEF Connect, Goto, Opens
<1>2. CASE ConnectFails
  BY <1>2 DEF ConnectFails, End
<1>3. CASE Jump
  BY <1>3 DEF Jump, Goto
<1>4. CASE LoadFails
  BY <1>4 DEF LoadFails, End
<1>5. CASE BootloaderPhaseInterrupted
  BY <1>5 DEF BootloaderPhaseInterrupted, End
<1>6. CASE ConfirmJump
  BY <1>6 DEF ConfirmJump, Goto
<1>7. CASE JumpUnconfirmed
  BY <1>7 DEF JumpUnconfirmed, End, Opens, InApp, InBoot
<1>8. CASE SwitchDelay
  BY <1>8 DEF SwitchDelay, Goto
<1>9. CASE OpenBootloader
  BY <1>9 DEF OpenBootloader, InBoot
<1>10. CASE OpenFails
  BY <1>10 DEF OpenFails, End
<1>11. CASE Identify
  BY <1>11 DEF Identify, Goto
<1>12. CASE IdentifyFails
  BY <1>12 DEF IdentifyFails, End
<1>13. CASE Load
  BY <1>13 DEF Load, Goto
<1>14. CASE UpdateFails
  BY <1>14 DEF UpdateFails
<1>15. CASE UpdateSucceeds
  BY <1>15 DEF UpdateSucceeds, Flashed, Goto
<1>16. CASE AwaitReturn
  BY <1>16 DEF AwaitReturn, Goto
<1>17. CASE ReturnFails
  BY <1>17 DEF ReturnFails, AfterFlashFails, Advice, End
<1>18. CASE Reconnect
  BY <1>18 DEF Reconnect, Goto, Opens
<1>19. CASE ReconnectFails
  BY <1>19 DEF ReconnectFails, AfterFlashFails, Advice, End
<1>20. CASE SerialAgrees
  BY <1>20 DEF SerialAgrees, SerialAnswered, Goto
<1>21. CASE SerialDiffers
  BY <1>21 DEF SerialDiffers, AfterFlashFails, Advice, End
<1>22. CASE SerialUnread
  BY <1>22 DEF SerialUnread, Goto
<1>23. CASE ReadVersion
  BY <1>23 DEF ReadVersion, Goto, CrossesToMajor5
<1>24. CASE ReadWindow
  BY <1>24 DEF ReadWindow, Goto, Plausible
<1>25. CASE WindowUnread
  BY <1>25 DEF WindowUnread, Goto
<1>26. CASE ReplayStep
  BY <1>26 DEF ReplayStep, Skipped, Write, Add, Steps
<1>27. CASE ReplayEnds
  BY <1>27 DEF ReplayEnds, Goto
<1>28. CASE ReportReplay
  BY <1>28 DEF ReportReplay, End, Incomplete
<1>29. CASE Interrupt
  BY <1>29 DEF Interrupt
<1>30. ASSUME NEW u \in Units, ComeBack(u) PROVE Numbers'
  BY <1>30 DEF ComeBack
<1>31. ASSUME NEW u \in Units, Move(u) PROVE Numbers'
  BY <1>31 DEF Move
<1>32. CASE UNCHANGED vars
  BY <1>32 DEF vars
<1> QED
  BY <1>1, <1>2, <1>3, <1>4, <1>5, <1>6, <1>7, <1>8, <1>9, <1>10, <1>11, <1>12, <1>13, <1>14,
     <1>15, <1>16, <1>17, <1>18, <1>19, <1>20, <1>21, <1>22, <1>23, <1>24, <1>25, <1>26, <1>27,
     <1>28, <1>29, <1>30, <1>31, <1>32
  DEF Next, Command

\* Every step keeps the account of identities.
LEMMA IdentitiesStep ==
  ASSUME Flags, Types, Identities, [Next]_vars
  PROVE  Identities'
<1> USE DEF units, choices, identity, replay, Flags, Types, Identities, Points, After, Settling
<1>1. CASE Connect
  <2>1. PICK u \in Units : conn' = u /\ expect' \in {u, Nobody}
    BY <1>1, Zenon DEF Connect
  <2>2. pc = "connect" /\ pc' = "load" /\ ~recover /\ UNCHANGED <<jumped, flashed, exit, recover>>
    BY <1>1 DEF Connect, Goto
  <2> QED
    BY <2>1, <2>2
<1>2. CASE ConnectFails
  BY <1>2 DEF ConnectFails, End
<1>3. CASE Jump
  BY <1>3 DEF Jump, Goto
<1>4. CASE LoadFails
  BY <1>4 DEF LoadFails, End
<1>5. CASE BootloaderPhaseInterrupted
  BY <1>5 DEF BootloaderPhaseInterrupted, End
<1>6. CASE ConfirmJump
  BY <1>6 DEF ConfirmJump, Goto
<1>7. CASE JumpUnconfirmed
  <2>1. PICK words : pc = "confirm" /\ End("error", words)
    BY <1>7, Zenon DEF JumpUnconfirmed
  <2> QED
    BY <2>1 DEF End
<1>8. CASE SwitchDelay
  BY <1>8 DEF SwitchDelay, Goto
<1>9. CASE OpenBootloader
  BY <1>9 DEF OpenBootloader, InBoot
<1>10. CASE OpenFails
  <2>1. PICK words : pc = "open" /\ End("error", words)
    BY <1>10, Zenon DEF OpenFails
  <2> QED
    BY <2>1 DEF End
<1>11. CASE Identify
  BY <1>11 DEF Identify, Goto
<1>12. CASE IdentifyFails
  BY <1>12 DEF IdentifyFails, End
<1>13. CASE Load
  BY <1>13 DEF Load, Goto
<1>14. CASE UpdateFails
  BY <1>14 DEF UpdateFails
<1>15. CASE UpdateSucceeds
  BY <1>15 DEF UpdateSucceeds, Flashed, Goto
<1>16. CASE AwaitReturn
  BY <1>16 DEF AwaitReturn, Goto
<1>17. CASE ReturnFails
  BY <1>17 DEF ReturnFails, AfterFlashFails, Advice, End
<1>18. CASE Reconnect
  BY <1>18 DEF Reconnect, Goto, Opens
<1>19. CASE ReconnectFails
  BY <1>19 DEF ReconnectFails, AfterFlashFails, Advice, End
<1>20. CASE SerialAgrees
  BY <1>20 DEF SerialAgrees, SerialAnswered, Goto
<1>21. CASE SerialDiffers
  BY <1>21 DEF SerialDiffers, AfterFlashFails, Advice, End
<1>22. CASE SerialUnread
  BY <1>22 DEF SerialUnread, Goto
<1>23. CASE ReadVersion
  BY <1>23 DEF ReadVersion, Goto, CrossesToMajor5
<1>24. CASE ReadWindow
  BY <1>24 DEF ReadWindow, Goto, Plausible
<1>25. CASE WindowUnread
  BY <1>25 DEF WindowUnread, Goto
<1>26. CASE ReplayStep
  BY <1>26 DEF ReplayStep, Skipped, Write, Add, Steps
<1>27. CASE ReplayEnds
  BY <1>27 DEF ReplayEnds, Goto
<1>28. CASE ReportReplay
  BY <1>28 DEF ReportReplay, End, Incomplete
<1>29. CASE Interrupt
  BY <1>29 DEF Interrupt
<1>30. ASSUME NEW u \in Units, ComeBack(u) PROVE Identities'
  BY <1>30 DEF ComeBack
<1>31. ASSUME NEW u \in Units, Move(u) PROVE Identities'
  BY <1>31 DEF Move
<1>32. CASE UNCHANGED vars
  BY <1>32 DEF vars
<1> QED
  BY <1>1, <1>2, <1>3, <1>4, <1>5, <1>6, <1>7, <1>8, <1>9, <1>10, <1>11, <1>12, <1>13, <1>14,
     <1>15, <1>16, <1>17, <1>18, <1>19, <1>20, <1>21, <1>22, <1>23, <1>24, <1>25, <1>26, <1>27,
     <1>28, <1>29, <1>30, <1>31, <1>32
  DEF Next, Command

\* Every step keeps what is written to the unit that was flashed.
LEMMA LandingStep ==
  ASSUME Flags, Types, Identities, Landing, [Next]_vars
  PROVE  Landing'
<1> USE DEF units, choices, identity, replay, Flags, Types, Identities, Landing, Points, After,
      Settling
<1>1. CASE Connect
  BY <1>1 DEF Connect, Goto, Opens
<1>2. CASE ConnectFails
  BY <1>2 DEF ConnectFails, End
<1>3. CASE Jump
  BY <1>3 DEF Jump, Goto
<1>4. CASE LoadFails
  BY <1>4 DEF LoadFails, End
<1>5. CASE BootloaderPhaseInterrupted
  BY <1>5 DEF BootloaderPhaseInterrupted, End
<1>6. CASE ConfirmJump
  BY <1>6 DEF ConfirmJump, Goto
<1>7. CASE JumpUnconfirmed
  BY <1>7 DEF JumpUnconfirmed, End, Opens, InApp, InBoot
<1>8. CASE SwitchDelay
  BY <1>8 DEF SwitchDelay, Goto
<1>9. CASE OpenBootloader
  BY <1>9 DEF OpenBootloader, InBoot
<1>10. CASE OpenFails
  BY <1>10 DEF OpenFails, End
<1>11. CASE Identify
  BY <1>11 DEF Identify, Goto
<1>12. CASE IdentifyFails
  BY <1>12 DEF IdentifyFails, End
<1>13. CASE Load
  BY <1>13 DEF Load, Goto
<1>14. CASE UpdateFails
  BY <1>14 DEF UpdateFails
<1>15. CASE UpdateSucceeds
  BY <1>15 DEF UpdateSucceeds, Flashed, Goto
<1>16. CASE AwaitReturn
  BY <1>16 DEF AwaitReturn, Goto
<1>17. CASE ReturnFails
  BY <1>17 DEF ReturnFails, AfterFlashFails, Advice, End
<1>18. CASE Reconnect
  BY <1>18 DEF Reconnect, Goto, Opens
<1>19. CASE ReconnectFails
  BY <1>19 DEF ReconnectFails, AfterFlashFails, Advice, End
<1>20. CASE SerialAgrees
  BY <1>20 DEF SerialAgrees, SerialAnswered, Goto
<1>21. CASE SerialDiffers
  BY <1>21 DEF SerialDiffers, AfterFlashFails, Advice, End
<1>22. CASE SerialUnread
  BY <1>22 DEF SerialUnread, Goto
<1>23. CASE ReadVersion
  BY <1>23 DEF ReadVersion, Goto, CrossesToMajor5
<1>24. CASE ReadWindow
  BY <1>24 DEF ReadWindow, Goto, Plausible
<1>25. CASE WindowUnread
  BY <1>25 DEF WindowUnread, Goto
<1>26. CASE ReplayStep
  BY <1>26 DEF ReplayStep, Skipped, Write, Add, Steps
<1>27. CASE ReplayEnds
  BY <1>27 DEF ReplayEnds, Goto
<1>28. CASE ReportReplay
  BY <1>28 DEF ReportReplay, End, Incomplete
<1>29. CASE Interrupt
  BY <1>29 DEF Interrupt
<1>30. ASSUME NEW u \in Units, ComeBack(u) PROVE Landing'
  BY <1>30 DEF ComeBack
<1>31. ASSUME NEW u \in Units, Move(u) PROVE Landing'
  BY <1>31 DEF Move
<1>32. CASE UNCHANGED vars
  BY <1>32 DEF vars
<1> QED
  BY <1>1, <1>2, <1>3, <1>4, <1>5, <1>6, <1>7, <1>8, <1>9, <1>10, <1>11, <1>12, <1>13, <1>14,
     <1>15, <1>16, <1>17, <1>18, <1>19, <1>20, <1>21, <1>22, <1>23, <1>24, <1>25, <1>26, <1>27,
     <1>28, <1>29, <1>30, <1>31, <1>32
  DEF Next, Command

\* Every step keeps a verified unit out of its bootloader.
LEMMA StartedStep ==
  ASSUME Flags, Types, Identities, Started, [Next]_vars
  PROVE  Started'
<1> USE DEF units, choices, identity, replay, Flags, Types, Identities, Started, Modes, Points,
      After, Settling
<1>1. CASE Connect
  BY <1>1 DEF Connect, Goto, Opens
<1>2. CASE ConnectFails
  BY <1>2 DEF ConnectFails, End
<1>3. CASE Jump
  BY <1>3 DEF Jump, Goto
<1>4. CASE LoadFails
  BY <1>4 DEF LoadFails, End
<1>5. CASE BootloaderPhaseInterrupted
  BY <1>5 DEF BootloaderPhaseInterrupted, End
<1>6. CASE ConfirmJump
  BY <1>6 DEF ConfirmJump, Goto
<1>7. CASE JumpUnconfirmed
  BY <1>7 DEF JumpUnconfirmed, End, Opens, InApp, InBoot
<1>8. CASE SwitchDelay
  BY <1>8 DEF SwitchDelay, Goto
<1>9. CASE OpenBootloader
  BY <1>9 DEF OpenBootloader, InBoot
<1>10. CASE OpenFails
  BY <1>10 DEF OpenFails, End
<1>11. CASE Identify
  BY <1>11 DEF Identify, Goto
<1>12. CASE IdentifyFails
  BY <1>12 DEF IdentifyFails, End
<1>13. CASE Load
  BY <1>13 DEF Load, Goto
<1>14. CASE UpdateFails
  BY <1>14 DEF UpdateFails
<1>15. CASE UpdateSucceeds
  <2>1. PICK now \in IF verified THEN {"new"} ELSE {"new", "bad"} :
          /\ image' = [image EXCEPT ![conn] = now]
          /\ mode' = [mode EXCEPT ![conn] = IF now = "new" THEN "toApp" ELSE "toBoot"]
    BY <1>15, Zenon DEF UpdateSucceeds, Flashed
  <2>2. pc = "update" /\ flashed = Nobody /\ flashed' = conn /\ conn \in Units
    BY <1>15 DEF UpdateSucceeds, Flashed, Goto
  <2>3. UNCHANGED <<verified, told>>
    BY <1>15 DEF UpdateSucceeds, Flashed
  <2> QED
    BY <2>1, <2>2, <2>3
<1>16. CASE AwaitReturn
  BY <1>16 DEF AwaitReturn, Goto
<1>17. CASE ReturnFails
  BY <1>17 DEF ReturnFails, AfterFlashFails, Advice, End
<1>18. CASE Reconnect
  BY <1>18 DEF Reconnect, Goto, Opens
<1>19. CASE ReconnectFails
  BY <1>19 DEF ReconnectFails, AfterFlashFails, Advice, End
<1>20. CASE SerialAgrees
  BY <1>20 DEF SerialAgrees, SerialAnswered, Goto
<1>21. CASE SerialDiffers
  BY <1>21 DEF SerialDiffers, AfterFlashFails, Advice, End
<1>22. CASE SerialUnread
  BY <1>22 DEF SerialUnread, Goto
<1>23. CASE ReadVersion
  BY <1>23 DEF ReadVersion, Goto, CrossesToMajor5
<1>24. CASE ReadWindow
  BY <1>24 DEF ReadWindow, Goto, Plausible
<1>25. CASE WindowUnread
  BY <1>25 DEF WindowUnread, Goto
<1>26. CASE ReplayStep
  BY <1>26 DEF ReplayStep, Skipped, Write, Add, Steps
<1>27. CASE ReplayEnds
  BY <1>27 DEF ReplayEnds, Goto
<1>28. CASE ReportReplay
  BY <1>28 DEF ReportReplay, End, Incomplete
<1>29. CASE Interrupt
  BY <1>29 DEF Interrupt
<1>30. ASSUME NEW u \in Units, ComeBack(u) PROVE Started'
  BY <1>30 DEF ComeBack
<1>31. ASSUME NEW u \in Units, Move(u) PROVE Started'
  BY <1>31 DEF Move
<1>32. CASE UNCHANGED vars
  BY <1>32 DEF vars
<1> QED
  BY <1>1, <1>2, <1>3, <1>4, <1>5, <1>6, <1>7, <1>8, <1>9, <1>10, <1>11, <1>12, <1>13, <1>14,
     <1>15, <1>16, <1>17, <1>18, <1>19, <1>20, <1>21, <1>22, <1>23, <1>24, <1>25, <1>26, <1>27,
     <1>28, <1>29, <1>30, <1>31, <1>32
  DEF Next, Command

\* Every step keeps the account of the window.
LEMMA WideningStep ==
  ASSUME Flags, Types, Identities, Widening, [Next]_vars
  PROVE  Widening'
<1> USE DEF units, choices, identity, replay, Flags, Types, Identities, Widening, Warned,
      Windows, Plausible, Points, After, Settling
<1>1. CASE Connect
  BY <1>1 DEF Connect, Goto, Opens
<1>2. CASE ConnectFails
  BY <1>2 DEF ConnectFails, End
<1>3. CASE Jump
  BY <1>3 DEF Jump, Goto
<1>4. CASE LoadFails
  BY <1>4 DEF LoadFails, End
<1>5. CASE BootloaderPhaseInterrupted
  BY <1>5 DEF BootloaderPhaseInterrupted, End
<1>6. CASE ConfirmJump
  BY <1>6 DEF ConfirmJump, Goto
<1>7. CASE JumpUnconfirmed
  BY <1>7 DEF JumpUnconfirmed, End, Opens, InApp, InBoot
<1>8. CASE SwitchDelay
  BY <1>8 DEF SwitchDelay, Goto
<1>9. CASE OpenBootloader
  BY <1>9 DEF OpenBootloader, InBoot
<1>10. CASE OpenFails
  BY <1>10 DEF OpenFails, End
<1>11. CASE Identify
  BY <1>11 DEF Identify, Goto
<1>12. CASE IdentifyFails
  BY <1>12 DEF IdentifyFails, End
<1>13. CASE Load
  BY <1>13 DEF Load, Goto
<1>14. CASE UpdateFails
  BY <1>14 DEF UpdateFails
<1>15. CASE UpdateSucceeds
  BY <1>15 DEF UpdateSucceeds, Flashed, Goto
<1>16. CASE AwaitReturn
  BY <1>16 DEF AwaitReturn, Goto
<1>17. CASE ReturnFails
  BY <1>17 DEF ReturnFails, AfterFlashFails, Advice, End
<1>18. CASE Reconnect
  BY <1>18 DEF Reconnect, Goto, Opens
<1>19. CASE ReconnectFails
  BY <1>19 DEF ReconnectFails, AfterFlashFails, Advice, End
<1>20. CASE SerialAgrees
  BY <1>20 DEF SerialAgrees, SerialAnswered, Goto
<1>21. CASE SerialDiffers
  BY <1>21 DEF SerialDiffers, AfterFlashFails, Advice, End
<1>22. CASE SerialUnread
  BY <1>22 DEF SerialUnread, Goto
<1>23. CASE ReadVersion
  BY <1>23 DEF ReadVersion, Goto, CrossesToMajor5
<1>24. CASE ReadWindow
  BY <1>24 DEF ReadWindow, Goto, Plausible
<1>25. CASE WindowUnread
  BY <1>25 DEF WindowUnread, Goto
<1>26. CASE ReplayStep
  BY <1>26 DEF ReplayStep, Skipped, Write, Add, Steps
<1>27. CASE ReplayEnds
  BY <1>27 DEF ReplayEnds, Goto
<1>28. CASE ReportReplay
  BY <1>28 DEF ReportReplay, End, Incomplete
<1>29. CASE Interrupt
  BY <1>29 DEF Interrupt
<1>30. ASSUME NEW u \in Units, ComeBack(u) PROVE Widening'
  BY <1>30 DEF ComeBack
<1>31. ASSUME NEW u \in Units, Move(u) PROVE Widening'
  BY <1>31 DEF Move
<1>32. CASE UNCHANGED vars
  BY <1>32 DEF vars
<1> QED
  BY <1>1, <1>2, <1>3, <1>4, <1>5, <1>6, <1>7, <1>8, <1>9, <1>10, <1>11, <1>12, <1>13, <1>14,
     <1>15, <1>16, <1>17, <1>18, <1>19, <1>20, <1>21, <1>22, <1>23, <1>24, <1>25, <1>26, <1>27,
     <1>28, <1>29, <1>30, <1>31, <1>32
  DEF Next, Command

\* Every step keeps the account of a stranded unit.
LEMMA StrandedStep ==
  ASSUME Flags, Types, Identities, Started, StrandedIsTold, [Next]_vars
  PROVE  StrandedIsTold'
<1> USE DEF units, choices, identity, replay, Flags, Types, Identities, Started, StrandedIsTold,
      Stranded, Refused, Modes, Points, After, Settling
<1>1. CASE Connect
  BY <1>1 DEF Connect, Goto, Opens
<1>2. CASE ConnectFails
  BY <1>2 DEF ConnectFails, End
<1>3. CASE Jump
  BY <1>3 DEF Jump, Goto
<1>4. CASE LoadFails
  BY <1>4 DEF LoadFails, End
<1>5. CASE BootloaderPhaseInterrupted
  BY <1>5 DEF BootloaderPhaseInterrupted, End
<1>6. CASE ConfirmJump
  BY <1>6 DEF ConfirmJump, Goto
<1>7. CASE JumpUnconfirmed
  BY <1>7 DEF JumpUnconfirmed, End, Opens, InApp, InBoot
<1>8. CASE SwitchDelay
  BY <1>8 DEF SwitchDelay, Goto
<1>9. CASE OpenBootloader
  BY <1>9 DEF OpenBootloader, InBoot
<1>10. CASE OpenFails
  <2>1. CASE End("error", {"bootloader"})
    BY <2>1 DEF End
  <2>2. ASSUME NEW last \in InApp, End("error", {"application mode"})
        PROVE  StrandedIsTold'
    BY <2>2 DEF End, InApp
  <2> QED
    BY <1>10, <2>1, <2>2 DEF OpenFails
<1>11. CASE Identify
  BY <1>11 DEF Identify, Goto
<1>12. CASE IdentifyFails
  BY <1>12 DEF IdentifyFails, End
<1>13. CASE Load
  BY <1>13 DEF Load, Goto
<1>14. CASE UpdateFails
  BY <1>14 DEF UpdateFails
<1>15. CASE UpdateSucceeds
  BY <1>15 DEF UpdateSucceeds, Flashed, Goto
<1>16. CASE AwaitReturn
  BY <1>16 DEF AwaitReturn, Goto
<1>17. CASE ReturnFails
  BY <1>17 DEF ReturnFails, AfterFlashFails, Advice, End
<1>18. CASE Reconnect
  BY <1>18 DEF Reconnect, Goto, Opens
<1>19. CASE ReconnectFails
  BY <1>19 DEF ReconnectFails, AfterFlashFails, Advice, End
<1>20. CASE SerialAgrees
  BY <1>20 DEF SerialAgrees, SerialAnswered, Goto
<1>21. CASE SerialDiffers
  BY <1>21 DEF SerialDiffers, AfterFlashFails, Advice, End
<1>22. CASE SerialUnread
  BY <1>22 DEF SerialUnread, Goto
<1>23. CASE ReadVersion
  BY <1>23 DEF ReadVersion, Goto, CrossesToMajor5
<1>24. CASE ReadWindow
  BY <1>24 DEF ReadWindow, Goto, Plausible
<1>25. CASE WindowUnread
  BY <1>25 DEF WindowUnread, Goto
<1>26. CASE ReplayStep
  BY <1>26 DEF ReplayStep, Skipped, Write, Add, Steps
<1>27. CASE ReplayEnds
  BY <1>27 DEF ReplayEnds, Goto
<1>28. CASE ReportReplay
  BY <1>28 DEF ReportReplay, End, Incomplete
<1>29. CASE Interrupt
  BY <1>29 DEF Interrupt
<1>30. ASSUME NEW u \in Units, ComeBack(u) PROVE StrandedIsTold'
  BY <1>30 DEF ComeBack
<1>31. ASSUME NEW u \in Units, Move(u) PROVE StrandedIsTold'
  BY <1>31 DEF Move
<1>32. CASE UNCHANGED vars
  BY <1>32 DEF vars
<1> QED
  BY <1>1, <1>2, <1>3, <1>4, <1>5, <1>6, <1>7, <1>8, <1>9, <1>10, <1>11, <1>12, <1>13, <1>14,
     <1>15, <1>16, <1>17, <1>18, <1>19, <1>20, <1>21, <1>22, <1>23, <1>24, <1>25, <1>26, <1>27,
     <1>28, <1>29, <1>30, <1>31, <1>32
  DEF Next, Command

\* Every step keeps the account of the replay.
LEMMA RestoringStep ==
  ASSUME Flags, Types, Numbers, Identities, Restoring, [Next]_vars
  PROVE  Restoring'
<1> USE DEF units, choices, identity, replay, Flags, Types, Numbers, Identities, Restoring,
      Points, After, Settling
<1>1. CASE Connect
  BY <1>1 DEF Connect, Goto, Opens
<1>2. CASE ConnectFails
  BY <1>2 DEF ConnectFails, End
<1>3. CASE Jump
  BY <1>3 DEF Jump, Goto
<1>4. CASE LoadFails
  BY <1>4 DEF LoadFails, End
<1>5. CASE BootloaderPhaseInterrupted
  BY <1>5 DEF BootloaderPhaseInterrupted, End
<1>6. CASE ConfirmJump
  BY <1>6 DEF ConfirmJump, Goto
<1>7. CASE JumpUnconfirmed
  BY <1>7 DEF JumpUnconfirmed, End, Opens, InApp, InBoot
<1>8. CASE SwitchDelay
  BY <1>8 DEF SwitchDelay, Goto
<1>9. CASE OpenBootloader
  BY <1>9 DEF OpenBootloader, InBoot
<1>10. CASE OpenFails
  BY <1>10 DEF OpenFails, End
<1>11. CASE Identify
  BY <1>11 DEF Identify, Goto
<1>12. CASE IdentifyFails
  BY <1>12 DEF IdentifyFails, End
<1>13. CASE Load
  BY <1>13 DEF Load, Goto
<1>14. CASE UpdateFails
  BY <1>14 DEF UpdateFails
<1>15. CASE UpdateSucceeds
  BY <1>15 DEF UpdateSucceeds, Flashed, Goto
<1>16. CASE AwaitReturn
  BY <1>16 DEF AwaitReturn, Goto
<1>17. CASE ReturnFails
  BY <1>17 DEF ReturnFails, AfterFlashFails, Advice, End
<1>18. CASE Reconnect
  BY <1>18 DEF Reconnect, Goto, Opens
<1>19. CASE ReconnectFails
  BY <1>19 DEF ReconnectFails, AfterFlashFails, Advice, End
<1>20. CASE SerialAgrees
  BY <1>20 DEF SerialAgrees, SerialAnswered, Goto
<1>21. CASE SerialDiffers
  BY <1>21 DEF SerialDiffers, AfterFlashFails, Advice, End
<1>22. CASE SerialUnread
  BY <1>22 DEF SerialUnread, Goto
<1>23. CASE ReadVersion
  BY <1>23 DEF ReadVersion, Goto, CrossesToMajor5
<1>24. CASE ReadWindow
  <2>1. window[conn] = "erased" => rewrite'
    BY <1>24 DEF ReadWindow, Plausible
  <2>2. step = 1 /\ pc' = "replay" /\ exit = "none"
    BY <1>24 DEF ReadWindow, Goto
  <2>3. UNCHANGED <<step, window, lost, conn, exit>>
    BY <1>24 DEF ReadWindow
  <2> QED
    BY <2>1, <2>2, <2>3 DEF Steps
<1>25. CASE WindowUnread
  BY <1>25 DEF WindowUnread, Goto
<1>26. CASE ReplayStep
  <2> DEFINE s == Steps[step]
  <2>1. /\ pc = "replay" /\ pc' = "replay" /\ step \in 1 .. Len(Steps) /\ step' = step + 1
        /\ UNCHANGED <<conn, rewrite, exit>>
    BY <1>26 DEF ReplayStep
  <2>2. ~failed' =>
           /\ ~failed
           /\ \/ s = "window" /\ ~rewrite /\ UNCHANGED <<window, lost>>
              \/ s = "window" /\ window' = [window EXCEPT ![conn] = "default"] /\ UNCHANGED lost
              \/ s # "window" /\ lost' = [lost EXCEPT ![conn] = @ \ {s}] /\ UNCHANGED window
    BY <1>26 DEF ReplayStep, Skipped, Write, Add
  <2>3. conn \in Units /\ exit = "none"
    BY <2>1
  <2>4. ASSUME ~failed', NEW i \in 1 .. Len(Steps), i < step'
        PROVE  Steps[i] \notin lost'[conn]
    <3>1. CASE s = "window"
      <4>1. step = 2 /\ lost' = lost
        BY <3>1, <2>1, <2>2, <2>4 DEF Steps
      <4> QED
        BY <4>1, <3>1, <2>1, <2>2, <2>3, <2>4
    <3>2. CASE s # "window"
      BY <3>2, <2>1, <2>2, <2>3, <2>4
    <3> QED
      BY <3>1, <3>2
  <2>5. ASSUME ~failed', window'[conn] = "erased"
        PROVE  rewrite /\ step' <= 2
    <3>1. window[conn] = "erased" /\ rewrite /\ step <= 2
      BY <2>1, <2>2, <2>3, <2>5
    <3>2. s # "window"
      BY <3>1, <2>2, <2>3, <2>5
    <3> QED
      BY <3>1, <3>2, <2>1 DEF Steps
  <2> QED
    BY <2>1, <2>3, <2>4, <2>5
<1>27. CASE ReplayEnds
  <2>1. pc = "replay" /\ pc' = "report" /\ exit = "none" /\ conn # Nobody
    BY <1>27 DEF ReplayEnds, Goto
  <2>2. UNCHANGED <<step, window, lost, conn, failed, exit>> /\ cut' = ctxDone
    BY <1>27 DEF ReplayEnds
  <2>3. ASSUME ~failed, ~cut'
        PROVE  lost[conn] = {} /\ window[conn] # "erased"
    <3>1. step = 7
      BY <1>27, <2>2, <2>3 DEF ReplayEnds, Steps
    <3>2. lost[conn] \subseteq Settings
      BY <2>1
    <3>3. \A i \in 1 .. Len(Steps) : Steps[i] \notin lost[conn]
      BY <3>1, <2>1, <2>3 DEF Steps
    <3> QED
      BY <3>1, <3>2, <3>3, <2>1, <2>3 DEF Settings
  <2> QED
    BY <2>1, <2>2, <2>3
<1>28. CASE ReportReplay
  BY <1>28 DEF ReportReplay, End, Incomplete
<1>29. CASE Interrupt
  BY <1>29 DEF Interrupt
<1>30. ASSUME NEW u \in Units, ComeBack(u) PROVE Restoring'
  BY <1>30 DEF ComeBack
<1>31. ASSUME NEW u \in Units, Move(u) PROVE Restoring'
  BY <1>31 DEF Move
<1>32. CASE UNCHANGED vars
  BY <1>32 DEF vars
<1> QED
  BY <1>1, <1>2, <1>3, <1>4, <1>5, <1>6, <1>7, <1>8, <1>9, <1>10, <1>11, <1>12, <1>13, <1>14,
     <1>15, <1>16, <1>17, <1>18, <1>19, <1>20, <1>21, <1>22, <1>23, <1>24, <1>25, <1>26, <1>27,
     <1>28, <1>29, <1>30, <1>31, <1>32
  DEF Next, Command

Inv ==
  /\ Flags /\ Types /\ Numbers /\ Identities
  /\ Landing /\ Started /\ Widening /\ StrandedIsTold /\ Restoring

\* Every part holds in every reachable state.
LEMMA Invariant == Spec => []Inv
<1>1. Init => Inv
  <2> SUFFICES ASSUME Init PROVE Inv
    OBVIOUS
  <2>1. pc \in {"connect", "open"} /\ exit = "none" /\ told = {} /\ wrote = {}
    BY DEF Init
  <2>2. expect = Nobody /\ conn = Nobody /\ flashed = Nobody /\ step = 1
    BY DEF Init
  <2>3. Flags
    BY DEF Init, Flags
  <2>4. Types
    BY DEF Init, Types, Points, Modes, Windows
  <2>5. Numbers
    BY DEF Init, Numbers, Majors, Unknown, Steps
  <2>6. Identities
    BY DEF Init, Identities, After, Settling
  <2>7. Landing
    BY <2>1 DEF Init, Landing, Settling
  <2>8. Started
    BY <2>1, <2>2 DEF Started
  <2>9. Widening
    BY <2>1, <2>2 DEF Init, Widening
  <2>10. StrandedIsTold
    BY <2>1 DEF StrandedIsTold, Stranded
  <2>11. Restoring
    BY <2>1, <2>2 DEF Restoring
  <2> QED
    BY <2>3, <2>4, <2>5, <2>6, <2>7, <2>8, <2>9, <2>10, <2>11 DEF Inv
<1>2. Inv /\ [Next]_vars => Inv'
  BY FlagsStep, TypesStep, NumbersStep, IdentitiesStep, LandingStep, StartedStep, WideningStep,
     StrandedStep, RestoringStep
  DEF Inv
<1> QED
  BY <1>1, <1>2, PTL DEF Spec

\* What the command believes of the units is well formed whatever happens on the
\* bus, and nothing but the unit whose serial number was read first is flashed.
THEOREM FlashTypeCorrect == Spec => []TypeOK
<1>1. Inv => TypeOK
  BY DEF Inv, Types, Numbers, Identities, TypeOK
<1> QED
  BY <1>1, Invariant, PTL

\* runFlash never replays settings into a unit other than the one it flashed
\* without having said that the unit could not be identified.
THEOREM ReplayOnTheFlashed == Spec => []ReplayLandsOnTheFlashed
<1>1. Inv => ReplayLandsOnTheFlashed
  BY DEF Inv, Landing, ReplayLandsOnTheFlashed
<1> QED
  BY <1>1, Invariant, PTL

\* The advice not to flash again is given only for a unit that carries the
\* whole, verified image and is out of its bootloader, whatever is plugged in,
\* pulled out or interrupted in between.
THEOREM AdviceEarned == Spec => []AdviceIsEarned
<1>1. Inv => AdviceIsEarned
  BY DEF Inv, Started, AdviceIsEarned
<1> QED
  BY <1>1, Invariant, PTL

\* No failure of runFlash leaves the unit it jumped in the bootloader without naming it or
\* saying how to go on, but for a search that ended on another unit's refusal.
THEOREM StrandedTold == Spec => []StrandedIsTold
<1>1. Inv => StrandedIsTold
  BY DEF Inv
<1> QED
  BY <1>1, Invariant, PTL

\* Every setting the flash erased is back in the unit, or the report of the
\* replay says that it is incomplete.
THEOREM LossReported == Spec => []LossIsReported
<1>1. Inv => LossIsReported
  BY DEF Inv, Restoring, LossIsReported
<1> QED
  BY <1>1, Invariant, PTL

\* A window of the user's that survived the flash is not widened in silence.
THEOREM WideningTold == Spec => []WideningIsTold
<1>1. Inv => WideningIsTold
  BY DEF Inv, Widening, Warned, WideningIsTold
<1> QED
  BY <1>1, Invariant, PTL

=============================================================================
