------------------------------ MODULE MCClients -------------------------------
(* The browser's devices (CallMedia); the phone's call screens (MobileCalls), *)
(* its side of the calls (PhoneCall) and where their sound comes out          *)
(* (AudioRoute); voice messages recorded and played in a browser and on a     *)
(* phone; a group call on screen (GroupCallScreens) and the blur of a phone's *)
(* camera (VideoBlur); what is written and read in a chat, in a browser and   *)
(* on a phone (the parts of ChatsProofs).  Each behaviour chooses a focus and *)
(* moves that component alone.                                                *)
EXTENDS CallMedia, FiniteSets, ChatsProofs

CONSTANTS
  m1, m2,                                           \* of OwnMessages
  PhoneAttempts, PhoneDrops,                        \* MobileCalls
  EngineCalls, EngineTracks, EngineAsked, EngineDrops, \* PhoneCall
  Headsets, RouteReports,                           \* AudioRoute
  VoiceMessages,                                    \* VoicePlayback, PhonePlayback
  VoiceRecordings, Holds, PlaybackErrors, PlaybackEvents, PlayerErrors, PlayerStatuses, PlayerAwaited,
  BlurCameras, SlowSeconds, Rotations, BufferSizes, \* VideoBlur
  Callers, CallGroups                               \* GroupCallScreens

ASSUME PhoneAssumption == PhoneAttempts \in Nat /\ PhoneDrops \in Nat
ASSUME EngineAssumption == EngineCalls \in Nat /\ EngineTracks \in Nat /\ EngineDrops \in Nat
ASSUME VoiceAssumption ==
  /\ None \notin VoiceMessages
  /\ VoiceRecordings \in Nat /\ Holds \in Nat /\ PlaybackErrors \in Nat /\ PlayerErrors \in Nat
ASSUME BlurAssumption ==
  BlurCameras \in Nat /\ SlowSeconds \in Nat /\ None \notin BOOLEAN /\ None # "misfits"

VARIABLES
  focus,
  pServer, pWire, pApp, pReady, pDrops, pOs, pNotices, pPhase, pAccepted, pUnseen,
  pKnown, pJobs, pWish,
  eCall, ePhase, eOutgoing, eAcceptSent, eMic, eCam, eShows, eWants, ePaused, ePc, eTimer,
  eLive, eOpened, eAsked, eApp, eHiding, eUp, eDrops, eTold, eSaid, eLost, eStray,
  rAttached, rForced, rActual, rReports, rReadback, rLive, rVideo, rAsking, rRunning,
  rMedia, rPicked, rSettled, rAvailable, rCurrent, rSeen, rDark,
  vOpen, vPhase, vStream, vRecorder, vChunks, vAsked, vOpened, vLive, vRunning,
  vStopping, vAwaited, vSent, vStray,
  bId, bPlaying, bLoading, bError, bRetried, bSrc, bSound, bEvents, bCalls, bSignedIn,
  bErrors, bStray,
  hOpen, hPressed, hActive, hCancelling, hTimer, hTicking, hCapturing, hCurrent,
  hBegins, hEnds, hFile, hRecording, hAllowed, hSent, hStray,
  lId, lPlaying, lLoading, lError, lLoaded, lRetried, lSource, lSounds, lLockScreen,
  lStatuses, lCalls, lQuiet, lErrors, lStray,
  uPlatform, uPreference, uOne, uRoom, uLive, uOpened, uOn, uTurnedOffSlow, uIdle,
  uTracks, uSlowSeconds, uEffects, uMask, uRequest, uShape, uSent, uChoice, uMixed,
  gClient, gAuth, gUser, gOneToOne, gJoined, gJoining, gJoins, gAudio, gStarting,
  gOpening, gCameras, gBlur, gProcessor, gTurning, gMinimised, gHasty

phoneVars == <<pServer, pWire, pApp, pReady, pDrops, pOs, pNotices, pPhase, pAccepted,
               pUnseen, pKnown, pJobs, pWish>>
webVars == <<wLogged, wComing, wSocket, wPane, wTyped, wPending, wOutbox, wPosts, wAdrift,
             wSync, wDropped, wFaults>>
engineVars == <<eCall, ePhase, eOutgoing, eAcceptSent, eMic, eCam, eShows, eWants, ePaused,
                ePc, eTimer, eLive, eOpened, eAsked, eApp, eHiding, eUp, eDrops, eTold,
                eSaid, eLost, eStray>>
routeVars == <<rAttached, rForced, rActual, rReports, rReadback, rLive, rVideo, rAsking,
               rRunning, rMedia, rPicked, rSettled, rAvailable, rCurrent, rSeen, rDark>>
recorderVars == <<vOpen, vPhase, vStream, vRecorder, vChunks, vAsked, vOpened, vLive,
                  vRunning, vStopping, vAwaited, vSent, vStray>>
playbackVars == <<bId, bPlaying, bLoading, bError, bRetried, bSrc, bSound, bEvents,
                  bCalls, bSignedIn, bErrors, bStray>>
holdVars == <<hOpen, hPressed, hActive, hCancelling, hTimer, hTicking, hCapturing,
              hCurrent, hBegins, hEnds, hFile, hRecording, hAllowed, hSent, hStray>>
playerVars == <<lId, lPlaying, lLoading, lError, lLoaded, lRetried, lSource, lSounds,
                lLockScreen, lStatuses, lCalls, lQuiet, lErrors, lStray>>
blurVars == <<uPlatform, uPreference, uOne, uRoom, uLive, uOpened, uOn, uTurnedOffSlow,
              uIdle, uTracks, uSlowSeconds, uEffects, uMask, uRequest, uShape, uSent,
              uChoice, uMixed>>
roomVars == <<gClient, gAuth, gUser, gOneToOne, gJoined, gJoining, gJoins, gAudio,
              gStarting, gOpening, gCameras, gBlur, gProcessor, gTurning, gMinimised,
              gHasty>>
paneVars == <<cMe, cLeaving, cHere, cWritten, cSpent, cDraft, cKept, cReply, cEditing,
              cTarget, cForm, cSaving, cDeleting, cDeleted, cSent, cUpload, cCarried,
              cHasty>>
readVars == <<nVisible, nHere, nNewest, nView, nLatest, nArrivals, nQueued, nTimer,
              nReported, nSeen, nTypers>>
screenVars == <<sPlatform, sText, sDraft, sEditing, sReplyTo, sWritten, sSpent, sQueued,
                sEdits, sPicks, sAttached, sSheet, sLeavingSheet, sPendingReport,
                sReportFor, sFront, sKnown, sNewest, sLastRead, sMarked, sMarks, sRead,
                sTold, sSeen>>

callVars == <<vars, phoneVars, webVars, engineVars, routeVars>>
voiceVars == <<recorderVars, playbackVars, holdVars, playerVars>>
clientsVars == <<focus, callVars, voiceVars, blurVars, roomVars, paneVars, readVars, screenVars>>

\* One call to a phone whose socket drops once.
Phone == INSTANCE MobileCalls WITH
  Attempts <- PhoneAttempts, MaxDrops <- PhoneDrops, server <- pServer, wire <- pWire, app <- pApp,
  ready <- pReady, drops <- pDrops, os <- pOs, notices <- pNotices, phase <- pPhase,
  accepted <- pAccepted, unseen <- pUnseen, known <- pKnown, jobs <- pJobs, wish <- pWish

\* Two calls one after the other, three tracks, two things awaited at a time.
Engine == INSTANCE PhoneCall WITH
  MaxCalls <- EngineCalls, MaxTracks <- EngineTracks, MaxAsked <- EngineAsked,
  MaxDrops <- EngineDrops,
  call <- eCall, phase <- ePhase, outgoing <- eOutgoing, acceptSent <- eAcceptSent,
  mic <- eMic, cam <- eCam, shows <- eShows, wants <- eWants, paused <- ePaused, pc <- ePc,
  timer <- eTimer, live <- eLive, opened <- eOpened, asked <- eAsked, app <- eApp,
  hiding <- eHiding, up <- eUp, drops <- eDrops, told <- eTold, said <- eSaid,
  lost <- eLost, stray <- eStray

\* A wireless and a wired headset.
Sound == INSTANCE AudioRoute WITH
  External <- Headsets, MaxReports <- RouteReports,
  attached <- rAttached, forced <- rForced, actual <- rActual, reports <- rReports,
  readback <- rReadback, live <- rLive, video <- rVideo, asking <- rAsking,
  running <- rRunning, media <- rMedia, picked <- rPicked, settled <- rSettled,
  available <- rAvailable, current <- rCurrent, seen <- rSeen, dark <- rDark

\* Three recordings, two messages to play, one or two failures.
Recorder == INSTANCE VoiceRecorder WITH
  MaxRecordings <- VoiceRecordings,
  open <- vOpen, phase <- vPhase, stream <- vStream, recorder <- vRecorder,
  chunks <- vChunks, asked <- vAsked, opened <- vOpened, live <- vLive,
  running <- vRunning, stopping <- vStopping, awaited <- vAwaited, sent <- vSent,
  stray <- vStray
Playback == INSTANCE VoicePlayback WITH
  Messages <- VoiceMessages, MaxErrors <- PlaybackErrors, MaxEvents <- PlaybackEvents,
  id <- bId, playing <- bPlaying, loading <- bLoading, error <- bError,
  retried <- bRetried, src <- bSrc, sound <- bSound, events <- bEvents, calls <- bCalls,
  signedIn <- bSignedIn, errors <- bErrors, stray <- bStray
Hold == INSTANCE HoldToRecord WITH
  MaxBegins <- Holds,
  open <- hOpen, pressed <- hPressed, active <- hActive, cancelling <- hCancelling,
  timer <- hTimer, ticking <- hTicking, capturing <- hCapturing, current <- hCurrent,
  begins <- hBegins, ends <- hEnds, file <- hFile, recording <- hRecording,
  allowed <- hAllowed, sent <- hSent, stray <- hStray
Player == INSTANCE PhonePlayback WITH
  Messages <- VoiceMessages, MaxErrors <- PlayerErrors, MaxStatuses <- PlayerStatuses,
  MaxAwaited <- PlayerAwaited,
  id <- lId, playing <- lPlaying, loading <- lLoading, error <- lError,
  loaded <- lLoaded, retried <- lRetried, source <- lSource, sounds <- lSounds,
  lockScreen <- lLockScreen, statuses <- lStatuses, calls <- lCalls, quiet <- lQuiet,
  errors <- lErrors, stray <- lStray

\* Two cameras, one after the other or at a time; an upright phone and one on its
\* side.
FrameShapes == Rotations \X BufferSizes
Blur == INSTANCE VideoBlur WITH
  MaxCameras <- BlurCameras, SLOW_SECONDS <- SlowSeconds, Shapes <- FrameShapes,
  platform <- uPlatform, preference <- uPreference, one <- uOne, room <- uRoom,
  live <- uLive, opened <- uOpened, on <- uOn, turnedOffSlow <- uTurnedOffSlow,
  idle <- uIdle, tracks <- uTracks, slowSeconds <- uSlowSeconds, effects <- uEffects,
  mask <- uMask, request <- uRequest, shape <- uShape, sent <- uSent, choice <- uChoice,
  mixed <- uMixed
\* Two people who sign in on one device, two groups.
Room == INSTANCE GroupCallScreens WITH
  Users <- Callers, Groups <- CallGroups,
  client <- gClient, auth <- gAuth, user <- gUser, oneToOne <- gOneToOne,
  joined <- gJoined, joining <- gJoining, joins <- gJoins, audio <- gAudio,
  starting <- gStarting, opening <- gOpening, cameras <- gCameras, blur <- gBlur,
  processor <- gProcessor, turning <- gTurning, minimised <- gMinimised, hasty <- gHasty
\* A mask comes back as the buffer lies, for every rotation (BlurProcessor.kt:232).
ASSUME MaskTurnedBack == Blur!TurnedBack

\* The messages of a pane are of one of the chats.
OneChat == CHOOSE c \in Chats : TRUE
AllOfOneChat == [m \in OwnMessages |-> OneChat]

ClientsInit ==
  /\ focus \in {"media", "phone", "web", "engine", "sound",
                "recorder", "playback", "hold", "player", "blur", "room",
                "texts", "removal", "people", "files", "reading",
                "box", "attach", "sheets", "marks"}
  /\ Init /\ Phone!Init /\ Web!Init /\ Engine!Init /\ Sound!Init
  /\ Recorder!Init /\ Playback!Init /\ Hold!Init /\ Player!Init /\ Blur!Init /\ Room!Init
  /\ Pane!Init /\ Reading!Init /\ Screen!Init
  /\ focus # "phone" => pOs = "none"
  /\ focus # "sound" => ~rVideo
  /\ focus # "blur" => uPlatform = "ios" /\ ~uPreference /\ uShape = CHOOSE s \in FrameShapes : TRUE
  /\ focus # "room" => gClient = "web" /\ gUser = CHOOSE u \in Callers : TRUE
  /\ focus \notin {"people", "files"} => cMe = CHOOSE u \in Owners : TRUE
  /\ focus # "reading" =>
       nVisible /\ nHere = OneChat /\ nNewest \in {[c \in Chats |-> 0]}
  /\ focus # "sheets" => sPlatform = "android"
  /\ focus # "marks" => sRead = 0

CallsNext ==
  /\ UNCHANGED <<voiceVars, blurVars, roomVars, paneVars, readVars, screenVars>>
  /\ \/ /\ focus = "media" /\ Next
        /\ UNCHANGED <<phoneVars, webVars, engineVars, routeVars>>
     \/ /\ focus = "phone" /\ Phone!Next
        /\ UNCHANGED <<vars, webVars, engineVars, routeVars>>
     \/ /\ focus = "web" /\ Web!Next
        /\ UNCHANGED <<vars, phoneVars, engineVars, routeVars>>
     \/ /\ focus = "engine" /\ Engine!Next
        /\ UNCHANGED <<vars, phoneVars, webVars, routeVars>>
     \/ /\ focus = "sound" /\ Sound!Next
        /\ UNCHANGED <<vars, phoneVars, webVars, engineVars>>

VoiceNext ==
  /\ UNCHANGED <<callVars, blurVars, roomVars, paneVars, readVars, screenVars>>
  /\ \/ /\ focus = "recorder" /\ Recorder!Next
        /\ UNCHANGED <<playbackVars, holdVars, playerVars>>
     \/ /\ focus = "playback" /\ Playback!Next
        /\ UNCHANGED <<recorderVars, holdVars, playerVars>>
     \/ /\ focus = "hold" /\ Hold!Next
        /\ UNCHANGED <<recorderVars, playbackVars, playerVars>>
     \/ /\ focus = "player" /\ Player!Next
        /\ UNCHANGED <<recorderVars, playbackVars, holdVars>>

RoomNext ==
  /\ UNCHANGED <<callVars, voiceVars, paneVars, readVars, screenVars>>
  /\ \/ focus = "blur" /\ Blur!Next /\ UNCHANGED roomVars
     \/ focus = "room" /\ Room!Next /\ UNCHANGED blurVars

\* In the pane, the texts, the edits and deletions (one deletion at a time), the
\* people signing in and out, or the files.
PaneNext ==
  /\ UNCHANGED <<callVars, voiceVars, blurVars, roomVars, screenVars>>
  /\ \/ focus = "reading" /\ Reading!Next /\ UNCHANGED paneVars
     \/ /\ focus \in {"texts", "removal", "people", "files"}
        /\ Pane!Next /\ UNCHANGED readVars
        /\ focus \notin {"people", "files"} => UNCHANGED <<cMe, cLeaving>>
        /\ focus # "files" => UNCHANGED cUpload
        /\ focus # "removal" => UNCHANGED <<cTarget, cDeleted>>
        /\ focus = "removal" => UNCHANGED cDraft /\ Cardinality(cDeleting') <= 1
        /\ focus \in {"people", "files"} => UNCHANGED cEditing
        /\ focus = "files" => UNCHANGED cWritten

\* On the phone's screen, the box, the files, the sheets, or what is marked read.
ScreenNext ==
  /\ UNCHANGED <<callVars, voiceVars, blurVars, roomVars, paneVars, readVars>>
  /\ focus \in {"box", "attach", "sheets", "marks"} /\ Screen!Next
  /\ focus = "box" => UNCHANGED <<sPicks, sAttached, sPendingReport, sReportFor>>
  /\ focus = "attach" => UNCHANGED <<sEditing, sSheet>>
  /\ focus = "sheets" => UNCHANGED <<sWritten, sPicks, sAttached>>
  /\ IF focus = "marks" THEN UNCHANGED <<sText, sReplyTo, sEditing, sPicks, sAttached, sSheet>>
     ELSE UNCHANGED <<sFront, sKnown, sNewest, sLastRead, sMarked, sMarks, sRead, sTold, sSeen>>

ClientsNext ==
  UNCHANGED focus /\ (CallsNext \/ VoiceNext \/ RoomNext \/ PaneNext \/ ScreenNext)

ClientsSpec == ClientsInit /\ [][ClientsNext]_clientsVars

-----------------------------------------------------------------------------
\* The system's call screen follows the engine's end (callBridge.ts:107).
SystemFollows == Phone!SystemFollows

\* What is submitted in a tab is never forgotten behind its author's back
\* (ChatPane.tsx:693), and a flush skips nothing (outboxFlush.ts:24).  A text
\* goes where it was begun or stays (ChatPane.tsx:271, :835), a cancelled upload
\* does not go (useAttachmentUploads.ts:93), and receipts, the count of arrivals
\* and typing tell what is so in the open chat (readReceipts.ts:63).  On a phone, a
\* text goes as what it was written for and no edit costs one (Composer.tsx:75, :80),
\* one sheet is over the chat (c/[id]/index.tsx:178), and nothing is marked read
\* that came with the app away (c/[id]/index.tsx:158).
ChatSound ==
  /\ Web!NothingForgotten /\ Web!FlushInOrder
  /\ Pane!SentWhereWritten /\ Pane!NothingWrittenLost /\ Pane!CancelledNeverSent
  /\ Reading!ReceiptsTrue /\ Reading!SeenIsReported /\ Reading!CountsTrue
  /\ Screen!SentAsWritten /\ Screen!NothingTypedLost /\ Screen!OneSheet /\ Screen!MarksTrue

\* The phone's side of its calls: one verdict on a call (CallEngine.ts:226,
\* :271), nothing left on after it (:671), the picture as the other side was
\* told (:370), the camera back when the app is (:68); the sound route shown is
\* the one in use (nativeAudio.ts:33) and the screen goes dark only at the ear,
\* during a live audio call (proximity.ts:9).
PhoneCallSound ==
  /\ Engine!OneVerdict /\ Engine!ReleasedAtEnd /\ Engine!PictureAsTold /\ Engine!ComesBack
  /\ Sound!Truthful /\ Sound!NeverDarkOnVideo

\* Voice messages: the microphone is on only while that is shown and what is
\* sent is the recording (voiceRecorder.ts:83, holdSession.ts:72); what is heard
\* is what is shown (voicePlayback.ts:71, playback.ts:89).
VoiceSound ==
  /\ Recorder!MicrophoneShown /\ Recorder!WholeIfSent /\ Hold!RecordsAsShown
  /\ Playback!PlaysAsShown /\ Player!HeardAsShown

\* One kind of call at a time, whose people, audio and cameras are its own
\* (GroupCallProvider.tsx:71, GroupCallScreen.tsx:83), blurred as was chosen, as
\* the frame lies (GroupCallView.tsx:119, blur.ts:66, BlurProcessor.kt:102).
GroupScreenSound ==
  /\ Room!OneKindOfCall /\ Room!InTheirOwnCall /\ Room!AudioOfTheCall /\ Room!BlurInStep
  /\ Blur!BlurredAsChosen /\ Blur!MasksFit
=============================================================================
