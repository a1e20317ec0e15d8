---------------------------- MODULE MCWebProofs -----------------------------
(***************************************************************************)
(* The properties of the web's runs that are proved of their parts, as     *)
(* theorems of the runs' own specifications: SeatHeld, VoiceToldTrue,      *)
(* DrawnTrue and NothingOutOfTurn of CaveSpec, ActsForThem, FilesKept and  *)
(* WorkKept of ScreensSpec, ReadsInTurn, ToldAsItIs and NothingTakenBack   *)
(* of PagesSpec.  Each part is the instance of WebProofs or of PageProofs  *)
(* at its constants; a behaviour is of one part, so one part's invariant,  *)
(* where it is that part, is an invariant of the whole.                    *)
(***************************************************************************)
EXTENDS MCWeb, TLAPS

P == INSTANCE WebProofs WITH
    Accounts <- {"a", "b"}, Kinds <- {"signin", "google", "start", "copy"}, Calls <- {"p"},
    MaxAttempts <- 2, jar <- s1, asked <- s2, back <- s3, call <- s4, token <- s5, done <- s6,
    on <- s7,
    MaxCodes <- 1, MaxTokens <- 3, MaxLive <- 2, flag <- s1, session <- s2, page <- s3,
    codes <- s4, grants <- s5, tokens <- s6, agent <- s7, me <- s8,
    MaxJoins <- 2, MaxRooms <- 2, MaxMic <- 1, MaxReverb <- 1, feed <- s1, engine <- s2,
    calls <- s3, leaving <- s4, link <- s5, capture <- s6, mic <- s7, micOps <- s8, audio <- s9,
    renders <- s10, tab <- s11,
    server <- s1, visitor <- s2, req <- s3, backend <- s4, notice <- s5,
    Blueprints <- {1, 2}, Files <- {"f"}, MaxRoles <- 0, library <- s1, shown <- s2, busy <- s3,
    up <- s4, wire <- s5

\* The mechanic alone, with a role that may be taken back.
P1 == INSTANCE WebProofs WITH
    Accounts <- {"a", "b"}, Kinds <- {"signin", "google", "start", "copy"}, Calls <- {"p"},
    MaxAttempts <- 2, jar <- s1, asked <- s2, back <- s3, call <- s4, token <- s5, done <- s6,
    on <- s7,
    MaxCodes <- 1, MaxTokens <- 3, MaxLive <- 2, flag <- s1, session <- s2, page <- s3,
    codes <- s4, grants <- s5, tokens <- s6, agent <- s7, me <- s8,
    MaxJoins <- 2, MaxRooms <- 2, MaxMic <- 1, MaxReverb <- 1, feed <- s1, engine <- s2,
    calls <- s3, leaving <- s4, link <- s5, capture <- s6, mic <- s7, micOps <- s8, audio <- s9,
    renders <- s10, tab <- s11,
    server <- s1, visitor <- s2, req <- s3, backend <- s4, notice <- s5,
    Blueprints <- {1}, Files <- {"f"}, MaxRoles <- 1, library <- s1, shown <- s2, busy <- s3,
    up <- s4, wire <- s5

Q == INSTANCE PageProofs WITH
    MaxSids <- 2, MaxMics <- 1, link <- s1, rm <- s2, p <- s3, me <- s4, muted <- s5, crowd <- s6,
    told <- s7, said <- s8,
    Writes <- {"consent", "object", "comment"}, MaxV <- 2, MaxLoads <- 1, api <- s1, page <- s2,
    loads <- s3, op <- s4, late <- s5,
    MaxPushes <- 1, load <- s3, quiet <- s4, poll <- s5, checks <- s6, write <- s7,
    People <- {"p"}, MaxLooks <- 1, MaxViews <- 1, MaxMoves <- 2, cave <- s2,
    heard <- s3, room <- s4, body <- s5, drawn <- s6, own <- s7, media <- s8, panel <- s9,
    files <- s10, allows <- s11,
    Files <- {"f", "g"}, Flat <- {"g"}, Spots <- {"head", "accessory"}, RobotLooks <- 2,
    look <- s1, changes <- s2, robot <- s3, calls <- s4, cache <- s5,
    Specs <- {"h1"}, Mine <- {"a"}, Theirs <- {"o"}, MaxJobs <- 1, seen <- s2, desk <- s3,
    ghost <- s5,
    Me <- "me", Members <- {"me", "maya", "sam", "jo"}, MaxComments <- 2, MaxTime <- 4,
    MaxEvents <- 4, floor <- s2, now <- s3, task <- s4, answer <- s5,
    Regions <- {"overview", "rates", "list"}, Heavy <- {"overview", "rates"},
    Answers <- {"data", "busy"}, Slots <- 1, MaxReads <- 3, MaxKey <- 4, Limit <- 2,
    MaxPages <- 4, which <- s1, reads <- s2, waiting <- s3, running <- s4, current <- s5,
    view <- s6, rows <- s7, walk <- s8

-----------------------------------------------------------------------------
(* Each part is the instance the theorems are of.                          *)

LEMMA VoiceSame ==
    /\ Voice!Init <=> P!Voice!Init
    /\ Voice!Next <=> P!Voice!Next
    /\ Voice!OneSeat <=> P!Voice!OneSeat
    /\ Voice!NoHotMic <=> P!Voice!NoHotMic
    /\ Voice!MicTold <=> P!Voice!MicTold
    /\ Voice!SoundTold <=> P!Voice!SoundTold
BY DEF Voice!Rooms, P!Voice!Rooms, Voice!NoRoom, P!Voice!NoRoom, Voice!RouteRefusals,
     P!Voice!RouteRefusals, Voice!MicProblems, P!Voice!MicProblems, Voice!roomVars,
     P!Voice!roomVars, Voice!micVars, P!Voice!micVars, Voice!audioVars, P!Voice!audioVars,
     Voice!InRoomStatus, P!Voice!InRoomStatus, Voice!Connection, P!Voice!Connection,
     Voice!Refusal, P!Voice!Refusal, Voice!InRoom, P!Voice!InRoom, Voice!Available,
     P!Voice!Available, Voice!Joining, P!Voice!Joining, Voice!ResetMic, P!Voice!ResetMic,
     Voice!RefreshMic, P!Voice!RefreshMic, Voice!Silenced, P!Voice!Silenced, Voice!OpenedContext,
     P!Voice!OpenedContext, Voice!ReverbStarted, P!Voice!ReverbStarted, Voice!SpareFree,
     P!Voice!SpareFree, Voice!RoomForJoin, P!Voice!RoomForJoin, Voice!Unseated, P!Voice!Unseated,
     Voice!Dropped, P!Voice!Dropped, Voice!EngineJoins, P!Voice!EngineJoins, Voice!Connect,
     P!Voice!Connect, Voice!Mount, P!Voice!Mount, Voice!Rejoin, P!Voice!Rejoin, Voice!AutoRetry,
     P!Voice!AutoRetry, Voice!Granted, P!Voice!Granted, Voice!GrantAnswered,
     P!Voice!GrantAnswered, Voice!EngineLoaded, P!Voice!EngineLoaded, Voice!TokenOvertaken,
     P!Voice!TokenOvertaken, Voice!TokenRefused, P!Voice!TokenRefused, Voice!NoAudio,
     P!Voice!NoAudio, Voice!TokenTaken, P!Voice!TokenTaken, Voice!LinkHeld, P!Voice!LinkHeld,
     Voice!Connected, P!Voice!Connected, Voice!ConnectFailed, P!Voice!ConnectFailed,
     Voice!Disconnected, P!Voice!Disconnected, Voice!Reconnecting, P!Voice!Reconnecting,
     Voice!Reconnected, P!Voice!Reconnected, Voice!MicLost, P!Voice!MicLost, Voice!SetMic,
     P!Voice!SetMic, Voice!MicSettled, P!Voice!MicSettled, Voice!Heard, P!Voice!Heard,
     Voice!ContextChanges, P!Voice!ContextChanges, Voice!TurnOnSound, P!Voice!TurnOnSound,
     Voice!ReverbRendered, P!Voice!ReverbRendered, Voice!ReloadReverb, P!Voice!ReloadReverb,
     Voice!RebuildAudio, P!Voice!RebuildAudio, Voice!SceneReady, P!Voice!SceneReady, Voice!Enter,
     P!Voice!Enter, Voice!MicOnEntry, P!Voice!MicOnEntry, Voice!ToggleMic, P!Voice!ToggleMic,
     Voice!AudioLetGo, P!Voice!AudioLetGo, Voice!LetGo, P!Voice!LetGo, Voice!Close, P!Voice!Close,
     Voice!LeaveRoom, P!Voice!LeaveRoom, Voice!LeaveAudio, P!Voice!LeaveAudio, Voice!Init,
     P!Voice!Init, Voice!TokenAnswered, P!Voice!TokenAnswered, Voice!ConnectSettled,
     P!Voice!ConnectSettled, Voice!Next, P!Voice!Next, Voice!OneSeat, P!Voice!OneSeat,
     Voice!NoHotMic, P!Voice!NoHotMic, Voice!MicTold, P!Voice!MicTold, Voice!SoundTold,
     P!Voice!SoundTold

LEMMA PeersSame ==
    /\ Peers!Init <=> Q!Peers!Init
    /\ Peers!Next <=> Q!Peers!Next
    /\ Peers!HeardRight <=> Q!Peers!HeardRight
    /\ Peers!PermitsSoundStep <=> Q!Peers!PermitsSoundStep
BY DEF Peers!Near, Q!Peers!Near, Peers!Band, Q!Peers!Band, Peers!Permit, Q!Peers!Permit,
     Peers!Far, Q!Peers!Far, Peers!Zones, Q!Peers!Zones, Peers!Unknown, Q!Peers!Unknown,
     Peers!NoOne, Q!Peers!NoOne, Peers!NoRecord, Q!Peers!NoRecord, Peers!NewPeer, Q!Peers!NewPeer,
     Peers!Silent, Q!Peers!Silent, Peers!NewSession, Q!Peers!NewSession, Peers!OtherSession,
     Q!Peers!OtherSession, Peers!CheckedSession, Q!Peers!CheckedSession, Peers!Subscribed,
     Q!Peers!Subscribed, Peers!Placed, Q!Peers!Placed, Peers!Reach, Q!Peers!Reach, Peers!Want,
     Q!Peers!Want, Peers!Takes, Q!Peers!Takes, Peers!LetsGo, Q!Peers!LetsGo, Peers!Withdraws,
     Q!Peers!Withdraws, Peers!MicWent, Q!Peers!MicWent, Peers!Gain, Q!Peers!Gain, Peers!Evaluated,
     Q!Peers!Evaluated, Peers!Asked, Q!Peers!Asked, Peers!Allowed, Q!Peers!Allowed, Peers!Listed,
     Q!Peers!Listed, Peers!Permissions, Q!Peers!Permissions, Peers!AfterSession,
     Q!Peers!AfterSession, Peers!Settle, Q!Peers!Settle, Peers!ParticipantConnected,
     Q!Peers!ParticipantConnected, Peers!ParticipantDisconnected, Q!Peers!ParticipantDisconnected,
     Peers!Unsubscribed, Q!Peers!Unsubscribed, Peers!SessionSwaps, Q!Peers!SessionSwaps,
     Peers!TrackPublished, Q!Peers!TrackPublished, Peers!TrackUnpublished,
     Q!Peers!TrackUnpublished, Peers!ServerSends, Q!Peers!ServerSends, Peers!TrackSubscribed,
     Q!Peers!TrackSubscribed, Peers!TrackUnsubscribed, Q!Peers!TrackUnsubscribed,
     Peers!SubscriptionFailed, Q!Peers!SubscriptionFailed, Peers!TheyPermit, Q!Peers!TheyPermit,
     Peers!PositionReceived, Q!Peers!PositionReceived, Peers!SignalReconnecting,
     Q!Peers!SignalReconnecting, Peers!Reconnecting, Q!Peers!Reconnecting, Peers!Reconnected,
     Q!Peers!Reconnected, Peers!Heard, Q!Peers!Heard, Peers!Tick, Q!Peers!Tick, Peers!Place,
     Q!Peers!Place, Peers!MuteThem, Q!Peers!MuteThem, Peers!CrowdMoves, Q!Peers!CrowdMoves,
     Peers!Dwelt, Q!Peers!Dwelt, Peers!BackedOff, Q!Peers!BackedOff, Peers!IntervalOver,
     Q!Peers!IntervalOver, Peers!Init, Q!Peers!Init, Peers!Next, Q!Peers!Next,
     Peers!AudiblySpeaking, Q!Peers!AudiblySpeaking, Peers!HeardRight, Q!Peers!HeardRight,
     Peers!PermitsSoundStep, Q!Peers!PermitsSoundStep

LEMMA ProposalSame ==
    /\ Proposal!Init <=> Q!Page!Init
    /\ Proposal!Next <=> Q!Page!Next
    /\ Proposal!ToldTrue <=> Q!Page!ToldTrue
    /\ Proposal!NeverBackStep <=> Q!Page!NeverBackStep
BY DEF Proposal!Detail, Q!Page!Detail, Proposal!NoDetail, Q!Page!NoDetail, Proposal!NoOp,
     Q!Page!NoOp, Proposal!Writing, Q!Page!Writing, Proposal!Working, Q!Page!Working,
     Proposal!NewRead, Q!Page!NewRead, Proposal!Room, Q!Page!Room, Proposal!Rest, Q!Page!Rest,
     Proposal!Barred, Q!Page!Barred, Proposal!Accepted, Q!Page!Accepted, Proposal!Overtaken,
     Q!Page!Overtaken, Proposal!Landed, Q!Page!Landed, Proposal!Shown, Q!Page!Shown,
     Proposal!Shows, Q!Page!Shows, Proposal!Went, Q!Page!Went, Proposal!Told, Q!Page!Told,
     Proposal!Verdict, Q!Page!Verdict, Proposal!Ends, Q!Page!Ends, Proposal!ReadServed,
     Q!Page!ReadServed, Proposal!YouFailed, Q!Page!YouFailed, Proposal!YouLands, Q!Page!YouLands,
     Proposal!YouMisses, Q!Page!YouMisses, Proposal!PublicLands, Q!Page!PublicLands,
     Proposal!PublicMisses, Q!Page!PublicMisses, Proposal!Refresh, Q!Page!Refresh,
     Proposal!Reading, Q!Page!Reading, Proposal!Poll, Q!Page!Poll, Proposal!HousePoll,
     Q!Page!HousePoll, Proposal!DeadlineRead, Q!Page!DeadlineRead, Proposal!TryAgain,
     Q!Page!TryAgain, Proposal!RetryYou, Q!Page!RetryYou, Proposal!SessionFound,
     Q!Page!SessionFound, Proposal!Can, Q!Page!Can, Proposal!CanConsent, Q!Page!CanConsent,
     Proposal!OpenStep, Q!Page!OpenStep, Proposal!CancelStep, Q!Page!CancelStep, Proposal!Act,
     Q!Page!Act, Proposal!PressConsent, Q!Page!PressConsent, Proposal!PressObject,
     Q!Page!PressObject, Proposal!PressComment, Q!Page!PressComment, Proposal!Deed, Q!Page!Deed,
     Proposal!Takes, Q!Page!Takes, Proposal!Does, Q!Page!Does, Proposal!RoomFor, Q!Page!RoomFor,
     Proposal!Serve, Q!Page!Serve, Proposal!GivesUp, Q!Page!GivesUp, Proposal!ServeLate,
     Q!Page!ServeLate, Proposal!PostReason, Q!Page!PostReason, Proposal!Finishes, Q!Page!Finishes,
     Proposal!Answer, Q!Page!Answer, Proposal!WriteAnswered, Q!Page!WriteAnswered,
     Proposal!WriteRefused, Q!Page!WriteRefused, Proposal!WriteUnclear, Q!Page!WriteUnclear,
     Proposal!Others, Q!Page!Others, Proposal!Init, Q!Page!Init, Proposal!Lands, Q!Page!Lands,
     Proposal!Next, Q!Page!Next, Proposal!ToldTrue, Q!Page!ToldTrue, Proposal!NeverBackStep,
     Q!Page!NeverBackStep

LEMMA TaskSame ==
    /\ Task!Init <=> Q!Task!Init
    /\ Task!Next <=> Q!Task!Next
    /\ Task!LossIsTrueStep <=> Q!Task!LossIsTrueStep
BY DEF Task!Holders, Q!Task!Holders, Task!Idle, Q!Task!Idle, Task!Out, Q!Task!Out, Task!Answer,
     Q!Task!Answer, Task!Holding, Q!Task!Holding, Task!HasChecks, Q!Task!HasChecks,
     Task!StartsWatching, Q!Task!StartsWatching, Task!StopsWatching, Q!Task!StopsWatching,
     Task!Cleared, Q!Task!Cleared, Task!Leased, Q!Task!Leased, Task!Reload, Q!Task!Reload,
     Task!ServeLoad, Q!Task!ServeLoad, Task!LoadLands, Q!Task!LoadLands, Task!LoadFails,
     Q!Task!LoadFails, Task!Retry, Q!Task!Retry, Task!ReadQuietly, Q!Task!ReadQuietly,
     Task!QuietEnds, Q!Task!QuietEnds, Task!Tick, Q!Task!Tick, Task!ServeStatus,
     Q!Task!ServeStatus, Task!LeaseLost, Q!Task!LeaseLost, Task!StatusLands, Q!Task!StatusLands,
     Task!StatusMisses, Q!Task!StatusMisses, Task!ChecksEnd, Q!Task!ChecksEnd, Task!RailsEnd,
     Q!Task!RailsEnd, Task!ReadStatusNow, Q!Task!ReadStatusNow, Task!Visibility,
     Q!Task!Visibility, Task!OffersClaim, Q!Task!OffersClaim, Task!Claim, Q!Task!Claim,
     Task!AskRelease, Q!Task!AskRelease, Task!Release, Q!Task!Release, Task!Claims, Q!Task!Claims,
     Task!Frees, Q!Task!Frees, Task!ServeWrite, Q!Task!ServeWrite, Task!WriteStops,
     Q!Task!WriteStops, Task!Ends, Q!Task!Ends, Task!ClaimLands, Q!Task!ClaimLands,
     Task!ClaimTaken, Q!Task!ClaimTaken, Task!ClaimUnheard, Q!Task!ClaimUnheard, Task!Refused,
     Q!Task!Refused, Task!ReleaseLands, Q!Task!ReleaseLands, Task!ReleaseUnheard,
     Q!Task!ReleaseUnheard, Task!LeaseEnds, Q!Task!LeaseEnds, Task!OtherClaims,
     Q!Task!OtherClaims, Task!AgentMoves, Q!Task!AgentMoves, Task!Init, Q!Task!Init, Task!Next,
     Q!Task!Next, Task!LossIsTrueStep, Q!Task!LossIsTrueStep

LEMMA SceneSame ==
    /\ Scene!Init <=> Q!Scene!Init
    /\ Scene!Next <=> Q!Scene!Next
    /\ Scene!BodyAsItIs <=> Q!Scene!BodyAsItIs
    /\ Scene!ClipStays <=> Q!Scene!ClipStays
    /\ Scene!QuietOnceStoppedStep <=> Q!Scene!QuietOnceStoppedStep
BY DEF Scene!scene, Q!Scene!scene, Scene!screen, Q!Scene!screen, Scene!Gone, Q!Scene!Gone,
     Scene!Orb, Q!Scene!Orb, Scene!NoRobot, Q!Scene!NoRobot, Scene!Stopped, Q!Scene!Stopped,
     Scene!StopTelling, Q!Scene!StopTelling, Scene!BuildStep, Q!Scene!BuildStep, Scene!Draws,
     Q!Scene!Draws, Scene!Avatars, Q!Scene!Avatars, Scene!Restyled, Q!Scene!Restyled,
     Scene!OwnLook, Q!Scene!OwnLook, Scene!Own, Q!Scene!Own, Scene!SelfState, Q!Scene!SelfState,
     Scene!Frame, Q!Scene!Frame, Scene!FrameThrows, Q!Scene!FrameThrows, Scene!ContextLost,
     Q!Scene!ContextLost, Scene!Takes, Q!Scene!Takes, Scene!BodyLoads, Q!Scene!BodyLoads,
     Scene!BodyFails, Q!Scene!BodyFails, Scene!MayRetry, Q!Scene!MayRetry, Scene!Retries,
     Q!Scene!Retries, Scene!RetrySelf, Q!Scene!RetrySelf, Scene!SetView, Q!Scene!SetView,
     Scene!RoomChanges, Q!Scene!RoomChanges, Scene!DirectoryChanges, Q!Scene!DirectoryChanges,
     Scene!Dressed, Q!Scene!Dressed, Scene!Dispose, Q!Scene!Dispose, Scene!Play, Q!Scene!Play,
     Scene!SetWanted, Q!Scene!SetWanted, Scene!BeforeTheClip, Q!Scene!BeforeTheClip,
     Scene!ShowsPoster, Q!Scene!ShowsPoster, Scene!PosterLoads, Q!Scene!PosterLoads,
     Scene!ClipLoads, Q!Scene!ClipLoads, Scene!FileFails, Q!Scene!FileFails, Scene!Kick,
     Q!Scene!Kick, Scene!DisposeScreen, Q!Scene!DisposeScreen, Scene!Init, Q!Scene!Init,
     Scene!PeopleSteps, Q!Scene!PeopleSteps, Scene!ScreenSteps, Q!Scene!ScreenSteps, Scene!Next,
     Q!Scene!Next, Scene!BodyAsItIs, Q!Scene!BodyAsItIs, Scene!QuietOnceStoppedStep,
     Q!Scene!QuietOnceStoppedStep, Scene!ClipStays, Q!Scene!ClipStays, Scene!Cardinality,
     Q!Scene!Cardinality

LEMMA DeskSame ==
    /\ Desk!Init <=> Q!Desk!Init
    /\ Desk!Next <=> Q!Desk!Next
    /\ Desk!FormKept <=> Q!Desk!FormKept
    /\ Desk!PublishedRead <=> Q!Desk!PublishedRead
BY DEF Desk!NoOp, Q!Desk!NoOp, Desk!NoHouse, Q!Desk!NoHouse, Desk!HouseWorking,
     Q!Desk!HouseWorking, Desk!Drafting, Q!Desk!Drafting, Desk!Busy, Q!Desk!Busy, Desk!Plain,
     Q!Desk!Plain, Desk!Checked, Q!Desk!Checked, Desk!InForm, Q!Desk!InForm, Desk!InSaved,
     Q!Desk!InSaved, Desk!OffersUse, Q!Desk!OffersUse, Desk!OffersUndo, Q!Desk!OffersUndo,
     Desk!Follows, Q!Desk!Follows, Desk!Rendered, Q!Desk!Rendered, Desk!Reads, Q!Desk!Reads,
     Desk!Poll, Q!Desk!Poll, Desk!CanOpen, Q!Desk!CanOpen, Desk!OpenStep, Q!Desk!OpenStep,
     Desk!NotYet, Q!Desk!NotYet, Desk!Confirm, Q!Desk!Confirm, Desk!HasForm, Q!Desk!HasForm,
     Desk!Edit, Q!Desk!Edit, Desk!UseHouse, Q!Desk!UseHouse, Desk!Undo, Q!Desk!Undo,
     Desk!SaveDraft, Q!Desk!SaveDraft, Desk!Publish, Q!Desk!Publish, Desk!Passed, Q!Desk!Passed,
     Desk!Saved, Q!Desk!Saved, Desk!Asked, Q!Desk!Asked, Desk!CanAsk, Q!Desk!CanAsk, Desk!Took,
     Q!Desk!Took, Desk!Serve, Q!Desk!Serve, Desk!ThenPublish, Q!Desk!ThenPublish, Desk!Closes,
     Q!Desk!Closes, Desk!Answered, Q!Desk!Answered, Desk!HouseStarts, Q!Desk!HouseStarts,
     Desk!HouseLands, Q!Desk!HouseLands, Desk!HouseFails, Q!Desk!HouseFails, Desk!OtherSaves,
     Q!Desk!OtherSaves, Desk!OtherAsks, Q!Desk!OtherAsks, Desk!OtherPublishes,
     Q!Desk!OtherPublishes, Desk!TimeOrSwitch, Q!Desk!TimeOrSwitch, Desk!Init, Q!Desk!Init,
     Desk!Next, Q!Desk!Next, Desk!FormKept, Q!Desk!FormKept, Desk!PublishedRead,
     Q!Desk!PublishedRead

LEMMA PracticeSame ==
    /\ Practice!Init <=> Q!Practice!Init
    /\ Practice!Next <=> Q!Practice!Next
    /\ Practice!WalkThrough <=> Q!Practice!WalkThrough
BY DEF Practice!Ids, Q!Practice!Ids, Practice!Others, Q!Practice!Others, Practice!One,
     Q!Practice!One, Practice!Sample, Q!Practice!Sample, Practice!Samples, Q!Practice!Samples,
     Practice!Refused, Q!Practice!Refused, Practice!Changed, Q!Practice!Changed,
     Practice!WrongState, Q!Practice!WrongState, Practice!Second, Q!Practice!Second,
     Practice!Answered, Q!Practice!Answered, Practice!Everyone, Q!Practice!Everyone,
     Practice!Consent, Q!Practice!Consent, Practice!Object, Q!Practice!Object, Practice!Comment,
     Q!Practice!Comment, Practice!Vote, Q!Practice!Vote, Practice!You, Q!Practice!You,
     Practice!Never, Q!Practice!Never, Practice!Stages, Q!Practice!Stages, Practice!Ready,
     Q!Practice!Ready, Practice!NotHeld, Q!Practice!NotHeld, Practice!Event, Q!Practice!Event,
     Practice!Smaller, Q!Practice!Smaller, Practice!WorksInCopy, Q!Practice!WorksInCopy,
     Practice!StageAt, Q!Practice!StageAt, Practice!Stage, Q!Practice!Stage, Practice!Checks,
     Q!Practice!Checks, Practice!CanRelay, Q!Practice!CanRelay, Practice!Says, Q!Practice!Says,
     Practice!Room, Q!Practice!Room, Practice!Holding, Q!Practice!Holding, Practice!Claim,
     Q!Practice!Claim, Practice!Dispatch, Q!Practice!Dispatch, Practice!Copy, Q!Practice!Copy,
     Practice!Review, Q!Practice!Review, Practice!Feedback, Q!Practice!Feedback, Practice!Release,
     Q!Practice!Release, Practice!NotTheHolder, Q!Practice!NotTheHolder, Practice!Passes,
     Q!Practice!Passes, Practice!Init, Q!Practice!Init, Practice!FloorSteps,
     Q!Practice!FloorSteps, Practice!RunSteps, Q!Practice!RunSteps, Practice!Next,
     Q!Practice!Next, Practice!WalkThrough, Q!Practice!WalkThrough

LEMMA SignSame ==
    /\ Sign!Init <=> P!Init
    /\ Sign!Next <=> P!Next
    /\ Sign!ActsAsAsked <=> P!ActsAsAsked
    /\ Sign!TokensReturned <=> P!TokensReturned
BY DEF Sign!Ids, P!Ids, Sign!Nobody, P!Nobody, Sign!NoTx, P!NoTx, Sign!Purpose, P!Purpose,
     Sign!Callback, P!Callback, Sign!OneTime, P!OneTime, Sign!Started, P!Started, Sign!Idle,
     P!Idle, Sign!Google, P!Google, Sign!IsGitHub, P!IsGitHub, Sign!Start, P!Start, Sign!Approve,
     P!Approve, Sign!CookieExpires, P!CookieExpires, Sign!Takes, P!Takes, Sign!Declined,
     P!Declined, Sign!Refusal, P!Refusal, Sign!Arrive, P!Arrive, Sign!To, P!To, Sign!CallTimeout,
     P!CallTimeout, Sign!Waits, P!Waits, Sign!Exchange, P!Exchange, Sign!Belongs, P!Belongs,
     Sign!ReadUser, P!ReadUser, Sign!SignsIn, P!SignsIn, Sign!Limit, P!Limit, Sign!Reserve,
     P!Reserve, Sign!ActionTimeout, P!ActionTimeout, Sign!Act, P!Act, Sign!Revoke, P!Revoke,
     Sign!Respond, P!Respond, Sign!Leaves, P!Leaves, Sign!SignOut, P!SignOut, Sign!Switch,
     P!Switch, Sign!Init, P!Init, Sign!Next, P!Next, Sign!ActsAsAsked, P!ActsAsAsked,
     Sign!TokensReturned, P!TokensReturned, Sign!Cardinality, P!Cardinality

LEMMA BffSame ==
    /\ Bff!Init <=> P!Bff!Init
    /\ Bff!Next <=> P!Bff!Next
    /\ Bff!VouchedOnly <=> P!Bff!VouchedOnly
    /\ Bff!ToldTrue <=> P!Bff!ToldTrue
BY DEF Bff!Keys, P!Bff!Keys, Bff!Sessions, P!Bff!Sessions, Bff!Nobody, P!Bff!Nobody, Bff!R,
     P!Bff!R, Bff!BridgeRoutes, P!Bff!BridgeRoutes, Bff!ProposalRoutes, P!Bff!ProposalRoutes,
     Bff!NotificationRoutes, P!Bff!NotificationRoutes, Bff!GrantRoutes, P!Bff!GrantRoutes,
     Bff!BrickRoutes, P!Bff!BrickRoutes, Bff!MachineRoutes, P!Bff!MachineRoutes, Bff!AvatarRoutes,
     P!Bff!AvatarRoutes, Bff!LedgerRoutes, P!Bff!LedgerRoutes, Bff!UplandRoutes,
     P!Bff!UplandRoutes, Bff!FileRoutes, P!Bff!FileRoutes, Bff!Routes, P!Bff!Routes, Bff!Writes,
     P!Bff!Writes, Bff!WithBody, P!Bff!WithBody, Bff!SameOrigin, P!Bff!SameOrigin,
     Bff!TrustedOrigin, P!Bff!TrustedOrigin, Bff!TooLarge, P!Bff!TooLarge, Bff!WrongType,
     P!Bff!WrongType, Bff!Anonymous, P!Bff!Anonymous, Bff!Session, P!Bff!Session, Bff!CanMint,
     P!Bff!CanMint, Bff!ForwardChecks, P!Bff!ForwardChecks, Bff!LedgerChecks, P!Bff!LedgerChecks,
     Bff!UplandChecks, P!Bff!UplandChecks, Bff!FileChecks, P!Bff!FileChecks, Bff!ChecksOf,
     P!Bff!ChecksOf, Bff!FailsAt, P!Bff!FailsAt, Bff!Verdict, P!Bff!Verdict, Bff!Vouches,
     P!Bff!Vouches, Bff!Bodies, P!Bff!Bodies, Bff!NoRequest, P!Bff!NoRequest, Bff!Ask, P!Bff!Ask,
     Bff!Handle, P!Bff!Handle, Bff!Serve, P!Bff!Serve, Bff!PassOn, P!Bff!PassOn, Bff!TimedOut,
     P!Bff!TimedOut, Bff!Deadline, P!Bff!Deadline, Bff!ServeLate, P!Bff!ServeLate, Bff!Reset,
     P!Bff!Reset, Bff!MayHaveHappened, P!Bff!MayHaveHappened, Bff!Says, P!Bff!Says, Bff!Hears,
     P!Bff!Hears, Bff!HearsNothing, P!Bff!HearsNothing, Bff!SessionChanges, P!Bff!SessionChanges,
     Bff!Init, P!Bff!Init, Bff!Next, P!Bff!Next, Bff!VouchedOnly, P!Bff!VouchedOnly, Bff!ToldTrue,
     P!Bff!ToldTrue

LEMMA AgentsSame ==
    /\ Agents!Init <=> P!Agents!Init
    /\ Agents!Next <=> P!Agents!Next
    /\ Agents!RevokedIsOver <=> P!Agents!RevokedIsOver
    /\ Agents!SaidIsDone <=> P!Agents!SaidIsDone
BY DEF Agents!Codes, P!Agents!Codes, Agents!Tokens, P!Agents!Tokens, Agents!Nobody,
     P!Agents!Nobody, Agents!Unread, P!Agents!Unread, Agents!Requests, P!Agents!Requests,
     Agents!At, P!Agents!At, Agents!Notice, P!Agents!Notice, Agents!Checked, P!Agents!Checked,
     Agents!Shown, P!Agents!Shown, Agents!Issued, P!Agents!Issued, Agents!Live, P!Agents!Live,
     Agents!Newer, P!Agents!Newer, Agents!IssuesTo, P!Agents!IssuesTo, Agents!NextToken,
     P!Agents!NextToken, Agents!Revoke, P!Agents!Revoke, Agents!LiveGrants, P!Agents!LiveGrants,
     Agents!GrantFor, P!Agents!GrantFor, Agents!Open, P!Agents!Open, Agents!SignIn,
     P!Agents!SignIn, Agents!OtherTab, P!Agents!OtherTab, Agents!Back, P!Agents!Back,
     Agents!Refused, P!Agents!Refused, Agents!Decide, P!Agents!Decide, Agents!Drops,
     P!Agents!Drops, Agents!Replayed, P!Agents!Replayed, Agents!Bought, P!Agents!Bought,
     Agents!Redeem, P!Agents!Redeem, Agents!Retry, P!Agents!Retry, Agents!Refreshable,
     P!Agents!Refreshable, Agents!Refresh, P!Agents!Refresh, Agents!AgentLeaves,
     P!Agents!AgentLeaves, Agents!TimePasses, P!Agents!TimePasses, Agents!FlagTurns,
     P!Agents!FlagTurns, Agents!MeReads, P!Agents!MeReads, Agents!Disconnect, P!Agents!Disconnect,
     Agents!Disconnected, P!Agents!Disconnected, Agents!MeOpens, P!Agents!MeOpens, Agents!NoToken,
     P!Agents!NoToken, Agents!Init, P!Agents!Init, Agents!Next, P!Agents!Next,
     Agents!RevokedIsOver, P!Agents!RevokedIsOver, Agents!SaidIsDone, P!Agents!SaidIsDone,
     Agents!Cardinality, P!Agents!Cardinality

LEMMA LibrarySame ==
    /\ Library!Init <=> P!Library!Init
    /\ Library!Next <=> P!Library!Next
    /\ Library!FilesStand <=> P!Library!FilesStand
    /\ Library!FailedUploadLeavesNothing <=> P!Library!FailedUploadLeavesNothing
BY DEF Library!KeepsFile, P!Library!KeepsFile, Library!Library, P!Library!Library, Library!FileOf,
     P!Library!FileOf, Library!DropUnused, P!Library!DropUnused, Library!RoomInLibrary,
     P!Library!RoomInLibrary, Library!NextBlueprint, P!Library!NextBlueprint, Library!Started,
     P!Library!Started, Library!Finished, P!Library!Finished, Library!Deleted, P!Library!Deleted,
     Library!Idle, P!Library!Idle, Library!NoUpload, P!Library!NoUpload, Library!Mechanic,
     P!Library!Mechanic, Library!SetBuilder, P!Library!SetBuilder, Library!Recheck,
     P!Library!Recheck, Library!ServeWho, P!Library!ServeWho, Library!Learns, P!Library!Learns,
     Library!WhoLands, P!Library!WhoLands, Library!RoleMoves, P!Library!RoleMoves,
     Library!LoadLibrary, P!Library!LoadLibrary, Library!ServeLibrary, P!Library!ServeLibrary,
     Library!LibraryLands, P!Library!LibraryLands, Library!LibraryFails, P!Library!LibraryFails,
     Library!StartUpload, P!Library!StartUpload, Library!UploadStarts, P!Library!UploadStarts,
     Library!FinishUpload, P!Library!FinishUpload, Library!ServeFinish, P!Library!ServeFinish,
     Library!UploadAdded, P!Library!UploadAdded, Library!UploadFails, P!Library!UploadFails,
     Library!ServeCleanUp, P!Library!ServeCleanUp, Library!UploadLost, P!Library!UploadLost,
     Library!UploadForgotten, P!Library!UploadForgotten, Library!PressStandIn,
     P!Library!PressStandIn, Library!PressDelete, P!Library!PressDelete, Library!Serve,
     P!Library!Serve, Library!Lost, P!Library!Lost, Library!Answer, P!Library!Answer,
     Library!Stands, P!Library!Stands, Library!ComesDown, P!Library!ComesDown,
     Library!OtherUploads, P!Library!OtherUploads, Library!OtherDeletes, P!Library!OtherDeletes,
     Library!Init, P!Library!Init, Library!Who, P!Library!Who, Library!LibraryReads,
     P!Library!LibraryReads, Library!Uploads, P!Library!Uploads, Library!Writes, P!Library!Writes,
     Library!Others, P!Library!Others, Library!Next, P!Library!Next, Library!FilesStand,
     P!Library!FilesStand, Library!FailedUploadLeavesNothing, P!Library!FailedUploadLeavesNothing

LEMMA MechanicSame ==
    /\ Mechanic!Init <=> P1!Library!Init
    /\ Mechanic!Next <=> P1!Library!Next
    /\ Mechanic!FilesStand <=> P1!Library!FilesStand
    /\ Mechanic!FailedUploadLeavesNothing <=> P1!Library!FailedUploadLeavesNothing
BY DEF Mechanic!KeepsFile, P1!Library!KeepsFile, Mechanic!Library, P1!Library!Library,
     Mechanic!FileOf, P1!Library!FileOf, Mechanic!DropUnused, P1!Library!DropUnused,
     Mechanic!RoomInLibrary, P1!Library!RoomInLibrary, Mechanic!NextBlueprint,
     P1!Library!NextBlueprint, Mechanic!Started, P1!Library!Started, Mechanic!Finished,
     P1!Library!Finished, Mechanic!Deleted, P1!Library!Deleted, Mechanic!Idle, P1!Library!Idle,
     Mechanic!NoUpload, P1!Library!NoUpload, Mechanic!Mechanic, P1!Library!Mechanic,
     Mechanic!SetBuilder, P1!Library!SetBuilder, Mechanic!Recheck, P1!Library!Recheck,
     Mechanic!ServeWho, P1!Library!ServeWho, Mechanic!Learns, P1!Library!Learns,
     Mechanic!WhoLands, P1!Library!WhoLands, Mechanic!RoleMoves, P1!Library!RoleMoves,
     Mechanic!LoadLibrary, P1!Library!LoadLibrary, Mechanic!ServeLibrary, P1!Library!ServeLibrary,
     Mechanic!LibraryLands, P1!Library!LibraryLands, Mechanic!LibraryFails,
     P1!Library!LibraryFails, Mechanic!StartUpload, P1!Library!StartUpload, Mechanic!UploadStarts,
     P1!Library!UploadStarts, Mechanic!FinishUpload, P1!Library!FinishUpload,
     Mechanic!ServeFinish, P1!Library!ServeFinish, Mechanic!UploadAdded, P1!Library!UploadAdded,
     Mechanic!UploadFails, P1!Library!UploadFails, Mechanic!ServeCleanUp, P1!Library!ServeCleanUp,
     Mechanic!UploadLost, P1!Library!UploadLost, Mechanic!UploadForgotten,
     P1!Library!UploadForgotten, Mechanic!PressStandIn, P1!Library!PressStandIn,
     Mechanic!PressDelete, P1!Library!PressDelete, Mechanic!Serve, P1!Library!Serve,
     Mechanic!Lost, P1!Library!Lost, Mechanic!Answer, P1!Library!Answer, Mechanic!Stands,
     P1!Library!Stands, Mechanic!ComesDown, P1!Library!ComesDown, Mechanic!OtherUploads,
     P1!Library!OtherUploads, Mechanic!OtherDeletes, P1!Library!OtherDeletes, Mechanic!Init,
     P1!Library!Init, Mechanic!Who, P1!Library!Who, Mechanic!LibraryReads,
     P1!Library!LibraryReads, Mechanic!Uploads, P1!Library!Uploads, Mechanic!Writes,
     P1!Library!Writes, Mechanic!Others, P1!Library!Others, Mechanic!Next, P1!Library!Next,
     Mechanic!FilesStand, P1!Library!FilesStand, Mechanic!FailedUploadLeavesNothing,
     P1!Library!FailedUploadLeavesNothing

LEMMA LedgerSame ==
    /\ Ledger!Init <=> Q!Init
    /\ Ledger!Next <=> Q!Next
    /\ Ledger!TurnsTaken <=> Q!TurnsTaken
    /\ Ledger!NothingMissed <=> Q!NothingMissed
    /\ Ledger!ToldItsOwn <=> Q!ToldItsOwn
BY DEF Ledger!GatewayAnswers, Q!GatewayAnswers, Ledger!LedgerAnswers, Q!LedgerAnswers,
     Ledger!Kinds, Q!Kinds, Ledger!InFlight, Q!InFlight, Ledger!Taken, Q!Taken, Ledger!Told,
     Q!Told, Ledger!Next1, Q!Next1, Ledger!Freed, Q!Freed, Ledger!Left, Q!Left, Ledger!Runs,
     Q!Runs, Ledger!Becomes, Q!Becomes, Ledger!Ask, Q!Ask, Ledger!Leave, Q!Leave, Ledger!Ends,
     Q!Ends, Ledger!Answered, Q!Answered, Ledger!Unreachable, Q!Unreachable, Ledger!TimesOut,
     Q!TimesOut, Ledger!Cut, Q!Cut, Ledger!Keys, Q!Keys, Ledger!NoPage, Q!NoPage, Ledger!Newest,
     Q!Newest, Ledger!AskPage, Q!AskPage, Ledger!Rest, Q!Rest, Ledger!ServePage, Q!ServePage,
     Ledger!PageFails, Q!PageFails, Ledger!NextOffset, Q!NextOffset, Ledger!Yield, Q!Yield,
     Ledger!Ingest, Q!Ingest, Ledger!Init, Q!Init, Ledger!ScreenSteps, Q!ScreenSteps,
     Ledger!WalkSteps, Q!WalkSteps, Ledger!Next, Q!Next, Ledger!TurnsTaken, Q!TurnsTaken,
     Ledger!ToldItsOwn, Q!ToldItsOwn, Ledger!NothingMissed, Q!NothingMissed, Ledger!RemoveFirst,
     Q!RemoveFirst, Ledger!RemoveAt, Q!RemoveAt, Ledger!SelectInSeq, Q!SelectInSeq, Ledger!Min,
     Q!Min, Ledger!Cardinality, Q!Cardinality

LEMMA RobotSame ==
    /\ Robot!Init <=> Q!Robot!Init
    /\ Robot!Next <=> Q!Robot!Next
    /\ Robot!WearsItsLook <=> Q!Robot!WearsItsLook
    /\ Robot!FlyerWhereItBelongs <=> Q!Robot!FlyerWhereItBelongs
<1>1. ASSUME NEW r, NEW s, NEW w, NEW l
     PROVE  Robot!Place(r, s, w, l) = Q!Robot!Place(r, s, w, l)
  BY DEF Robot!Place, Q!Robot!Place, Robot!PlaceFlyer, Q!Robot!PlaceFlyer, Robot!FlyerOverHead,
     Q!Robot!FlyerOverHead, Robot!FlyerOverAccessory, Q!Robot!FlyerOverAccessory, Robot!Flies,
     Q!Robot!Flies, Robot!Accessory, Q!Robot!Accessory, Robot!None, Q!Robot!None
<1>2. ASSUME NEW r, NEW s, NEW l
     PROVE  Robot!Drop(r, s, l) = Q!Robot!Drop(r, s, l)
  BY DEF Robot!Drop, Q!Robot!Drop, Robot!FlyerOverAccessory, Q!Robot!FlyerOverAccessory,
     Robot!Flies, Q!Robot!Flies, Robot!Accessory, Q!Robot!Accessory, Robot!None, Q!Robot!None
<1>3. ASSUME NEW r, NEW s, NEW from, NEW l
     PROVE  Robot!SetsIf(r, s, from, l) = Q!Robot!SetsIf(r, s, from, l)
  BY <1>1, <1>2 DEF Robot!SetsIf, Q!Robot!SetsIf, Robot!Sets, Q!Robot!Sets
<1>4. Robot!SetLook <=> Q!Robot!SetLook
  BY <1>3 DEF Robot!SetLook, Q!Robot!SetLook, Robot!None, Q!Robot!None, Robot!Worn, Q!Robot!Worn,
     Robot!Looks, Q!Robot!Looks, Robot!Call, Q!Robot!Call, Robot!Asked, Q!Robot!Asked
<1>5. Robot!Continues <=> Q!Robot!Continues
  BY <1>1, <1>2 DEF Robot!Continues, Q!Robot!Continues, Robot!Wears, Q!Robot!Wears, Robot!Waited,
     Q!Robot!Waited
<1>6. Robot!Next <=> Q!Robot!Next
  BY <1>4, <1>5 DEF Robot!Next, Q!Robot!Next, Robot!FileArrives, Q!Robot!FileArrives,
     Robot!FileFails, Q!Robot!FileFails, Robot!Arrives, Q!Robot!Arrives, Robot!FailureExpires,
     Q!Robot!FailureExpires, Robot!Retry, Q!Robot!Retry, Robot!Call, Q!Robot!Call, Robot!Asked,
     Q!Robot!Asked, Robot!Dispose, Q!Robot!Dispose, Robot!None, Q!Robot!None
<1>7. Robot!Init <=> Q!Robot!Init
  BY DEF Robot!Init, Q!Robot!Init, Robot!None, Q!Robot!None
<1>8. Robot!WearsItsLook <=> Q!Robot!WearsItsLook
  BY DEF Robot!WearsItsLook, Q!Robot!WearsItsLook, Robot!None, Q!Robot!None
<1>9. Robot!FlyerWhereItBelongs <=> Q!Robot!FlyerWhereItBelongs
  BY DEF Robot!FlyerWhereItBelongs, Q!Robot!FlyerWhereItBelongs, Robot!Flies, Q!Robot!Flies,
     Robot!None, Q!Robot!None
<1> QED
  BY <1>6, <1>7, <1>8, <1>9

-----------------------------------------------------------------------------
(* The cave.                                                               *)

LEMMA OneOfCave ==
    [CaveNext]_vars =>
      /\ part' = part
      /\ part = "voice" => Voice!Next \/ UNCHANGED vars
      /\ part = "peers" => Peers!Next \/ UNCHANGED vars
      /\ part = "scene" => Scene!Next \/ UNCHANGED vars
      /\ part = "robot" => Robot!Next \/ UNCHANGED vars
BY DEF CaveNext, VoiceStep, PeersStep, SceneStep, RobotStep, vars

LEMMA OneOfCaveBegins ==
    CaveInit =>
      /\ part = "voice" => Voice!Init
      /\ part = "peers" => Peers!Init
      /\ part = "scene" => Scene!Init
      /\ part = "robot" => Robot!Init
BY DEF CaveInit, VoiceInit, PeersInit, SceneInit, RobotInit

VoiceKept == part = "voice" => P!GoodVoice

LEMMA VoiceKeptAlways == CaveSpec => []VoiceKept
<1>1. CaveInit => VoiceKept
  BY OneOfCaveBegins, VoiceSame, P!VoiceStarts DEF VoiceKept
<1>2. VoiceKept /\ [CaveNext]_vars => VoiceKept'
  <2>1. [CaveNext]_vars /\ part = "voice" => [P!Voice!Next]_(P!Voice!vars)
    BY OneOfCave, VoiceSame DEF vars, P!Voice!vars, P!Voice!roomVars, P!Voice!micVars, P!Voice!audioVars
  <2> QED
    BY <2>1, OneOfCave, P!VoiceStepKeeps DEF VoiceKept
<1> QED
  BY <1>1, <1>2, PTL DEF CaveSpec

(* One member takes one seat, and no microphone captures outside the room  *)
(* shown, in every behaviour of the cave.                                  *)
THEOREM SeatIsHeld == CaveSpec => []SeatHeld
<1>1. VoiceKept => SeatHeld
  BY VoiceSame DEF VoiceKept, SeatHeld, P!GoodVoice, P!RoomFit
<1> QED
  BY <1>1, VoiceKeptAlways, PTL

PeersKept == part = "peers" => Q!GoodPeers

LEMMA TheRoom == Q!PeersAssumption
BY DEF Q!PeersAssumption

LEMMA PeersKeptAlways == CaveSpec => []PeersKept
<1>1. CaveInit => PeersKept
  BY OneOfCaveBegins, PeersSame, Q!PeersStart, TheRoom DEF PeersKept
<1>2. PeersKept /\ [CaveNext]_vars => PeersKept'
  <2>1. [CaveNext]_vars /\ part = "peers" => [Q!Peers!Next]_(Q!Peers!vars)
    BY OneOfCave, PeersSame DEF vars, Q!Peers!vars
  <2> QED
    BY <2>1, OneOfCave, Q!PeersStay, TheRoom DEF PeersKept
<1> QED
  BY <1>1, <1>2, PTL DEF CaveSpec

(* What the panel says of the microphone and of the sound is so, and the   *)
(* voice that plays is of who is in the room and received, in every        *)
(* behaviour of the cave.                                                  *)
THEOREM VoiceIsToldTrue == CaveSpec => []VoiceToldTrue
<1>1. VoiceKept /\ PeersKept => VoiceToldTrue
  <2> SUFFICES ASSUME VoiceKept, PeersKept PROVE VoiceToldTrue
    OBVIOUS
  <2>1. ASSUME part = "voice" PROVE Voice!MicTold /\ Voice!SoundTold
    BY <2>1, VoiceSame DEF VoiceKept, P!GoodVoice, P!MicFit, P!SoundFit
  <2>2. ASSUME part = "peers" PROVE Peers!HeardRight
    BY <2>2, Q!HearsRight, PeersSame DEF PeersKept
  <2> QED
    BY <2>1, <2>2 DEF VoiceToldTrue
<1> QED
  BY <1>1, VoiceKeptAlways, PeersKeptAlways, PTL

LEMMA SceneStepHolds ==
    [CaveNext]_vars /\ (part = "scene" => Q!GoodScene) =>
      /\ part' = part
      /\ part = "scene" => Q!GoodScene' /\ Scene!QuietOnceStoppedStep
<1>1. [CaveNext]_vars /\ part = "scene" => [Q!Scene!Next]_(Q!Scene!vars)
  BY OneOfCave, SceneSame DEF vars, Q!Scene!vars
<1> QED
  BY <1>1, OneOfCave, Q!SceneStays, SceneSame DEF Q!SceneKept

SceneKept == part = "scene" => Q!GoodScene

LEMMA SceneKeptAlways == CaveSpec => []SceneKept
<1>1. CaveInit => SceneKept
  BY OneOfCaveBegins, SceneSame, Q!SceneStarts DEF SceneKept
<1>2. SceneKept /\ [CaveNext]_vars => SceneKept'
  BY SceneStepHolds DEF SceneKept
<1> QED
  BY <1>1, <1>2, PTL DEF CaveSpec

LEMMA TheRobot == Q!RobotAssumption
BY DEF Q!RobotAssumption

RobotKept == part = "robot" => Q!GoodRobot

LEMMA RobotKeptAlways == CaveSpec => []RobotKept
<1>1. CaveInit => RobotKept
  BY OneOfCaveBegins, RobotSame, Q!RobotStarts, TheRobot DEF RobotKept
<1>2. RobotKept /\ [CaveNext]_vars => RobotKept'
  <2>1. [CaveNext]_vars /\ part = "robot" => [Q!Robot!Next]_(Q!Robot!vars)
    BY OneOfCave, RobotSame DEF vars, Q!Robot!vars
  <2> QED
    BY <2>1, OneOfCave, Q!RobotStays, TheRobot DEF RobotKept
<1> QED
  BY <1>1, <1>2, PTL DEF CaveSpec

(* What is drawn is what there is: the shared body, an app's clip, a       *)
(* robot's look and what flies over it, in every behaviour of the cave.    *)
THEOREM CaveIsDrawnTrue == CaveSpec => []DrawnTrue
<1>1. SceneKept /\ RobotKept => DrawnTrue
  <2> SUFFICES ASSUME SceneKept, RobotKept PROVE DrawnTrue
    OBVIOUS
  <2>1. ASSUME part = "scene" PROVE Scene!BodyAsItIs /\ Scene!ClipStays
    BY <2>1, Q!SceneShows, SceneSame DEF SceneKept
  <2>2. ASSUME part = "robot" PROVE Robot!WearsItsLook /\ Robot!FlyerWhereItBelongs
    BY <2>2, Q!RobotIsDressed, RobotSame DEF RobotKept
  <2> QED
    BY <2>1, <2>2 DEF DrawnTrue
<1> QED
  BY <1>1, SceneKeptAlways, RobotKeptAlways, PTL

(* No step permits our voice to a session that has not said it is near,    *)
(* nor tells the page anything once its cave has stopped, in any behaviour *)
(* of the cave.                                                            *)
THEOREM NothingIsOutOfTurn == CaveSpec => NothingOutOfTurn
<1> DEFINE Step == /\ part = "peers" => Peers!PermitsSoundStep
                   /\ part = "scene" => Scene!QuietOnceStoppedStep
<1>1. PeersKept /\ [CaveNext]_vars /\ part = "peers" => Peers!PermitsSoundStep
  <2>1. [CaveNext]_vars /\ part = "peers" => [Q!Peers!Next]_(Q!Peers!vars)
    BY OneOfCave, PeersSame DEF vars, Q!Peers!vars
  <2> QED
    BY <2>1, TheRoom, Q!PermitsTrue, PeersSame DEF PeersKept
<1>2. PeersKept /\ SceneKept /\ [CaveNext]_vars => [Step]_vars
  BY <1>1, SceneStepHolds DEF SceneKept
<1> QED
  BY <1>2, PeersKeptAlways, SceneKeptAlways, PTL DEF CaveSpec, NothingOutOfTurn

-----------------------------------------------------------------------------
(* The screens that answer to one person.                                  *)

LEMMA OneScreen ==
    [ScreensNext]_vars =>
      /\ part' = part
      /\ part = "sign" => Sign!Next \/ UNCHANGED vars
      /\ part = "bff" => Bff!Next \/ UNCHANGED vars
      /\ part = "agents" => Agents!Next \/ UNCHANGED vars
      /\ part = "library" => Library!Next \/ UNCHANGED vars
      /\ part = "mechanic" => Mechanic!Next \/ UNCHANGED vars
      /\ part = "desk" => Desk!Next \/ UNCHANGED vars
      /\ part = "practice" => Practice!Next \/ UNCHANGED vars
BY DEF ScreensNext, SignStep, BffStep, AgentsStep, ScreenStep, ButtonsStep, LibraryStep,
     MechanicStep, EditorStep, HeadsStep, CommentStep, PanelStep, DeskStep, ListStep,
     PracticeStep, BringStep, StepsStep, AgentStep, OutcomeStep, TouchStep, PointerStep,
     SwitchesStep, vars

LEMMA OneScreenBegins ==
    ScreensInit =>
      /\ part = "sign" => Sign!Init
      /\ part = "bff" => Bff!Init
      /\ part = "agents" => Agents!Init
      /\ part = "library" => Library!Init
      /\ part = "mechanic" => Mechanic!Init
      /\ part = "desk" => Desk!Init
      /\ part = "practice" => Practice!Init
BY DEF ScreensInit, SignInit, BffInit, AgentsInit, ScreenInit, ButtonsInit, LibraryInit,
     MechanicInit, EditorInit, HeadsInit, CommentInit, PanelInit, DeskInit, ListInit,
     PracticeInit, BringInit, StepsInit, AgentInit, OutcomeInit, TouchInit, PointerInit,
     SwitchesInit

SignKept == part = "sign" => P!GoodSign

LEMMA SignKeptAlways == ScreensSpec => []SignKept
<1>1. ScreensInit => SignKept
  BY OneScreenBegins, SignSame, P!SignStarts DEF SignKept
<1>2. SignKept /\ [ScreensNext]_vars => SignKept'
  <2>1. [ScreensNext]_vars /\ part = "sign" => [P!Next]_(P!vars)
    BY OneScreen, SignSame DEF vars, P!vars
  <2> QED
    BY <2>1, OneScreen, P!SignStays DEF SignKept
<1> QED
  BY <1>1, <1>2, PTL DEF ScreensSpec

CallKept == part = "bff" => P!GoodCall

LEMMA CallKeptAlways == ScreensSpec => []CallKept
<1>1. ScreensInit => CallKept
  BY OneScreenBegins, BffSame, P!GoodCallStarts DEF CallKept
<1>2. CallKept /\ [ScreensNext]_vars => CallKept'
  <2>1. [ScreensNext]_vars /\ part = "bff" => [P!Bff!Next]_(P!Bff!vars)
    BY OneScreen, BffSame DEF vars, P!Bff!vars
  <2> QED
    BY <2>1, OneScreen, P!GoodCallStep DEF CallKept
<1> QED
  BY <1>1, <1>2, PTL DEF ScreensSpec

GrantsKept == part = "agents" => P!GoodGrants

LEMMA GrantsKeptAlways == ScreensSpec => []GrantsKept
<1>1. ScreensInit => GrantsKept
  BY OneScreenBegins, AgentsSame, P!GrantsStart DEF GrantsKept
<1>2. GrantsKept /\ [ScreensNext]_vars => GrantsKept'
  <2>1. [ScreensNext]_vars /\ part = "agents" => [P!Agents!Next]_(P!Agents!vars)
    BY OneScreen, AgentsSame DEF vars, P!Agents!vars
  <2> QED
    BY <2>1, OneScreen, P!GrantsStay DEF GrantsKept
<1> QED
  BY <1>1, <1>2, PTL DEF ScreensSpec

LEMMA TheFiles == P!LibraryAssumption /\ P1!LibraryAssumption
<1>1. {1, 2} = 1 .. 2 /\ {1} = 1 .. 1
  OBVIOUS
<1> QED
  BY <1>1 DEF P!LibraryAssumption, P1!LibraryAssumption

LibraryKept == part = "library" => P!GoodLibrary

LEMMA LibraryKeptAlways == ScreensSpec => []LibraryKept
<1>1. ScreensInit => LibraryKept
  BY OneScreenBegins, LibrarySame, P!LibraryStarts, TheFiles DEF LibraryKept
<1>2. LibraryKept /\ [ScreensNext]_vars => LibraryKept'
  <2>1. [ScreensNext]_vars /\ part = "library" => [P!Library!Next]_(P!Library!vars)
    BY OneScreen, LibrarySame DEF vars, P!Library!vars
  <2> QED
    BY <2>1, OneScreen, P!LibraryStays, TheFiles DEF LibraryKept
<1> QED
  BY <1>1, <1>2, PTL DEF ScreensSpec

MechanicKept == part = "mechanic" => P1!GoodLibrary

LEMMA MechanicKeptAlways == ScreensSpec => []MechanicKept
<1>1. ScreensInit => MechanicKept
  BY OneScreenBegins, MechanicSame, P1!LibraryStarts, TheFiles DEF MechanicKept
<1>2. MechanicKept /\ [ScreensNext]_vars => MechanicKept'
  <2>1. [ScreensNext]_vars /\ part = "mechanic" => [P1!Library!Next]_(P1!Library!vars)
    BY OneScreen, MechanicSame DEF vars, P1!Library!vars
  <2> QED
    BY <2>1, OneScreen, P1!LibraryStays, TheFiles DEF MechanicKept
<1> QED
  BY <1>1, <1>2, PTL DEF ScreensSpec

(* Nothing acts for a person but as they asked, and no longer: one-time    *)
(* tokens, vouched calls, revoked agents; and what they are told is so.    *)
THEOREM ActsOnlyForThem == ScreensSpec => []ActsForThem
<1>1. SignKept /\ CallKept /\ GrantsKept => ActsForThem
  <2> SUFFICES ASSUME SignKept, CallKept, GrantsKept PROVE ActsForThem
    OBVIOUS
  <2>1. ASSUME part = "sign" PROVE Sign!ActsAsAsked /\ Sign!TokensReturned
    BY <2>1, P!TokensSettled, SignSame DEF SignKept, P!GoodSign, P!DoneFit
  <2>2. ASSUME part = "bff" PROVE Bff!VouchedOnly /\ Bff!ToldTrue
    BY <2>2, BffSame DEF CallKept, P!GoodCall
  <2>3. ASSUME part = "agents" PROVE Agents!RevokedIsOver /\ Agents!SaidIsDone
    BY <2>3, P!RevokedFit, AgentsSame DEF GrantsKept, P!GoodGrants, P!ListFit, P!Agents!SaidIsDone
  <2> QED
    BY <2>1, <2>2, <2>3 DEF ActsForThem
<1> QED
  BY <1>1, SignKeptAlways, CallKeptAlways, GrantsKeptAlways, PTL

(* Machines keep their files, and a failed upload leaves none behind, in   *)
(* every behaviour of the screens.                                         *)
THEOREM FilesAreKept == ScreensSpec => []FilesKept
<1>1. LibraryKept /\ MechanicKept => FilesKept
  <2> SUFFICES ASSUME LibraryKept, MechanicKept PROVE FilesKept
    OBVIOUS
  <2>1. ASSUME part = "library"
        PROVE  Library!FilesStand /\ Library!FailedUploadLeavesNothing
    BY <2>1, P!FilesFit, LibrarySame DEF LibraryKept
  <2>2. ASSUME part = "mechanic"
        PROVE  Mechanic!FilesStand /\ Mechanic!FailedUploadLeavesNothing
    BY <2>2, P1!FilesFit, MechanicSame DEF MechanicKept
  <2> QED
    BY <2>1, <2>2 DEF FilesKept
<1> QED
  BY <1>1, LibraryKeptAlways, MechanicKeptAlways, PTL

DeskKept == part = "desk" => Q!GoodDesk

LEMMA DeskKeptAlways == ScreensSpec => []DeskKept
<1>1. ScreensInit => DeskKept
  BY OneScreenBegins, DeskSame, Q!DeskStarts DEF DeskKept
<1>2. DeskKept /\ [ScreensNext]_vars => DeskKept'
  <2>1. [ScreensNext]_vars /\ part = "desk" => [Q!Desk!Next]_(Q!Desk!vars)
    BY OneScreen, DeskSame DEF vars, Q!Desk!vars
  <2> QED
    BY <2>1, OneScreen, Q!DeskStays DEF DeskKept
<1> QED
  BY <1>1, <1>2, PTL DEF ScreensSpec

LEMMA TheMembers == Q!PracticeAssumption
BY DEF Q!PracticeAssumption

PracticeKept == part = "practice" => Q!GoodFloor

LEMMA PracticeKeptAlways == ScreensSpec => []PracticeKept
<1>1. ScreensInit => PracticeKept
  BY OneScreenBegins, PracticeSame, Q!FloorOpens, TheMembers DEF PracticeKept
<1>2. PracticeKept /\ [ScreensNext]_vars => PracticeKept'
  <2>1. [ScreensNext]_vars /\ part = "practice" => [Q!Practice!Next]_(Q!Practice!vars)
    BY OneScreen, PracticeSame DEF vars, Q!Practice!vars
  <2> QED
    BY <2>1, OneScreen, Q!FloorStays, TheMembers DEF PracticeKept
<1> QED
  BY <1>1, <1>2, PTL DEF ScreensSpec

(* The form's text stands, what is published was read, and the practice    *)
(* floor ends as it says it will, in every behaviour of the screens.       *)
THEOREM WorkIsKept == ScreensSpec => []WorkKept
<1>1. DeskKept /\ PracticeKept => WorkKept
  <2> SUFFICES ASSUME DeskKept, PracticeKept PROVE WorkKept
    OBVIOUS
  <2>1. ASSUME part = "desk" PROVE Desk!FormKept /\ Desk!PublishedRead
    BY <2>1, Q!DeskIsKept, DeskSame DEF DeskKept
  <2>2. ASSUME part = "practice" PROVE Practice!WalkThrough
    BY <2>2, Q!FloorIsWalked, TheMembers, PracticeSame DEF PracticeKept
  <2> QED
    BY <2>1, <2>2 DEF WorkKept
<1> QED
  BY <1>1, DeskKeptAlways, PracticeKeptAlways, PTL

-----------------------------------------------------------------------------
(* The pages that keep in step with what others do.                        *)

LEMMA OnePage ==
    [PagesNext]_vars =>
      /\ part' = part
      /\ part = "proposal" => Proposal!Next \/ UNCHANGED vars
      /\ part = "task" => Task!Next \/ UNCHANGED vars
      /\ part = "ledger" => Ledger!Next \/ UNCHANGED vars
BY DEF PagesNext, ProposalStep, BellStep, TaskStep, LedgerStep, vars

LEMMA OnePageBegins ==
    PagesInit =>
      /\ part = "proposal" => Proposal!Init
      /\ part = "task" => Task!Init
      /\ part = "ledger" => Ledger!Init
BY DEF PagesInit, ProposalInit, BellInit, TaskInit, LedgerInit

LedgerKept == part = "ledger" => Q!ScreenHolds /\ Q!WalkHolds

LEMMA TheLedger == Q!LedgerAssumption
BY DEF Q!LedgerAssumption

LEMMA LedgerKeptAlways == PagesSpec => []LedgerKept
<1>1. PagesInit => LedgerKept
  BY OnePageBegins, LedgerSame, Q!ScreenStarts, Q!WalkStarts, TheLedger DEF LedgerKept
<1>2. LedgerKept /\ [PagesNext]_vars => LedgerKept'
  <2>1. [PagesNext]_vars /\ part = "ledger" => [Q!Next]_(Q!vars)
    BY OnePage, LedgerSame DEF vars, Q!vars
  <2> QED
    BY <2>1, OnePage, Q!ScreenKept, Q!WalkKept, TheLedger DEF LedgerKept
<1> QED
  BY <1>1, <1>2, PTL DEF PagesSpec

(* Reads take turns, and a walk of a list that moves misses nothing, in    *)
(* every behaviour of the pages.                                           *)
THEOREM ReadsTakeTurns == PagesSpec => []ReadsInTurn
<1>1. LedgerKept => ReadsInTurn
  <2> SUFFICES ASSUME LedgerKept, part = "ledger" PROVE Ledger!TurnsTaken /\ Ledger!NothingMissed
    BY DEF ReadsInTurn
  <2>1. Q!TurnsTaken
    BY TheLedger, Q!TurnsHold DEF LedgerKept
  <2>2. Q!NothingMissed
    BY DEF LedgerKept, Q!WalkHolds, Q!ByCursor, Q!NothingMissed
  <2> QED
    BY <2>1, <2>2, LedgerSame
<1> QED
  BY <1>1, LedgerKeptAlways, PTL

-----------------------------------------------------------------------------
LEMMA ProposalStepHolds ==
    [PagesNext]_vars /\ (part = "proposal" => Q!GoodPage) =>
      /\ part' = part
      /\ part = "proposal" => Q!GoodPage' /\ Proposal!NeverBackStep
<1>1. [PagesNext]_vars /\ part = "proposal" => [Q!Page!Next]_(Q!Page!vars)
  BY OnePage, ProposalSame DEF vars, Q!Page!vars
<1> QED
  BY <1>1, OnePage, Q!PageStays, ProposalSame DEF Q!PageKept

ProposalKept == part = "proposal" => Q!GoodPage

LEMMA ProposalKeptAlways == PagesSpec => []ProposalKept
<1>1. PagesInit => ProposalKept
  BY OnePageBegins, ProposalSame, Q!PageStarts DEF ProposalKept
<1>2. ProposalKept /\ [PagesNext]_vars => ProposalKept'
  BY ProposalStepHolds DEF ProposalKept
<1> QED
  BY <1>1, <1>2, PTL DEF PagesSpec

LEMMA TaskStepHolds ==
    [PagesNext]_vars /\ (part = "task" => Q!GoodTask) =>
      /\ part' = part
      /\ part = "task" => Q!GoodTask' /\ Task!LossIsTrueStep
<1>1. [PagesNext]_vars /\ part = "task" => [Q!Task!Next]_(Q!Task!vars)
  BY OnePage, TaskSame DEF vars, Q!Task!vars
<1> QED
  BY <1>1, OnePage, Q!TaskStays, TaskSame DEF Q!TaskKept

TaskKept == part = "task" => Q!GoodTask

LEMMA TaskKeptAlways == PagesSpec => []TaskKept
<1>1. PagesInit => TaskKept
  BY OnePageBegins, TaskSame, Q!TaskStarts DEF TaskKept
<1>2. TaskKept /\ [PagesNext]_vars => TaskKept'
  BY TaskStepHolds DEF TaskKept
<1> QED
  BY <1>1, <1>2, PTL DEF PagesSpec

(* What a proposal's page says went through did, and a region of the       *)
(* ledger is told its own read's outcome, in every behaviour of the pages. *)
THEOREM PagesToldAsItIs == PagesSpec => []ToldAsItIs
<1>1. ProposalKept /\ LedgerKept => ToldAsItIs
  <2> SUFFICES ASSUME ProposalKept, LedgerKept PROVE ToldAsItIs
    OBVIOUS
  <2>1. ASSUME part = "proposal" PROVE Proposal!ToldTrue
    BY <2>1, Q!PageTells, ProposalSame DEF ProposalKept
  <2>2. ASSUME part = "ledger" PROVE Ledger!ToldItsOwn
    BY <2>2, LedgerSame DEF LedgerKept, Q!ScreenHolds, Q!ToldItsOwn
  <2> QED
    BY <2>1, <2>2 DEF ToldAsItIs
<1> QED
  BY <1>1, ProposalKeptAlways, LedgerKeptAlways, PTL

(* No step puts a proposal back behind the last write's answer, and none   *)
(* lets go of a lease whose claim has not ended, in any behaviour of the   *)
(* pages.                                                                  *)
THEOREM NothingIsTakenBack == PagesSpec => NothingTakenBack
<1> DEFINE Step == /\ part = "proposal" => Proposal!NeverBackStep
                   /\ part = "task" => Task!LossIsTrueStep
<1>1. ProposalKept /\ TaskKept /\ [PagesNext]_vars => [Step]_vars
  BY ProposalStepHolds, TaskStepHolds DEF ProposalKept, TaskKept
<1> QED
  BY <1>1, ProposalKeptAlways, TaskKeptAlways, PTL DEF PagesSpec, NothingTakenBack

=============================================================================
