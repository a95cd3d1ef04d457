------------------------------- MODULE Requests -------------------------------
(***************************************************************************)
(* The HTTP interface: what happens to a request around its controller.    *)
(* The credential is verified, the body is checked against the OpenAPI     *)
(* document, the routes of bands and uploads ask for a musician profile,   *)
(* the controller runs, and what any of them throws is turned into an      *)
(* answer and a line of the log by one listener.                           *)
(*                                                                         *)
(* Requests interleave at every await: the look-up of the user, the one of *)
(* the profile, and the controller's own.  They share the table that gives *)
(* the status of an exception.  A controller adds its exceptions to it     *)
(* when the container first builds it, at its first request.               *)
(*                                                                         *)
(* A request in flight is a record of where it is.  What the controllers   *)
(* do is the matter of the other modules; here they succeed or throw.      *)
(*                                                                         *)
(* Artificial: MaxRequests caps the requests, Operation is the part of the *)
(* interface that clients call.                                            *)
(***************************************************************************)
EXTENDS LoggingRedaction

CONSTANTS
    Connection,   \* requests that can be in flight at a time
    User,
    Operation,
    Payload,      \* what the log is given with an exception that has details
    NoDetails,    \* and with one that has none
    MaxRequests

-----------------------------------------------------------------------------
(* The interface: the exceptions that the controllers declare with their   *)
(* status, and the operation that each of them answers.                    *)

None == [e \in {} |-> 0]

\* ApiController.exceptions of each controller
BandPostCreate == [BandExist |-> 409]
BandPutUpdate == [BandNotExist |-> 404]
BandDeleteRemove == [BandNotExist |-> 404]
BandGetSearch == [BandNotExist |-> 404]
BandSongPostCreate == [SongExist |-> 409, InvalidArgument |-> 400]
BandMemberPostCreate == [BandNotExist |-> 404, InvalidArgument |-> 400]
BandMemberGetByBand == [BandNotExist |-> 404]
BandMemberDeleteRemove == [BandNotExist |-> 404, InvalidArgument |-> 400]
PostUpload == [SongInstrumentNotExist |-> 404]
PostUploadConfirm == [SongInstrumentNotExist |-> 404, UploadNotExist |-> 404]
PostUploadCancel == [SongInstrumentNotExist |-> 404, UploadNotExist |-> 404, UploadNotCancellable |-> 409]
InstrumentsGetSearch == [InstrumentsNotExist |-> 404]
InstrumentsPutUpdate == [InstrumentsNotExist |-> 404]
MusicianGetById == [MusicianNotExist |-> 404]
ProfilePost == [MusicianExist |-> 409, UsernameExists |-> 409, UserHasProfile |-> 409]
SongVideoclipPostRequest ==
    [SongNotExist |-> 404, InvalidArgument |-> 400, IncompleteSongInstruments |-> 400, AlreadyRequested |-> 409]
SongVideoclipDeleteCancel == [SongNotExist |-> 404, ProcessNotFound |-> 404, NotCancellable |-> 409]
SongInstrumentPostCreate == [SongInstrumentExist |-> 409, InvalidArgument |-> 400]
SongInstrumentGetById == [SongInstrumentNotExist |-> 404]
SongInstrumentPatchEdit == [SongInstrumentNotExist |-> 404, InvalidArgument |-> 400]

\* Mutant: the assignment says itself what a band that is gone means.
PatchAssignDeclaresBand ==
    [SongInstrumentNotExist |-> 404, InvalidArgument |-> 400, BandNotExist |-> 400]

SongInstrumentPatchAssign == [SongInstrumentNotExist |-> 404, InvalidArgument |-> 400]
SongInstrumentPostInvite == [SongInstrumentNotExist |-> 404, InvalidArgument |-> 400]
SongInstrumentPatchVideo == [SongInstrumentNotExist |-> 404, VideoNotExist |-> 404]
UserPostRegister == [UserAlreadyExists |-> 409]
UserPostLogin == [InvalidCredentials |-> 401]

\* The routes: the controller of each operation.
BandRoutes ==
    [bandPostCreate         |-> BandPostCreate,
     bandPutUpdate          |-> BandPutUpdate,
     bandDeleteRemove       |-> BandDeleteRemove,
     bandSongPostCreate     |-> BandSongPostCreate,
     bandSongGetByBand      |-> None,
     bandMemberPostCreate   |-> BandMemberPostCreate,
     bandMemberGetByBand    |-> BandMemberGetByBand,
     bandMemberDeleteRemove |-> BandMemberDeleteRemove,
     bandGetSearch          |-> BandGetSearch,
     bandGetMatchByCriteria |-> None]

UploadRoutes ==
    [songInstrumentUploadPostUpload        |-> PostUpload,
     songInstrumentUploadPostUploadConfirm |-> PostUploadConfirm,
     songInstrumentUploadPostUploadCancel  |-> PostUploadCancel]

InstrumentsRoutes ==
    [instrumentsGetMatchByCriteria |-> None,
     instrumentsGetSearch          |-> InstrumentsGetSearch,
     instrumentsPutUpdate          |-> InstrumentsPutUpdate]

MusicianRoutes ==
    [profileGet |-> None, musicianGetById |-> MusicianGetById, profilePost |-> ProfilePost]

SongRoutes ==
    [songGetMatchByCriteria    |-> None,
     songVideoclipPostRequest  |-> SongVideoclipPostRequest,
     songVideoclipDeleteCancel |-> SongVideoclipDeleteCancel]

SongInstrumentRoutes ==
    [songInstrumentPostCreate          |-> SongInstrumentPostCreate,
     songInstrumentGetMatchByCriteria  |-> None,
     songInstrumentGetById             |-> SongInstrumentGetById,
     songInstrumentPatchEdit           |-> SongInstrumentPatchEdit,
     songInstrumentPatchMusicianAssign |-> SongInstrumentPatchAssign,
     songInstrumentPostInvite          |-> SongInstrumentPostInvite,
     songInstrumentPatchVideo          |-> SongInstrumentPatchVideo]

UserRoutes ==
    [userPostRegister |-> UserPostRegister, userPostLogin |-> UserPostLogin]

\* What an object becomes that is spread or registered over another.
Over(new, old) ==
    [x \in DOMAIN new \cup DOMAIN old |-> IF x \in DOMAIN new THEN new[x] ELSE old[x]]

Declares ==
    LET songs == Over(UploadRoutes, Over(SongInstrumentRoutes, SongRoutes))
    IN  Over(InstrumentsRoutes, Over(songs, Over(BandRoutes, Over(MusicianRoutes, UserRoutes))))

ASSUME OperationAssumption == Operation \subseteq DOMAIN Declares
ASSUME BoundAssumption == MaxRequests \in Nat
ASSUME PayloadAssumption == \A value \in Payload \cup {NoDetails} : IsGraph(value)

\* Thrown by what these controllers call, and declared by other controllers.
Undeclared(op) ==
    CASE op \in {"songInstrumentPatchMusicianAssign", "songInstrumentPostInvite"} -> {"BandNotExist"}
      [] op = "songVideoclipPostRequest" -> {"InstrumentsNotExist"}
      [] OTHER -> {}

\* The controllers that look up the musician of the caller and forbid a caller
\* who is none, or who may not touch what is asked for.
ForMusicians ==
    DOMAIN UploadRoutes \cup DOMAIN SongInstrumentRoutes \cup DOMAIN SongRoutes
    \cup {"bandSongPostCreate", "bandSongGetByBand", "bandMemberPostCreate", "bandMemberGetByBand",
          "bandMemberDeleteRemove"}

Forbids(op) == IF op \in ForMusicians THEN {"Forbidden"} ELSE {}

\* A failing statement, or any other error, is no exception of the domain.
Throws(op) == DOMAIN Declares[op] \cup Undeclared(op) \cup Forbids(op) \cup {"InvalidArgument", "Error"}

\* The security of the operations in the OpenAPI document.
Public == {"userPostRegister", "userPostLogin", "musicianGetById"}
ForAdmins == {"instrumentsPutUpdate"}

NeedsProfile ==
    (DOMAIN BandRoutes \ {"bandGetSearch", "bandGetMatchByCriteria"}) \cup DOMAIN UploadRoutes

\* What clients send: no credential, one that is no token of this service,
\* one without a subject, or the token of a user.
Credentials ==
    [is : {"absent", "not a token", "without subject"}]
    \cup [is : {"token"}, user : User, admin : BOOLEAN]

-----------------------------------------------------------------------------
VARIABLES
    userIds,      \* the users in the database
    withProfile,  \* and those who have a musician profile
    mapping,      \* ApiExceptionsHttpStatusCodeMapping.exceptions
    built,        \* the controllers the container holds
    inFlight,     \* where each of them is
    log,          \* the line just written, if any
    requests

vars == <<userIds, withProfile, mapping, built, inFlight, log, requests>>

Exceptions == {"Forbidden", "Error"} \cup UNION {DOMAIN Declares[op] : op \in DOMAIN Declares}

NoRequest == [at |-> "idle"]
Silence == [by |-> "nothing"]

Stages ==
    {NoRequest}
    \cup [at : {"security"}, op : Operation, cred : Credentials]
    \cup [at : {"profile", "controller"}, op : Operation, cred : Credentials]
    \cup [at : {"refused"}, op : Operation, cred : Credentials, status : {401, 403}]
    \cup [at : {"failed"}, op : Operation, exception : Exceptions, status : Nat, message : BOOLEAN]
    \cup [at : {"answered"}, op : Operation]

Defaults == [InvalidArgument |-> 400, NotFoundHttp |-> 404, Unauthorized |-> 401, Forbidden |-> 403]

TypeOK ==
    /\ userIds \subseteq User
    /\ withProfile \subseteq userIds
    /\ DOMAIN mapping \subseteq Exceptions \cup DOMAIN Defaults
    /\ built \subseteq Operation
    /\ inFlight \in [Connection -> Stages]
    /\ requests \in 0..MaxRequests

Init ==
    /\ userIds \in SUBSET User
    /\ withProfile \in SUBSET userIds
    /\ mapping = Defaults
    /\ built = {}
    /\ inFlight = [s \in Connection |-> NoRequest]
    /\ log = Silence
    /\ requests = 0

At(s, where) == inFlight[s].at = where
Goes(s, k) == inFlight' = [inFlight EXCEPT ![s] = k]

\* The OpenAPI backend has no operation for the URL, or takes the request in.
Receive(s, op, cred) ==
    /\ At(s, "idle")
    /\ requests < MaxRequests
    /\ requests' = requests + 1
    /\ Goes(s, [at |-> "security", op |-> op, cred |-> cred])
    /\ log' = Silence
    /\ UNCHANGED <<userIds, withProfile, mapping, built>>

-----------------------------------------------------------------------------
(* ApiExceptionListener.onException                                        *)

\* statusCodeFor
StatusOf(e) == IF e \in DOMAIN mapping THEN mapping[e] ELSE 500

Lines == [value \in Payload \cup {NoDetails} |-> Logged(value)]

\* Of an error that is answered 500 the log has the name, of others whatever
\* they come with.
LineOf(e, status, value) ==
    IF status = 500
      THEN [by |-> "listener", value |-> value, status |-> status, lines |-> Leaf({e})]
      ELSE [by |-> "listener", value |-> value, status |-> status, lines |-> Lines[value]]

\* Whether the client is told the message of the exception: not with a 500.
TellsMessage(status) == status # 500

Fail(s, e, value) ==
    LET status == StatusOf(e)
    IN  /\ Goes(s, [at |-> "failed", op |-> inFlight[s].op, exception |-> e, status |-> status,
                    message |-> TellsMessage(status)])
        /\ log' = LineOf(e, status, value)

Quietly == log' = Silence

-----------------------------------------------------------------------------
(* Security.                                                               *)

\* Mutant: a token outlives its user.
VerifiesByToken(op, cred) ==
    CASE cred.is = "absent" -> {"absent"}
      [] cred.is = "not a token" -> {"unauthorized"}
      [] cred.is = "without subject" -> {"forbidden"}
      [] cred.is = "token" ->
            {"error", IF op \in ForAdmins /\ ~cred.admin THEN "forbidden" ELSE "verified"}

\* createSecurityHandler and LocalJwtBearerToken.verifyJWT: what can come of
\* the credential, the database failing included.
Verifies(op, cred) ==
    CASE cred.is = "absent" -> {"absent"}
      [] cred.is = "not a token" -> {"unauthorized"}
      [] cred.is = "without subject" -> {"forbidden"}
      [] cred.is = "token" ->
            {"error",
             IF cred.user \notin userIds THEN "unauthorized"
             ELSE IF op \in ForAdmins /\ ~cred.admin THEN "forbidden"
             ELSE "verified"}

\* unauthorizedHandler and sendAuthenticationError: an error of the database
\* is answered as if the credential were wrong.
Refusal(outcome) == IF outcome = "forbidden" THEN 403 ELSE 401

\* Mutant: the exceptions are registered when the controller has run.
StartUnregistered(s) ==
    /\ built' = built \cup {inFlight[s].op}
    /\ Goes(s, [at |-> "controller", op |-> inFlight[s].op, cred |-> inFlight[s].cred])
    /\ mapping' = IF inFlight[s].op \in built THEN Over(Declares[inFlight[s].op], mapping) ELSE mapping

\* runController: container.get builds the controller at the first request,
\* and ApiController's constructor registers its exceptions.
Start(s) ==
    /\ built' = built \cup {inFlight[s].op}
    /\ mapping' = IF inFlight[s].op \in built THEN mapping ELSE Over(Declares[inFlight[s].op], mapping)
    /\ Goes(s, [at |-> "controller", op |-> inFlight[s].op, cred |-> inFlight[s].cred])

\* runController: the middlewares of the route first.
Route(s) ==
    /\ IF inFlight[s].op \in NeedsProfile
         THEN /\ Goes(s, [at |-> "profile", op |-> inFlight[s].op, cred |-> inFlight[s].cred])
              /\ UNCHANGED <<mapping, built>>
         ELSE Start(s)
    /\ Quietly

Refuse(s, status) ==
    /\ Goes(s, [at |-> "refused", op |-> inFlight[s].op, cred |-> inFlight[s].cred, status |-> status])
    /\ Quietly
    /\ UNCHANGED <<mapping, built>>

\* Mutant: the handler of failed validations catches its own exception.
InvalidIsSwallowed(s) ==
    /\ Goes(s, [at |-> "swallowed"])
    /\ Quietly
    /\ UNCHANGED <<mapping, built>>

\* validationFail: the error reaches the listener, which makes it an
\* InvalidArgumentException with what is wrong as its details.
Invalid(s) ==
    /\ \E value \in Payload : Fail(s, "InvalidArgument", value)
    /\ UNCHANGED <<mapping, built>>

\* The OpenAPI backend: security, then validation, then the route.
Secure(s) ==
    /\ At(s, "security")
    /\ \E outcome \in Verifies(inFlight[s].op, inFlight[s].cred) :
          IF inFlight[s].op \in Public \/ outcome = "verified"
            THEN Route(s) \/ Invalid(s)
            ELSE Refuse(s, Refusal(outcome))
    /\ UNCHANGED <<userIds, withProfile, requests>>

\* RequireMusicianProfileMiddleware.run
RequireProfile(s) ==
    /\ At(s, "profile")
    /\ \/ /\ inFlight[s].cred.user \in withProfile
          /\ Start(s)
          /\ Quietly
       \/ /\ inFlight[s].cred.user \notin withProfile
          /\ Fail(s, "Forbidden", NoDetails)
          /\ UNCHANGED <<mapping, built>>
       \/ /\ \E value \in Payload : Fail(s, "Error", value)
          /\ UNCHANGED <<mapping, built>>
    /\ UNCHANGED <<userIds, withProfile, requests>>

\* The controller answers.  A registration adds a user, and the first profile
\* of a user that user's profile.
Succeed(s) ==
    /\ At(s, "controller")
    /\ Goes(s, [at |-> "answered", op |-> inFlight[s].op])
    /\ IF inFlight[s].op = "userPostRegister"
         THEN \E u \in User : userIds' = userIds \cup {u}
         ELSE UNCHANGED userIds
    /\ withProfile' = IF inFlight[s].op = "profilePost" THEN withProfile \cup {inFlight[s].cred.user} ELSE withProfile
    /\ Quietly
    /\ UNCHANGED <<mapping, built, requests>>

\* The controller throws.
Throw(s) ==
    /\ At(s, "controller")
    /\ \E e \in Throws(inFlight[s].op) :
          \E value \in (IF e \in {"InvalidArgument", "Error"} THEN Payload ELSE {NoDetails}) :
              Fail(s, e, value)
    /\ UNCHANGED <<userIds, withProfile, mapping, built, requests>>

\* The response has been sent.
Finish(s) ==
    /\ \E end \in {"refused", "failed", "answered"} : At(s, end)
    /\ Goes(s, NoRequest)
    /\ Quietly
    /\ UNCHANGED <<userIds, withProfile, mapping, built, requests>>

Handles(s) == Secure(s) \/ RequireProfile(s) \/ Succeed(s) \/ Throw(s) \/ Finish(s)

Next ==
    \/ \E s \in Connection, op \in Operation, cred \in Credentials : Receive(s, op, cred)
    \/ \E s \in Connection : Handles(s)

Spec == Init /\ [][Next]_vars

\* The event loop runs every callback, and the statements of the database end.
Fairness == \A s \in Connection : WF_vars(Handles(s))

FairSpec == Spec /\ Fairness

-----------------------------------------------------------------------------
(* Properties.                                                             *)

\* A controller that needs one runs for a user that exists, with the role
\* and the profile its route asks for, whatever came between the checks.
EntitledRuns ==
    \A s \in Connection : At(s, "controller") /\ inFlight[s].op \notin Public =>
        /\ inFlight[s].cred.is = "token"
        /\ inFlight[s].cred.user \in userIds
        /\ inFlight[s].op \in ForAdmins => inFlight[s].cred.admin
        /\ inFlight[s].op \in NeedsProfile => inFlight[s].cred.user \in withProfile

\* An exception that its controller declares is answered with the declared
\* status, whichever controllers were built before and in which order; one
\* that is answered otherwise than 500 has its status from somewhere.
DeclaredStatus ==
    \A s \in Connection : At(s, "failed") =>
        LET c == inFlight[s]
        IN  /\ c.exception \in DOMAIN Declares[c.op] => c.status = Declares[c.op][c.exception]
            /\ c.status # 500 =>
                  \/ c.exception \in DOMAIN Defaults /\ c.status = Defaults[c.exception]
                  \/ \E op \in built : c.exception \in DOMAIN Declares[op]
            /\ c.message => c.exception # "Error"

\* No controller that is built later changes the status of an exception that
\* has one.
StatusesStay ==
    [][\A e \in DOMAIN mapping : e \in DOMAIN mapping' /\ mapping'[e] = mapping[e]]_vars

\* The table is that of the controllers that have been built, and answers
\* are in it.
RequestsInv ==
    /\ TypeOK
    /\ DeclaredStatus
    /\ \A s \in Connection : At(s, "controller") => inFlight[s].op \in built
    /\ DOMAIN mapping = DOMAIN Defaults \cup UNION {DOMAIN Declares[op] : op \in built}

\* Whatever an exception comes with, nothing below a sensitive field and no
\* fragment that looks like a secret or like personal data is in the log.
SecretsStayOut ==
    log # Silence => \A l \in log.lines :
        /\ l.says \cap (Secrets \cup Aliased \cup Bare) = {}
        /\ (\E i \in DOMAIN l.path : Strategy(l.path[i]) # "none") => l.says \subseteq {"***", "[REDACTED]"}

Readable == [value \in Payload |-> ReadableTexts(value)]

\* And the other texts are there, shared ones included: only a true cycle and
\* what is too deep is cut.
TheRestIsLogged ==
    log # Silence =>
        /\ log.status # 500 /\ log.value \in Payload => Readable[log.value] \subseteq log.lines
        /\ \A l \in log.lines : Len(l.path) <= MaxDepth + 1

\* Every request is answered.
EveryRequestEnds == \A s \in Connection : []<>At(s, "idle")

=============================================================================
