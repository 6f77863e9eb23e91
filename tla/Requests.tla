------------------------------ MODULE Requests ------------------------------
(***************************************************************************)
(* What the portal's pages send and what the API's routes take: the DTOs as  *)
(* functions from a field to the values its decorators let through, the      *)
(* routes of the controllers, the portal's request functions, and the forms  *)
(* its pages fill in.  Values are strings, "undefined" among them.           *)
(***************************************************************************)
EXTENDS Naturals, Sequences, FiniteSets, TLC

VARIABLES signedAs,  \* role of the session, or "signed out" on the login page
          asked,     \* the request under way, or NoRequest
          verdict    \* what the API made of it
requestVars == <<signedAs, asked, verdict>>

-----------------------------------------------------------------------------
(* DTOs *)

Optional(values) == values \cup {"undefined"}
\* A text is blank, of one character, or longer; "pass" passes every rule for a
\* password and "lower" lacks the upper-case letter.
Texts == {"", " ", "t", "text", "uuid", "username", "pass", "lower"}
WalletStatuses == {"ACTIVE", "SUSPENDED", "LOCKED", "PENDING"}
SweepStatuses == {"PENDING", "BROADCASTED", "CONFIRMED", "FAILED", "SKIPPED"}
CallbackStatuses == {"PENDING", "SUCCESS", "FAILED"}
ExceptionLogStatuses == {"OPEN", "IN_PROGRESS", "RESOLVED"}
WithdrawalStatuses == {"REQUESTED", "APPROVED", "BROADCASTED", "CONFIRMED", "FAILED"}
MemberRoles == {"OWNER", "OPERATOR", "DEVELOPER"}
Methods == {"GET", "POST", "PATCH", "PUT", "DELETE"}
\* A field that is @IsOptional only.
Anything == Optional(Texts \cup WalletStatuses \cup Methods \cup {"bool", "uuids", "[]"})

GetTableQueryDto == [limit |-> Optional({"20", "50"}), offset |-> Optional({"0", "50", "9900"})]
ApiPartnerIdDto == [partnerId |-> {"uuid"}]
AuthLoginDto == [username |-> {"username"}, password |-> {"pass"}]
VerifyMemberPasswordDto == [id |-> {"uuid"}, password |-> {"pass"}]
ChangeMemberMemberPasswordDto == [id |-> {"uuid"}, oldPassword |-> {"pass"}, newPassword |-> {"pass"}]
TestTransferDto ==
  [fromPrivateKey |-> Texts \ {""}, toAddress |-> Texts \ {""}, amount |-> {"0.01"}, tokenSymbol |-> Texts \ {""}]
TestWalletBalanceDto == [address |-> Texts \ {""}]
GetCallbackQueryDto ==
  ApiPartnerIdDto @@ GetTableQueryDto @@ [id |-> Optional({"uuid"}), status |-> Optional(CallbackStatuses)]
RetryFailedIdsBodyDto == ApiPartnerIdDto @@ [ids |-> Anything]
UpdateCallbackDto == [callbackUrl |-> Optional(Texts)]
GetDepositsQueryDto == ApiPartnerIdDto @@ GetTableQueryDto @@ [txHash |-> Anything]
GetExceptionLogsQueryDto ==
  [offset |-> Optional({"0", "50", "9900", "9950"}), limit |-> Optional({"20", "50"}), message |-> Optional(Texts),
   path |-> Optional(Texts), method |-> Optional(Texts \cup Methods), status |-> Optional(ExceptionLogStatuses)]
UpdateExceptionLogDto == [status |-> Optional(ExceptionLogStatuses), assigneeMemberId |-> Optional({"uuid"})]
CreateMemberDto == [username |-> {"username"}, password |-> {"pass"}, role |-> MemberRoles]
UpdateMemberDto == [isActive |-> Optional({"bool"})]
CreatePartnerDto ==
  [memberId |-> {"uuid"}, name |-> Texts \ {"", " ", "t"}, callbackUrl |-> Texts,
   callbackSecret |-> Texts \ {"", " ", "t"}]
GetPartnersQueryDto == GetTableQueryDto @@ [memberId |-> Optional({"uuid"})]
UpdatePartnerDto ==
  [name |-> Optional(Texts), callbackUrl |-> Optional(Texts), callbackSecret |-> Optional(Texts),
   isActive |-> Optional({"bool"})]
GetSweepQueryDto ==
  ApiPartnerIdDto @@ GetTableQueryDto @@ [id |-> Optional({"uuid"}), status |-> Optional(SweepStatuses)]
CretaUserDto == [externalUserId |-> Texts \ {""}]
CreateUserDto == ApiPartnerIdDto @@ CretaUserDto
ApiGetUsersQueryDto ==
  GetTableQueryDto @@ [externalUserId |-> Anything, keyword |-> Anything, isActive |-> Anything]
AdminGetUsersQueryDto == ApiPartnerIdDto @@ ApiGetUsersQueryDto
UpdateUserDto == [isActive |-> Optional({"bool"})]
CreateReclaimJobsDto ==
  [partnerId |-> {"uuid"}, ids |-> Optional({"uuids", "[]"}), status |-> Optional(WalletStatuses)]
CreateWalletDto == [userId |-> {"uuid"}]
ApiGetWalletsQueryDto == GetTableQueryDto @@ [keyword |-> Anything, status |-> Anything]
GetWalletsQueryDto == ApiPartnerIdDto @@ ApiGetWalletsQueryDto
CreateWithdrawalDto ==
  [partnerId |-> {"uuid"}, userId |-> {"uuid"}, walletId |-> {"uuid"}, tokenSymbol |-> Texts,
   tokenContract |-> Texts, toAddress |-> Texts, amount |-> {"0.01"}]
GetWithdrawalsQueryDto ==
  GetTableQueryDto @@ [partnerId |-> Optional({"uuid"}), status |-> Optional(WithdrawalStatuses)]
NoFields == [f \in {} |-> {}]

\* The global ValidationPipe (whitelist, forbidNonWhitelisted): the fields that
\* are refused, a field the DTO does not know among them.
ValidationPipe(dto, form) ==
  {f \in DOMAIN dto : (IF f \in DOMAIN form THEN form[f] ELSE "undefined") \notin dto[f]}
    \cup {f \in DOMAIN form \ DOMAIN dto : form[f] # "undefined"}

-----------------------------------------------------------------------------
(* Controllers: the routes below a prefix.  "*" is a parameter of the path.  *)

Route(guard, prefix, verb, rest, dto) ==
  [guard |-> guard, verb |-> verb, path |-> prefix \o rest, typed |-> TRUE, dto |-> dto]
Bodyless(guard, prefix, verb, rest) == [Route(guard, prefix, verb, rest, NoFields) EXCEPT !.typed = FALSE]

AppController == {Bodyless("open", <<>>, "GET", <<>>)}
AuthController == LET R(verb, rest, dto) == Route("open", <<"portal", "auth">>, verb, rest, dto) IN
  {R("POST", <<"login">>, AuthLoginDto), R("POST", <<"verify-pwd">>, VerifyMemberPasswordDto),
   R("PATCH", <<"change-pwd">>, ChangeMemberMemberPasswordDto)}
BalanceController ==
  {Bodyless("jwt", <<"portal", "balance">>, "GET", rest) : rest \in {<<>>, <<"admin">>}}
BlockchainController == LET R(verb, rest, dto) == Route("jwt", <<"portal", "blockchain">>, verb, rest, dto) IN
  {R("GET", <<"wallet-balance">>, TestWalletBalanceDto), R("POST", <<"test-transfer">>, TestTransferDto)}
CallbackTestController == LET P == <<"portal", "callbacks-test">> IN
  {Bodyless("open", P, "POST", <<>>), Route("open", P, "GET", <<>>, GetTableQueryDto)}
CallbackController == LET R(verb, rest, dto) == Route("jwt", <<"portal", "callbacks">>, verb, rest, dto) IN
  {R("GET", <<>>, GetCallbackQueryDto), R("POST", <<"retry", "ids">>, RetryFailedIdsBodyDto),
   R("POST", <<"retry-failed">>, ApiPartnerIdDto), R("PATCH", <<"*">>, UpdateCallbackDto)}
DepositController ==
  {Route("api key", <<"deposits">>, "GET", <<>>, GetTableQueryDto @@ [txHash |-> Anything])}
AdminDepositController == {Route("jwt", <<"portal", "deposits">>, "GET", <<>>, GetDepositsQueryDto)}
ExceptionLogController == LET P == <<"admin", "exception-logs">> IN
  {Route("jwt", P, "GET", <<>>, GetExceptionLogsQueryDto), Bodyless("jwt", P, "GET", <<"*">>),
   Route("jwt", P, "PATCH", <<"*">>, UpdateExceptionLogDto), Bodyless("jwt", P, "DELETE", <<"*">>)}
HealthController == {Bodyless("open", p, "GET", <<>>) : p \in {<<"health">>, <<"portal", "health">>}}
MemberController == LET P == <<"portal", "members">> IN
  {Route("jwt", P, "POST", <<>>, CreateMemberDto), Route("jwt", P, "GET", <<>>, GetTableQueryDto),
   Route("jwt", P, "PATCH", <<"*">>, UpdateMemberDto)}
MonitorController == {Bodyless("jwt", <<"portal", "blockchain", "monitor">>, "GET", <<"*">>)}
OpenAiController == {Bodyless("jwt", <<"portal", "openai", "chat">>, "POST", <<>>)}
PartnerController == LET P == <<"portal", "partners">> IN
  {Route("jwt", P, "POST", <<>>, CreatePartnerDto), Route("jwt", P, "GET", <<>>, GetPartnersQueryDto),
   Bodyless("jwt", P, "GET", <<"*">>), Route("jwt", P, "PATCH", <<"*">>, UpdatePartnerDto),
   Bodyless("jwt", P, "POST", <<"*", "api-key", "create">>), Bodyless("jwt", P, "POST", <<"*", "api-key", "rotate">>)}
SweepController == {Route("jwt", <<"portal", "sweeps">>, "GET", <<>>, GetSweepQueryDto)}
UserController ==
  {Route("api key", <<"users">>, "POST", <<>>, CretaUserDto), Route("api key", <<"users">>, "GET", <<>>, ApiGetUsersQueryDto),
   Bodyless("api key", <<"users">>, "GET", <<"*">>)}
AdminUserController == LET P == <<"portal", "users">> IN
  {Route("jwt", P, "POST", <<>>, CreateUserDto), Route("jwt", P, "GET", <<>>, AdminGetUsersQueryDto),
   Bodyless("jwt", P, "GET", <<"*">>), Route("jwt", P, "PATCH", <<"*">>, UpdateUserDto)}
WalletController == {Route("api key", <<"wallets">>, "GET", <<>>, ApiGetWalletsQueryDto)}
AdminWalletController == LET P == <<"portal", "wallets">> IN
  {Route("jwt", P, "POST", <<>>, CreateWalletDto), Route("jwt", P, "GET", <<>>, GetWalletsQueryDto),
   Bodyless("jwt", P, "GET", <<"*", "assets">>), Route("jwt", P, "POST", <<"assets-reclaim">>, CreateReclaimJobsDto)}
WithdrawalController == LET P == <<"partner", "withdrawals">> IN
  {Route("jwt", P, "POST", <<>>, CreateWithdrawalDto), Route("jwt", P, "GET", <<>>, GetWithdrawalsQueryDto)}
ApiRoutes ==
  UNION {AppController, AuthController, BalanceController, BlockchainController, CallbackTestController, CallbackController,
         DepositController, AdminDepositController, ExceptionLogController, HealthController, MemberController,
         MonitorController, OpenAiController, PartnerController, SweepController, UserController, AdminUserController,
         WalletController, AdminWalletController, WithdrawalController}

Matches(route, q) ==
  /\ route.verb = q.verb /\ Len(route.path) = Len(q.path)
  /\ \A k \in DOMAIN q.path : route.path[k] \in {"*", q.path[k]}

\* AdminExceptionLogController.softDelete hands the role on; the service refuses.
Forbidden(as, q) == q.verb = "DELETE" /\ as # "OWNER"

\* Route, guard, pipe, handler, in this order; the fields that are refused, or
\* the stage that refused all of it.
Handle(as, q) ==
  LET found == {r \in ApiRoutes : Matches(r, q)} IN
  IF found = {} THEN {"404"}
  ELSE LET r == CHOOSE x \in found : TRUE IN
       IF r.guard = "api key" \/ (r.guard = "jwt" /\ as = "signed out") THEN {"401"}
       ELSE LET refused == IF r.typed THEN ValidationPipe(r.dto, q.form) ELSE {} IN
            IF refused = {} /\ Forbidden(as, q) THEN {"403"} ELSE refused

-----------------------------------------------------------------------------
(* The portal's request functions.  *)

\* Mutant of RemoveUndefined: a field the operator has cleared is sent blank.
RemoveUndefinedOnly(form) == [f \in {g \in DOMAIN form : form[g] # "undefined"} |-> form[f]]

\* removeUndefined: String([]) is blank, too.
RemoveUndefined(form) ==
  [f \in {g \in DOMAIN form : form[g] \notin {"undefined", "", " ", "[]"}} |-> form[f]]

Request(verb, path, form) == [verb |-> verb, path |-> path, form |-> form]
apiget(path, form) == Request("GET", path, form)
apipost(path, form) == Request("POST", path, form)
apipatch(path, form) == Request("PATCH", path, form)
apidelete(path) == Request("DELETE", path, NoFields)

apiPostLogin(form) == apipost(<<"portal", "auth", "login">>, form)
apiGetAdminBalances == apiget(<<"portal", "balance", "admin">>, NoFields)
apiGetCallbacks(params) == apiget(<<"portal", "callbacks">>, RemoveUndefined(params))
apiPostCallbackRetryIds(body) == apipost(<<"portal", "callbacks", "retry", "ids">>, RemoveUndefined(body))
apiPostCallbackRetryAll(body) == apipost(<<"portal", "callbacks", "retry-failed">>, RemoveUndefined(body))
apiPatchCallback(dto) == apipatch(<<"portal", "callbacks", "uuid">>, dto)
apiGetDeposits(params) == apiget(<<"portal", "deposits">>, RemoveUndefined(params))
apiGetBlockChainWalletBalance(address) == apiget(<<"portal", "blockchain", "wallet-balance">>, [address |-> address])
apiGetAdminBlockChainTxHashMonitor == apiget(<<"portal", "blockchain", "monitor", "text">>, NoFields)
apiPostAdminBlockChainTestTransfer(form) == apipost(<<"portal", "blockchain", "test-transfer">>, form)
apiPostMember(form) == apipost(<<"portal", "members">>, form)
apiGetMembers(params) == apiget(<<"portal", "members">>, RemoveUndefined(params))
apiPatchMember(body) == apipatch(<<"portal", "members", "uuid">>, body)
apiVerifyPwd(form) == apipost(<<"portal", "auth", "verify-pwd">>, form)
apiPatchChangePwd(form) == apipatch(<<"portal", "auth", "change-pwd">>, form)
apiChat(form) == apipost(<<"portal", "openai", "chat">>, form)
apiCreatePartner(form) == apipost(<<"portal", "partners">>, form)
apiGetPartners(params) == apiget(<<"portal", "partners">>, RemoveUndefined(params))
apiPatchPartner(params) == apipatch(<<"portal", "partners", "uuid">>, RemoveUndefined(params))
apiResetPartnerApiKey == apipost(<<"portal", "partners", "uuid", "api-key", "rotate">>, NoFields)
apiGetSweeps(params) == apiget(<<"portal", "sweeps">>, RemoveUndefined(params))
apiGetExceptionLogs(params) == apiget(<<"admin", "exception-logs">>, RemoveUndefined(params))
apiGetExceptionLog == apiget(<<"admin", "exception-logs", "uuid">>, NoFields)
apiPatchExceptionLog(body) == apipatch(<<"admin", "exception-logs", "uuid">>, RemoveUndefined(body))
apiDeleteExceptionLog == apidelete(<<"admin", "exception-logs", "uuid">>)
postAdminUser(form) == apipost(<<"portal", "users">>, form)
getUsers(params) == apiget(<<"portal", "users">>, RemoveUndefined(params))
apiPatchUser(params) == apipatch(<<"portal", "users", "uuid">>, RemoveUndefined(params))
apiGetWallets(params) == apiget(<<"portal", "wallets">>, RemoveUndefined(params))
apiGetAssets == apiget(<<"portal", "wallets", "uuid", "assets">>, NoFields)
apiAssetsReclaim(dto) == apipost(<<"portal", "wallets", "assets-reclaim">>, RemoveUndefined(dto))

-----------------------------------------------------------------------------
(* The pages: every request each can send, over what its form can hold.      *)

Searched == {"", " ", "t", "uuid"}    \* a search box, cleared or submitted
NonEmpty == {"t", "text"}             \* an input that validateForm checks
Offsets == {"0", "50", "9900", "9950"}
Table == [offset : Offsets, limit : {"50"}]
Extended(forms, fields) == {f @@ g : f \in forms, g \in fields}
PartnerTable == Extended(Table, [partnerId : {"uuid"}])

SignInPage == {apiPostLogin(f) : f \in [username : {"username"}, password : {"pass", "lower"}]}
ChangePasswordModal ==
  {apiVerifyPwd(f) : f \in [id : {"uuid"}, password : {"t", "pass"}]}
    \cup {apiPatchChangePwd(f) : f \in [id : {"uuid"}, oldPassword : {"pass"}, newPassword : {"pass", "lower"}]}
Dashboard == {apiGetAdminBalances}
DevConsolePage ==
  {apiGetWallets([limit |-> "20", partnerId |-> "uuid"]), apiGetBlockChainWalletBalance("text"),
   apiGetAdminBlockChainTxHashMonitor}
    \cup {apiPostAdminBlockChainTestTransfer(f) :
            f \in [fromPrivateKey : {"text"}, toAddress : {"text"}, amount : {"0.01"}, tokenSymbol : {"text"}]}
UserList ==
  {getUsers(f) : f \in Extended(PartnerTable, [isActive : Optional({"bool"})])}
    \cup {postAdminUser(f) : f \in [partnerId : {"uuid"}, externalUserId : NonEmpty]}
    \cup {apiPatchUser([isActive |-> "bool"])}
DepositList == {apiGetDeposits(f) : f \in Extended(PartnerTable, [txHash : Searched])}
SweepList ==
  {apiGetSweeps(f) : f \in Extended(PartnerTable, [id : Searched, status : Optional(SweepStatuses)])}
CallbackList ==
  {apiGetCallbacks(f) : f \in Extended(PartnerTable, [id : Searched, status : Optional(CallbackStatuses)])}
    \cup {apiPostCallbackRetryIds([partnerId |-> "uuid", ids |-> "uuids"]),
          apiPostCallbackRetryAll([partnerId |-> "uuid"])}
    \cup {apiPatchCallback([callbackUrl |-> t]) : t \in Texts}
WalletList ==
  {apiGetWallets(f) : f \in Extended(PartnerTable, [keyword : Searched, status : Optional({"ACTIVE", "SUSPENDED"})])}
    \cup {apiAssetsReclaim(f) :
            f \in [partnerId : {"uuid"}, status : Optional({"ACTIVE", "SUSPENDED"}), ids : {"[]", "uuids"}]}
    \cup {apiGetAssets}
PartnerList ==
  {apiGetPartners(f) : f \in Extended(Table, [memberId : Optional({"uuid"})])}
    \cup {apiCreatePartner(f) :
            f \in [name : NonEmpty, memberId : {"uuid"}, callbackUrl : NonEmpty, callbackSecret : NonEmpty]}
    \cup {apiPatchPartner([f \in {c} |-> t]) : c \in {"callbackUrl", "name", "callbackSecret"}, t \in Texts}
    \cup {apiPatchPartner([isActive |-> "bool"]), apiResetPartnerApiKey}
usePartners == {apiGetPartners([memberId |-> m]) : m \in Optional({"uuid"})}
AdminMemberList ==
  {apiGetMembers(f) : f \in Table} \cup {apiPatchMember([isActive |-> "bool"])}
    \cup {apiPostMember(f) : f \in [username : {"username"}, password : {"pass", "lower"}, role : MemberRoles]}
AdminExceptionLogList ==
  {apiGetExceptionLogs(f) :
     f \in Extended(Table, [message : Searched, path : Searched, method : Optional(Methods),
                            status : Optional(ExceptionLogStatuses)])}
    \cup {apiPatchExceptionLog([status |-> s, assigneeMemberId |-> "uuid"]) : s \in ExceptionLogStatuses}
    \cup {apiGetExceptionLog, apiDeleteExceptionLog}
Openai == {apiChat([messages |-> "text"])}

Anyones == UNION {ChangePasswordModal, Dashboard, DevConsolePage, UserList, DepositList, SweepList, CallbackList,
                  WalletList, PartnerList, usePartners}
PagesOf ==
  [as \in {"signed out", "DEVELOPER", "OPERATOR", "OWNER"} |->
     CASE as = "signed out" -> SignInPage
       [] as = "DEVELOPER" -> Anyones
       [] as = "OPERATOR" -> Anyones \cup AdminExceptionLogList
       [] as = "OWNER" -> UNION {Anyones, AdminExceptionLogList, AdminMemberList, Openai}]

-----------------------------------------------------------------------------
NoRequest == Request("none", <<>>, NoFields)

RequestsInit ==
  /\ signedAs \in {"signed out", "DEVELOPER", "OPERATOR", "OWNER"}
  /\ asked = NoRequest
  /\ verdict = {}

Send ==
  /\ asked = NoRequest
  /\ \E q \in PagesOf[signedAs] : asked' = q /\ verdict' = Handle(signedAs, q)
  /\ UNCHANGED signedAs

RequestsNext == Send
RequestsSpec == RequestsInit /\ [][RequestsNext]_requestVars

RequestsTypeOK ==
  /\ signedAs \in {"signed out", "DEVELOPER", "OPERATOR", "OWNER"}
  /\ asked.form \in [DOMAIN asked.form -> STRING]
  /\ verdict \in SUBSET (DOMAIN asked.form \cup {"401", "403", "404"})

\* A request of an enabled page is refused for nothing but what its operator
\* typed in (an id that is none, a text or a password too weak for the API's
\* rules and not for the form's), the last page of a list that the pager offers
\* and no DTO but the exception log's reaches, and a deletion by an OPERATOR, who
\* is shown the button: each route, field and enumeration of one side is known to
\* the other, and clearing a filter never leaves something that is refused.
RequestsAccepted ==
  \A f \in verdict :
    \/ f \in DOMAIN asked.form /\ asked.form[f] \in {"t", "lower"}
    \/ f = "offset" /\ asked.form[f] = "9950"
    \/ f = "403" /\ signedAs = "OPERATOR" /\ asked.verb = "DELETE"
=============================================================================
