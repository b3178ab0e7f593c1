---------------------------- MODULE ApiServices ----------------------------
(***************************************************************************)
(* Whose rows a service function may touch.                                 *)
(*                                                                         *)
(* A request names rows by ids, so any id may come with any credential: it  *)
(* is the function that is called which checks the first id against the     *)
(* caller, and its queries that keep the second id among the rows of the    *)
(* first.  Each operator below is one function: the check it starts with    *)
(* and the rows it reads or writes after it.  What it does to them is in    *)
(* the module of its component; ApiAccess gives the words their meaning.    *)
(***************************************************************************)

\* check: what is asked of the caller and the first id before anything else;
\* rows: what is touched then; tied: a second id counts only within the first.
Reach(check, rows) == [check |-> check, rows |-> rows, tied |-> TRUE]
Open == Reach("nothing", "nothing")
Everything == Reach("nothing", "all")
OwnRows == Reach("nothing", "user")
OfOrganization == Reach("requireOrganizationMembership", "organization")
OfApp == Reach("requireAppAccess", "app")
PairOfApp == Reach("requireAppAccess", "second")
OfMembership == Reach("requireProgramAffiliate", "membership")
OfKey == Reach("resolveAppScope", "mode")

-----------------------------------------------------------------------------
(* Apps, programs and their affiliates, for the owner.                     *)

createOrganization == OwnRows
listOrganizationsForUser == OwnRows
createApp == OfOrganization
listApps == OfOrganization
getAppById == OfApp
\* programs.app_id is compared with the id of the app.
setDefaultProgram == PairOfApp
setAppNetworkVisibility == OfApp
updateAppWebsiteUrl == OfApp
updateAppRevenueSource == OfApp
publishAppAgreement == OfApp
uploadAppLogo == OfApp
removeAppLogo == OfApp
getAppSetupStatus == OfApp
getAppOverview == OfApp

createProgram == OfApp
listPrograms == OfApp
getProgramOverview == OfApp
updateProgram == OfApp
pauseProgram == OfApp
resumeProgram == OfApp
disableProgram == OfApp
acknowledgeProgramDisable == OfApp
publishProgramTermsVersion == OfApp

createAffiliate == OfApp
listAffiliates == OfApp
listAffiliatesForApp == OfApp
approvePendingAffiliate == OfApp
disableAffiliate == OfApp
enableAffiliate == OfApp
\* requireOwnedProgramAffiliate; a link is looked up within the membership.
listAffiliateLinksForOwner == OfApp
createAffiliateLinkForOwner == OfApp
updateAffiliateLinkForOwner == PairOfApp
deleteAffiliateLinkForOwner == PairOfApp

-----------------------------------------------------------------------------
(* Lists with three readers: the owner of the program, one of its           *)
(* affiliates, who gets rows of that membership only, and an affiliate who  *)
(* asks for everything of theirs.                                           *)

readableByProgram == Reach("resolveProgramListAccess", "readable")
listClicksForProgram == OfApp
listClicksForAffiliate == OfMembership
listReferralsForProgram == OfApp
listReferralsForApp == OfApp
listReferralsForAffiliate == OfMembership
listTransactionsForProgram == OfApp
listTransactionsForApp == OfApp
listCommissionsForProgram == OfApp
listCommissionsForApp == OfApp
listCommissionsForAffiliateUser == OwnRows
listPayoutRunsForProgram == OfApp
listPayoutRunsForApp == OfApp
listPayoutRunsForAffiliateUser == OwnRows
listPayoutRequestsForProgram == OfApp
listPayoutRequestsForApp == OfApp
listPayoutRequestsForAffiliateUser == OwnRows

-----------------------------------------------------------------------------
(* Payouts, for the owner.                                                 *)

\* getEntryWithProgramAccess.
releaseFlaggedCommission == OfApp
rejectFlaggedCommission == OfApp
listReadyPayouts == OfApp
createPayoutRun == OfApp
\* getRunWithAccess.
generatePayoutRunCsv == OfApp
listPayoutItemsForRunOwner == OfApp
markPayoutRunPaid == OfApp
cancelPayoutRun == OfApp
dispatchPayoutBatch == OfApp
\* payout_items.payout_batch_id is compared with the id of the batch; the items of
\* an affiliate are looked up within the batch.
resolvePayoutItem == PairOfApp
markAffiliatePayoutPaid == PairOfApp
markReadyPayoutPaid == PairOfApp
exportReadyPayoutsCsv == OfApp
\* getPayoutRequestWithAccess.
declinePayoutRequest == OfApp

-----------------------------------------------------------------------------
(* Rows found by the app of the key, and with its mode where they have one. *)
(* Customers and the app itself have none: keys of both modes read and write *)
(* them.                                                                     *)

\* The customer's app must be the key's, the program one of that app; a currency
\* that is not the program's is noted on the app, whatever the mode.
reportPayment == [OfKey EXCEPT !.rows = "mode second"]
\* findApiPaymentForAuth asks for an app-scoped key.
reportRefund == Reach("findApiPaymentForAuth", "mode")
reportDispute == Reach("findApiPaymentForAuth", "mode")
\* The click or the evidence names a program and one of its affiliates, who is of the
\* mode of the key; the customer that is added or gets an email is of no mode.
identifyCustomer == [OfKey EXCEPT !.rows = "mode second"]
\* requireExecutionForApp; test affiliates are never paid.
getPayoutExecutionForApp == Reach("requireExecutionForApp", "mode")
markPayoutExecutionSucceeded == Reach("requireExecutionForApp", "mode")
markPayoutExecutionFailed == Reach("requireExecutionForApp", "mode")

-----------------------------------------------------------------------------
(* The affiliate's own.                                                    *)

listAffiliateLinksForUser == OwnRows
exportAffiliateData == OwnRows
deleteAffiliateAccount == OwnRows
joinListedProgramForUser == OwnRows
joinProgramViaPublicPage == OwnRows
computePayableBalance == OfMembership
createPayoutRequest == OfMembership
saveAffiliatePayoutDetails == OfMembership
getAffiliatePayoutDetails == OfMembership
listAffiliateLinks == OfMembership
createAffiliateLink == OfMembership
deleteAffiliateLink == [OfMembership EXCEPT !.rows = "second membership"]

-----------------------------------------------------------------------------
(* Accounts, keys, webhooks, Stripe, support.                              *)

getMeProfile == OwnRows
updateUserName == OwnRows
uploadUserPhoto == OwnRows
removeUserPhoto == OwnRows
\* The account of the email that is given, which nobody has to have proved theirs.
registerPendingUser == Reach("nothing", "accounts")
ensurePublicJoinUser == Reach("nothing", "accounts")
bootstrapSelfHostedAdministrator == Reach("nothing", "accounts")
submitSupportRequest == Open

listApiKeys == OwnRows
revokeApiKey == OwnRows
\* assertAppBelongsToOrganization: the second id is an app of the organization.
createApiKey == Reach("requireOrganizationMembership", "second in organization")
\* createApiKey without an organization: an affiliate key is the user's own.
createAffiliateApiKey == OwnRows

getWebhookEndpoint == OfApp
configureWebhookEndpoint == OfApp
deleteWebhookEndpoint == OfApp
rotateWebhookSecret == OfApp
sendTestWebhook == OfApp
listWebhookDeliveries == OfApp

createStripeAppInstallUrl == OfApp
claimPendingStripeInstall == OfApp
\* The app of the caller's only pending install, whose access is checked again.
completeStripeAppInstallFromAccountId == OfApp
disconnectStripeConnectionForApp == OfApp

-----------------------------------------------------------------------------
(* Managed connections, for the provider.                                  *)

OfConnection == Reach("requireManagedConnectionAccess", "app")
suspendManagedConnection == OfConnection
reconnectManagedConnection == OfConnection
uninstallManagedConnection == OfConnection
rotateManagedCredentials == OfConnection
\* A replay of the deletion finds the connection redacted and is not checked again.
redactManagedConnection == Reach("requireManagedConnectionAccess unless redacted", "app")
provisionManagedConnection == Reach("nothing", "managed")
acknowledgeManagedCredentials == Reach("nothing", "managed")
\* requireManagedCustomer, with the app of the key.
exportManagedCustomerData == OfApp
redactManagedCustomerData == OfApp

-----------------------------------------------------------------------------
(* Open to everybody.                                                      *)

getPublicJoinPageContext == Reach("nothing", "pages")
listNetworkApps == Reach("nothing", "pages")
\* A click is added for the affiliate of a link of the app: the key's, or without one
\* the app that the page or a hint names.  The mode of the key is not asked for.
captureAffiliateClick == Reach("resolveCaptureAppId", "clicks")

-----------------------------------------------------------------------------
(* Administration, and what Stripe reports.                                *)

listAdminOrganizations == Everything
listAdminApps == Everything
listAdminOrganizationMembers == Everything
listAdminPrograms == Everything
listAdminAffiliates == Everything
listAdminClicks == Everything
listAdminReferrals == Everything
listAdminCustomers == Everything
listAdminStripeConnections == Everything
listAdminStripeEvents == Everything
listAdminTransactions == Everything
listAdminCommissionEntries == Everything
listAdminPayoutRuns == Everything
listAdminPayoutRequests == Everything
listAdminPayoutItems == Everything
listAdminAuditLogs == Everything
reprocessStripeEvent == Everything
createCommissionAdjustment == Everything
adminDisableProgram == Everything
adminDisableAffiliate == Everything
markIntegrationIssue == Everything
adminExportPayoutRunCsv == Everything
createBetaUser == Everything
receiveVerifiedStripeWebhook == Everything

=============================================================================
