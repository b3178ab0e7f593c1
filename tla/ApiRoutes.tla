----------------------------- MODULE ApiRoutes -----------------------------
(***************************************************************************)
(* The handlers of the HTTP API: whom each of them admits, and which         *)
(* service functions it then calls for which kind of caller.  A handler that *)
(* calls several stands for any of them: each makes its own check.  What a   *)
(* body must look like is left out, and so are what the edition of the       *)
(* deployment offers, the routes under /api/dev and the callback of an       *)
(* install, which StripeConnections models.                                 *)
(***************************************************************************)
EXTENDS ApiServices

-----------------------------------------------------------------------------
(* Admission, by the functions of auth-context.                            *)

\* via: what is looked up; types: the kinds of caller let in; active: a managed
\* connection must be; narrow: what else is asked.
Auth(via, types) == [via |-> via, types |-> types, active |-> FALSE, narrow |-> "nothing"]

authenticateRequest == Auth("request", {"session", "app", "affiliate", "managed"})
requireSession == Auth("request", {"session"})
requireSessionUser == Auth("session", {"session"})
requireAppKey == Auth("request", {"app"})
requireManagedKey == Auth("request", {"managed"})
requireAffiliateAuth == Auth("request", {"session", "affiliate"})
InactiveToo(auth) == auth                                           \* mutant
assertManagedConnectionIsActive(auth) == [auth EXCEPT !.active = TRUE]
requireOwnerAuth == assertManagedConnectionIsActive(Auth("request", {"session", "managed"}))
requireLiveAppScopedKey == [requireAppKey EXCEPT !.narrow = "live and app-scoped"]
requireAdmin == [requireSessionUser EXCEPT !.narrow = "admin"]
requireManagedConnectionDeleteKey == Auth("deletion", {"managed"})
requireManagedProvisioningSecret == Auth("secret", {"provider"})
verifyStripeConnectWebhook == Auth("signature", {"stripe"})
Nobody == Auth("nothing", {"session", "app", "affiliate", "managed", "provider", "stripe", "none"})

For(types, reaches) == {[types |-> types, reach |-> r] : r \in reaches}
Route(auth, reaches) == [auth |-> auth, serves |-> For(auth.types, reaches)]
ByType(auth, serves) == [auth |-> auth, serves |-> serves]

-----------------------------------------------------------------------------
(* Public.                                                                 *)

GET_legal == Route(Nobody, {Open})
GET_health == Route(Nobody, {Open})
GET_health_live == Route(Nobody, {Open})
GET_health_ready == Route(Nobody, {Open})
GET_v1 == Route(Nobody, {Open})
GET_self_hosted_setup == Route(Nobody, {Open})
POST_self_hosted_setup == Route(Nobody, {bootstrapSelfHostedAdministrator})
POST_auth_register == Route(Nobody, {registerPendingUser})
POST_auth_sign_in == Route(Nobody, {Open})
GET_network_apps == Route(Nobody, {listNetworkApps})
GET_join_programSlug == Route(Nobody, {getPublicJoinPageContext})
POST_join_programSlug == Route(Nobody, {getPublicJoinPageContext, ensurePublicJoinUser})
\* The membership goes to the email of the session, which the link must name.
POST_join_programSlug_confirm == Route(requireSessionUser, {joinProgramViaPublicPage})
\* A key is not needed; one that is sent must be good, and of one app.
POST_capture ==
    Route([Auth("key if any", {"app", "none"}) EXCEPT !.narrow = "app-scoped"],
          {captureAffiliateClick})

-----------------------------------------------------------------------------
(* Accounts, organizations and keys.                                       *)

GET_me == Route(requireSessionUser, {getMeProfile})
PATCH_me == Route(requireSessionUser, {getMeProfile, updateUserName})
POST_me_photo == Route(requireSessionUser, {uploadUserPhoto})
DELETE_me_photo == Route(requireSessionUser, {removeUserPhoto})
POST_support == Route(requireSessionUser, {submitSupportRequest})
GET_organizations == Route(requireSession, {listOrganizationsForUser})
POST_organizations == Route(requireSession, {createOrganization})
GET_api_keys == Route(requireSession, {listApiKeys})
POST_api_keys == Route(requireSession, {createApiKey, createAffiliateApiKey})
DELETE_api_keys_id == Route(requireSession, {revokeApiKey})

-----------------------------------------------------------------------------
(* Apps.                                                                   *)

GET_apps == Route(requireSession, {listApps})
POST_apps == Route(requireSession, {createApp})
GET_apps_id == Route(requireOwnerAuth, {getAppById})
\* The revenue source and the network are not for a managed key.
PATCH_apps_id ==
    ByType(requireOwnerAuth,
           For({"session"}, {updateAppRevenueSource, setAppNetworkVisibility})
           \cup For({"session", "managed"}, {updateAppWebsiteUrl, setDefaultProgram, getAppById}))
GET_apps_id_agreement == Route(requireSession, {OfApp})
PATCH_apps_id_agreement == Route(requireSession, {publishAppAgreement})
POST_apps_id_logo == Route(requireSession, {uploadAppLogo})
DELETE_apps_id_logo == Route(requireSession, {removeAppLogo})
GET_apps_id_overview == Route(requireSession, {getAppOverview})
GET_apps_id_setup_status == Route(requireSession, {getAppSetupStatus})
GET_apps_id_webhook == Route(requireSession, {getWebhookEndpoint})
PUT_apps_id_webhook == Route(requireSession, {configureWebhookEndpoint})
DELETE_apps_id_webhook == Route(requireSession, {deleteWebhookEndpoint})
GET_apps_id_webhook_deliveries == Route(requireSession, {listWebhookDeliveries})
POST_apps_id_webhook_rotate_secret == Route(requireSession, {rotateWebhookSecret})
POST_apps_id_webhook_test == Route(requireSession, {sendTestWebhook})
POST_stripe_connect_link == Route(requireSession, {createStripeAppInstallUrl})
POST_stripe_claim_pending_install == Route(requireSession, {claimPendingStripeInstall})
GET_stripe_install_post_install ==
    Route(requireSession, {completeStripeAppInstallFromAccountId})
POST_stripe_disconnect == Route(requireSession, {disconnectStripeConnectionForApp})

-----------------------------------------------------------------------------
(* Programs and their affiliates.                                          *)

GET_programs == Route(requireOwnerAuth, {listPrograms})
POST_programs == Route(requireOwnerAuth, {createProgram})
GET_programs_id == Route(requireOwnerAuth, {OfApp})
PATCH_programs_id == Route(requireOwnerAuth, {updateProgram})
GET_programs_id_overview == Route(requireSession, {getProgramOverview})
POST_programs_id_pause == Route(requireOwnerAuth, {pauseProgram})
POST_programs_id_resume == Route(requireOwnerAuth, {resumeProgram})
POST_programs_id_disable == Route(requireOwnerAuth, {disableProgram})
POST_programs_id_acknowledge_disable == Route(requireOwnerAuth, {acknowledgeProgramDisable})
GET_programs_id_terms == Route(requireOwnerAuth, {OfApp})
POST_programs_id_terms == Route(requireOwnerAuth, {publishProgramTermsVersion})
GET_program_affiliates == Route(requireOwnerAuth, {listAffiliates, listAffiliatesForApp})
POST_program_affiliates == Route(requireOwnerAuth, {createAffiliate})
POST_program_affiliates_id_approve == Route(requireOwnerAuth, {approvePendingAffiliate})
POST_program_affiliates_id_disable == Route(requireOwnerAuth, {disableAffiliate})
POST_program_affiliates_id_enable == Route(requireOwnerAuth, {enableAffiliate})
GET_program_affiliates_id_links == Route(requireOwnerAuth, {listAffiliateLinksForOwner})
POST_program_affiliates_id_links == Route(requireOwnerAuth, {createAffiliateLinkForOwner})
PATCH_program_affiliates_id_links_linkId == Route(requireOwnerAuth, {updateAffiliateLinkForOwner})
DELETE_program_affiliates_id_links_linkId == Route(requireOwnerAuth, {deleteAffiliateLinkForOwner})

-----------------------------------------------------------------------------
(* Lists by program or app.                                                *)

\* The owner reads all, an affiliate of the program the rows of the membership.
GET_clicks ==
    ByType(authenticateRequest,
           For({"session"}, {readableByProgram}) \cup For({"affiliate"}, {listClicksForAffiliate}))
GET_referrals ==
    ByType(assertManagedConnectionIsActive(authenticateRequest),
           For({"session"}, {listReferralsForApp, readableByProgram})
           \cup For({"managed"}, {listReferralsForApp, listReferralsForProgram})
           \cup For({"affiliate"}, {listReferralsForAffiliate}))
GET_transactions == Route(requireOwnerAuth, {listTransactionsForApp, listTransactionsForProgram})
GET_commissions ==
    ByType(assertManagedConnectionIsActive(authenticateRequest),
           For({"session"}, {listCommissionsForApp, listCommissionsForProgram,
                             listCommissionsForAffiliateUser})
           \cup For({"managed"}, {listCommissionsForApp})
           \cup For({"affiliate"}, {listCommissionsForAffiliateUser}))
GET_payout_batches ==
    ByType(assertManagedConnectionIsActive(authenticateRequest),
           For({"session"}, {listPayoutRunsForApp, listPayoutRunsForProgram,
                             listPayoutRunsForAffiliateUser})
           \cup For({"managed"}, {listPayoutRunsForApp})
           \cup For({"affiliate"}, {listPayoutRunsForAffiliateUser}))
GET_payout_requests ==
    ByType(authenticateRequest,
           For({"session"}, {listPayoutRequestsForApp, listPayoutRequestsForProgram,
                             listPayoutRequestsForAffiliateUser})
           \cup For({"affiliate"}, {listPayoutRequestsForAffiliateUser}))

-----------------------------------------------------------------------------
(* Payouts.                                                                *)

POST_commissions_id_release == Route(requireSession, {releaseFlaggedCommission})
POST_commissions_id_reject == Route(requireSession, {rejectFlaggedCommission})
GET_ready_payouts == Route(requireOwnerAuth, {listReadyPayouts})
POST_ready_payouts_csv == Route(requireSession, {exportReadyPayoutsCsv})
POST_ready_payouts_programAffiliateId_mark_paid == Route(requireOwnerAuth, {markReadyPayoutPaid})
POST_payout_batches == Route(requireOwnerAuth, {createPayoutRun})
GET_payout_batches_id_csv == Route(requireOwnerAuth, {generatePayoutRunCsv})
GET_payout_batches_id_items == Route(requireOwnerAuth, {listPayoutItemsForRunOwner})
POST_payout_batches_id_items_itemId_resolve == Route(requireSession, {resolvePayoutItem})
POST_payout_batches_id_affiliates_programAffiliateId_mark_paid ==
    Route(requireOwnerAuth, {markAffiliatePayoutPaid})
POST_payout_batches_id_mark_paid == Route(requireOwnerAuth, {markPayoutRunPaid})
POST_payout_batches_id_cancel == Route(requireSession, {cancelPayoutRun})
DispatchByKey == Route(requireLiveAppScopedKey, {dispatchPayoutBatch})    \* mutant
POST_payout_batches_id_dispatch == Route(requireSession, {dispatchPayoutBatch})
POST_payout_requests_id_decline == Route(requireSession, {declinePayoutRequest})
GET_payout_executions_executionId == Route(requireLiveAppScopedKey, {getPayoutExecutionForApp})
POST_payout_executions_executionId_succeeded ==
    Route(requireLiveAppScopedKey, {markPayoutExecutionSucceeded})
POST_payout_executions_executionId_failed ==
    Route(requireLiveAppScopedKey, {markPayoutExecutionFailed})

-----------------------------------------------------------------------------
(* Reports of the app's server.                                            *)

POST_identify == Route(requireAppKey, {identifyCustomer})
POST_transactions == Route(requireAppKey, {reportPayment})
POST_transactions_refunds == Route(requireAppKey, {reportRefund})
POST_transactions_disputes == Route(requireAppKey, {reportDispute})
POST_webhooks_stripe == Route(verifyStripeConnectWebhook, {receiveVerifiedStripeWebhook})

-----------------------------------------------------------------------------
(* Affiliates.                                                             *)

GET_affiliate_links == Route(requireAffiliateAuth, {listAffiliateLinksForUser})
GET_affiliate_data_export == Route(requireAffiliateAuth, {exportAffiliateData})
POST_affiliate_delete_account == Route(requireAffiliateAuth, {deleteAffiliateAccount})
POST_affiliate_programs_programId_join == Route(requireAffiliateAuth, {joinListedProgramForUser})
GET_affiliate_programs_programId_links == Route(requireAffiliateAuth, {listAffiliateLinks})
POST_affiliate_programs_programId_links == Route(requireAffiliateAuth, {createAffiliateLink})
DELETE_affiliate_programs_programId_links_linkId ==
    Route(requireAffiliateAuth, {deleteAffiliateLink})
GET_payout_balance == Route(requireAffiliateAuth, {computePayableBalance})
GET_payout_details == Route(requireAffiliateAuth, {getAffiliatePayoutDetails})
PUT_payout_details == Route(requireAffiliateAuth, {saveAffiliatePayoutDetails})
POST_payout_requests == Route(requireAffiliateAuth, {createPayoutRequest})

-----------------------------------------------------------------------------
(* Managed connections.                                                    *)

POST_managed_connections_provision ==
    Route(requireManagedProvisioningSecret, {provisionManagedConnection})
POST_managed_connections_id_credentials_ackId_acknowledge ==
    Route(requireManagedProvisioningSecret, {acknowledgeManagedCredentials})
POST_managed_connections_id_credentials_rotate == Route(requireManagedKey, {rotateManagedCredentials})
POST_managed_connections_id_suspend == Route(requireManagedKey, {suspendManagedConnection})
POST_managed_connections_id_reconnect == Route(requireManagedKey, {reconnectManagedConnection})
POST_managed_connections_id_uninstall == Route(requireManagedKey, {uninstallManagedConnection})
DELETE_managed_connections_id ==
    Route(requireManagedConnectionDeleteKey, {redactManagedConnection})
POST_managed_data_subjects_export == Route(requireManagedKey, {exportManagedCustomerData})
POST_managed_data_subjects_redact == Route(requireManagedKey, {redactManagedCustomerData})

-----------------------------------------------------------------------------
(* Administration.                                                         *)

GET_admin_organizations == Route(requireAdmin, {listAdminOrganizations})
GET_admin_organization_members == Route(requireAdmin, {listAdminOrganizationMembers})
GET_admin_apps == Route(requireAdmin, {listAdminApps})
POST_admin_apps_id_integration_issue == Route(requireAdmin, {markIntegrationIssue})
GET_admin_programs == Route(requireAdmin, {listAdminPrograms})
POST_admin_programs_id_disable == Route(requireAdmin, {adminDisableProgram})
GET_admin_affiliates == Route(requireAdmin, {listAdminAffiliates})
POST_admin_affiliates_id_disable == Route(requireAdmin, {adminDisableAffiliate})
GET_admin_program_affiliates == Route(requireAdmin, {listAdminAffiliates})
POST_admin_program_affiliates_id_disable == Route(requireAdmin, {adminDisableAffiliate})
GET_admin_clicks == Route(requireAdmin, {listAdminClicks})
GET_admin_referrals == Route(requireAdmin, {listAdminReferrals})
GET_admin_customers == Route(requireAdmin, {listAdminCustomers})
GET_admin_transactions == Route(requireAdmin, {listAdminTransactions})
GET_admin_commission_entries == Route(requireAdmin, {listAdminCommissionEntries})
POST_admin_commission_adjustments == Route(requireAdmin, {createCommissionAdjustment})
GET_admin_payout_batches == Route(requireAdmin, {listAdminPayoutRuns})
GET_admin_payout_batches_id_csv == Route(requireAdmin, {adminExportPayoutRunCsv})
GET_admin_payout_runs == Route(requireAdmin, {listAdminPayoutRuns})
GET_admin_payout_runs_id_csv == Route(requireAdmin, {adminExportPayoutRunCsv})
GET_admin_payout_items == Route(requireAdmin, {listAdminPayoutItems})
GET_admin_payout_requests == Route(requireAdmin, {listAdminPayoutRequests})
GET_admin_stripe_connections == Route(requireAdmin, {listAdminStripeConnections})
GET_admin_stripe_events == Route(requireAdmin, {listAdminStripeEvents})
POST_admin_stripe_events_id_reprocess == Route(requireAdmin, {reprocessStripeEvent})
GET_admin_audit_logs == Route(requireAdmin, {listAdminAuditLogs})
POST_admin_users == Route(requireAdmin, {createBetaUser})
POST_admin_email_diagnostic == Route(requireAdmin, {Open})

-----------------------------------------------------------------------------

Handlers ==
    {GET_legal, GET_health, GET_health_live, GET_health_ready, GET_v1, GET_self_hosted_setup,
     POST_self_hosted_setup, POST_auth_register, POST_auth_sign_in, GET_network_apps,
     GET_join_programSlug, POST_join_programSlug, POST_join_programSlug_confirm, POST_capture,
     GET_me, PATCH_me, POST_me_photo, DELETE_me_photo, POST_support, GET_organizations,
     POST_organizations, GET_api_keys, POST_api_keys, DELETE_api_keys_id, GET_apps, POST_apps,
     GET_apps_id, PATCH_apps_id, GET_apps_id_agreement, PATCH_apps_id_agreement,
     POST_apps_id_logo, DELETE_apps_id_logo, GET_apps_id_overview, GET_apps_id_setup_status,
     GET_apps_id_webhook, PUT_apps_id_webhook, DELETE_apps_id_webhook,
     GET_apps_id_webhook_deliveries, POST_apps_id_webhook_rotate_secret,
     POST_apps_id_webhook_test, POST_stripe_connect_link, POST_stripe_claim_pending_install,
     GET_stripe_install_post_install, POST_stripe_disconnect, GET_programs, POST_programs, GET_programs_id, PATCH_programs_id,
     GET_programs_id_overview, POST_programs_id_pause, POST_programs_id_resume,
     POST_programs_id_disable, POST_programs_id_acknowledge_disable, GET_programs_id_terms,
     POST_programs_id_terms, GET_program_affiliates, POST_program_affiliates,
     POST_program_affiliates_id_approve, POST_program_affiliates_id_disable,
     POST_program_affiliates_id_enable, GET_program_affiliates_id_links,
     POST_program_affiliates_id_links, PATCH_program_affiliates_id_links_linkId,
     DELETE_program_affiliates_id_links_linkId, GET_clicks, GET_referrals, GET_transactions,
     GET_commissions, GET_payout_batches, GET_payout_requests, POST_commissions_id_release,
     POST_commissions_id_reject, GET_ready_payouts, POST_ready_payouts_csv,
     POST_ready_payouts_programAffiliateId_mark_paid, POST_payout_batches,
     GET_payout_batches_id_csv, GET_payout_batches_id_items,
     POST_payout_batches_id_items_itemId_resolve,
     POST_payout_batches_id_affiliates_programAffiliateId_mark_paid,
     POST_payout_batches_id_mark_paid, POST_payout_batches_id_cancel,
     POST_payout_batches_id_dispatch, POST_payout_requests_id_decline,
     GET_payout_executions_executionId, POST_payout_executions_executionId_succeeded,
     POST_payout_executions_executionId_failed, POST_identify, POST_transactions,
     POST_transactions_refunds, POST_transactions_disputes, POST_webhooks_stripe,
     GET_affiliate_links, GET_affiliate_data_export, POST_affiliate_delete_account,
     POST_affiliate_programs_programId_join, GET_affiliate_programs_programId_links,
     POST_affiliate_programs_programId_links, DELETE_affiliate_programs_programId_links_linkId,
     GET_payout_balance, GET_payout_details, PUT_payout_details, POST_payout_requests,
     POST_managed_connections_provision,
     POST_managed_connections_id_credentials_ackId_acknowledge,
     POST_managed_connections_id_credentials_rotate, POST_managed_connections_id_suspend,
     POST_managed_connections_id_reconnect, POST_managed_connections_id_uninstall,
     DELETE_managed_connections_id, POST_managed_data_subjects_export,
     POST_managed_data_subjects_redact, GET_admin_organizations, GET_admin_organization_members,
     GET_admin_apps, POST_admin_apps_id_integration_issue, GET_admin_programs,
     POST_admin_programs_id_disable, GET_admin_affiliates, POST_admin_affiliates_id_disable,
     GET_admin_program_affiliates, POST_admin_program_affiliates_id_disable, GET_admin_clicks,
     GET_admin_referrals, GET_admin_customers, GET_admin_transactions,
     GET_admin_commission_entries, POST_admin_commission_adjustments, GET_admin_payout_batches,
     GET_admin_payout_batches_id_csv, GET_admin_payout_runs, GET_admin_payout_runs_id_csv,
     GET_admin_payout_items, GET_admin_payout_requests, GET_admin_stripe_connections,
     GET_admin_stripe_events, POST_admin_stripe_events_id_reprocess, GET_admin_audit_logs,
     POST_admin_users, POST_admin_email_diagnostic}

=============================================================================
