---------------------------- MODULE ApiClients ----------------------------
(***************************************************************************)
(* What the command line and the MCP server ask of the API: one operator    *)
(* per command or tool, the kind of credential it sends and the handlers it *)
(* calls.  Prompts, output and the order of calls are left out.             *)
(***************************************************************************)
EXTENDS ApiRoutes

Sends(type, routes) == {[type |-> type, route |-> r] : r \in routes}
NoToken(routes) == Sends("none", routes)

\* The credentials that the two programs keep: a session of the device flow, an
\* app key, and for affiliates a key or else the session.
requireSessionAuth(routes) == Sends("session", routes)
requireAppKeyAuth(routes) == Sends("app", routes)
requireAffiliateToken(routes) == Sends("affiliate", routes) \cup Sends("session", routes)

-----------------------------------------------------------------------------
(* MCP tools of the owner.                                                 *)

list_organizations == requireSessionAuth({GET_organizations})
create_organization == requireSessionAuth({POST_organizations})
list_apps == requireSessionAuth({GET_apps})
get_app == requireSessionAuth({GET_apps_id})
create_app == requireSessionAuth({POST_apps})
update_app == requireSessionAuth({PATCH_apps_id})
list_programs == requireSessionAuth({GET_programs})
get_program == requireSessionAuth({GET_programs_id})
update_program == requireSessionAuth({PATCH_programs_id})
get_program_overview == requireSessionAuth({GET_programs_id_overview})
\* The website of the app is asked for and set before the program is made.
create_program == requireSessionAuth({GET_apps_id, PATCH_apps_id, POST_programs})
publish_program_terms == requireSessionAuth({POST_programs_id_terms})
publish_app_agreement == requireSessionAuth({PATCH_apps_id_agreement})
pause_program == requireSessionAuth({POST_programs_id_pause})
resume_program == requireSessionAuth({POST_programs_id_resume})
list_affiliates == requireSessionAuth({GET_program_affiliates})
create_affiliate == requireSessionAuth({POST_program_affiliates})
approve_affiliate == requireSessionAuth({POST_program_affiliates_id_approve})
list_clicks == requireSessionAuth({GET_clicks})
list_referrals == requireSessionAuth({GET_referrals})
list_transactions == requireSessionAuth({GET_transactions})
list_commissions == requireSessionAuth({GET_commissions})
reject_commission == requireSessionAuth({POST_commissions_id_reject})
release_commission == requireSessionAuth({POST_commissions_id_release})
create_payout_run == requireSessionAuth({POST_payout_batches})
list_payout_runs == requireSessionAuth({GET_payout_batches})
get_payout_run_items == requireSessionAuth({GET_payout_batches_id_items})
list_ready_payouts == requireSessionAuth({GET_ready_payouts})
mark_affiliate_payout_paid == requireSessionAuth({POST_ready_payouts_programAffiliateId_mark_paid})
mark_payout_run_paid == requireSessionAuth({POST_payout_batches_id_mark_paid})
resolve_payout_item == requireSessionAuth({POST_payout_batches_id_items_itemId_resolve})
list_owned_affiliate_links == requireSessionAuth({GET_program_affiliates_id_links})
create_owned_affiliate_link == requireSessionAuth({POST_program_affiliates_id_links})
update_owned_affiliate_link == requireSessionAuth({PATCH_program_affiliates_id_links_linkId})
delete_owned_affiliate_link == requireSessionAuth({DELETE_program_affiliates_id_links_linkId})

-----------------------------------------------------------------------------
(* MCP tools for integration, automation and revenue.                      *)

get_auth_status == requireSessionAuth({GET_me})
get_setup_status == requireSessionAuth({GET_apps_id_setup_status})
create_stripe_connect_link == requireSessionAuth({POST_stripe_connect_link})
disconnect_stripe == requireSessionAuth({POST_stripe_disconnect})
list_api_keys == requireSessionAuth({GET_api_keys})
create_api_key == requireSessionAuth({POST_api_keys})
revoke_api_key == requireSessionAuth({DELETE_api_keys_id})
get_webhook == requireSessionAuth({GET_apps_id_webhook})
configure_webhook == requireSessionAuth({PUT_apps_id_webhook})
test_webhook == requireSessionAuth({POST_apps_id_webhook_test})
rotate_webhook_secret == requireSessionAuth({POST_apps_id_webhook_rotate_secret})
list_webhook_deliveries == requireSessionAuth({GET_apps_id_webhook_deliveries})
remove_webhook == requireSessionAuth({DELETE_apps_id_webhook})
dispatch_payout_batch == requireSessionAuth({POST_payout_batches_id_dispatch})
get_payout_execution == requireAppKeyAuth({GET_payout_executions_executionId})
report_payout_succeeded == requireAppKeyAuth({POST_payout_executions_executionId_succeeded})
report_payout_failed == requireAppKeyAuth({POST_payout_executions_executionId_failed})
report_payment == requireAppKeyAuth({POST_transactions})
report_refund == requireAppKeyAuth({POST_transactions_refunds})
report_dispute == requireAppKeyAuth({POST_transactions_disputes})

-----------------------------------------------------------------------------
(* MCP tools of the affiliate.                                             *)

browse_refkit_network == NoToken({GET_network_apps})
join_refkit_network_program == requireAffiliateToken({POST_affiliate_programs_programId_join})
list_affiliate_links == requireAffiliateToken({GET_affiliate_links})
list_program_affiliate_links == requireAffiliateToken({GET_affiliate_programs_programId_links})
create_program_affiliate_link == requireAffiliateToken({POST_affiliate_programs_programId_links})
delete_program_affiliate_link ==
    requireAffiliateToken({DELETE_affiliate_programs_programId_links_linkId})
get_payout_balance == requireAffiliateToken({GET_payout_balance})
request_payout == requireAffiliateToken({POST_payout_requests})
get_payout_details == requireAffiliateToken({GET_payout_details})

-----------------------------------------------------------------------------
(* The command line: of the owner, then of the affiliate.                  *)

ensureCliSession == requireSessionAuth({GET_me})
selectApp == requireSessionAuth({GET_organizations, GET_apps, POST_apps})
selectProgram == requireSessionAuth({GET_programs, POST_programs})
runInit ==
    ensureCliSession \cup selectApp \cup selectProgram
    \cup requireSessionAuth({GET_apps_id, GET_programs_id, POST_stripe_connect_link,
                             GET_apps_id_setup_status, POST_api_keys})
runStatus == selectApp \cup requireSessionAuth({GET_apps_id_setup_status})
apps_create == requireSessionAuth({GET_organizations, POST_organizations, POST_apps})
apps_update == requireSessionAuth({PATCH_apps_id})
apps_agreement_publish == requireSessionAuth({PATCH_apps_id_agreement})
apps_disconnect_stripe == requireSessionAuth({POST_stripe_disconnect})
programs_create == requireSessionAuth({POST_programs})
programs_update == requireSessionAuth({PATCH_programs_id})
programs_terms_publish == requireSessionAuth({POST_programs_id_terms})
affiliates_create == requireSessionAuth({POST_program_affiliates})
commissions_list == requireSessionAuth({GET_commissions})
webhooks_get == requireSessionAuth({GET_apps_id_webhook})
webhooks_configure == requireSessionAuth({PUT_apps_id_webhook})
webhooks_test_rotate == requireSessionAuth({POST_apps_id_webhook_test, POST_apps_id_webhook_rotate_secret})
webhooks_deliveries == requireSessionAuth({GET_apps_id_webhook_deliveries})
webhooks_remove == requireSessionAuth({DELETE_apps_id_webhook})
payouts_create == requireSessionAuth({POST_payout_batches})
payouts_ready == requireSessionAuth({GET_ready_payouts})
payouts_pay_affiliate == requireSessionAuth({POST_ready_payouts_programAffiliateId_mark_paid})
payouts_download == requireSessionAuth({POST_ready_payouts_csv})
payouts_resolve_item == requireSessionAuth({POST_payout_batches_id_items_itemId_resolve})
payouts_mark_paid == requireSessionAuth({POST_payout_batches_id_mark_paid})
payouts_dispatch == requireSessionAuth({POST_payout_batches_id_dispatch})
payouts_execution == requireAppKeyAuth({GET_payout_executions_executionId})
payouts_execution_succeeded == requireAppKeyAuth({POST_payout_executions_executionId_succeeded})
payouts_execution_failed == requireAppKeyAuth({POST_payout_executions_executionId_failed})

\* Each command works on an affiliate's behalf when an affiliate id is given.
links_list == requireSessionAuth({GET_program_affiliates_id_links, GET_affiliate_links})
links_create ==
    requireSessionAuth({POST_program_affiliates_id_links, POST_affiliate_programs_programId_links})
links_delete ==
    requireSessionAuth({DELETE_program_affiliates_id_links_linkId,
                        DELETE_affiliate_programs_programId_links_linkId})
links_update == requireSessionAuth({PATCH_program_affiliates_id_links_linkId})
network_list == NoToken({GET_network_apps})
network_join == requireSessionAuth({POST_affiliate_programs_programId_join})

-----------------------------------------------------------------------------

McpCalls ==
    list_organizations \cup create_organization \cup list_apps \cup get_app \cup create_app
    \cup update_app \cup list_programs \cup get_program \cup update_program
    \cup get_program_overview \cup create_program \cup publish_program_terms
    \cup publish_app_agreement \cup pause_program \cup resume_program \cup list_affiliates
    \cup create_affiliate \cup approve_affiliate \cup list_clicks \cup list_referrals
    \cup list_transactions \cup list_commissions \cup reject_commission \cup release_commission
    \cup create_payout_run \cup list_payout_runs \cup get_payout_run_items \cup list_ready_payouts
    \cup mark_affiliate_payout_paid \cup mark_payout_run_paid \cup resolve_payout_item
    \cup list_owned_affiliate_links \cup create_owned_affiliate_link
    \cup update_owned_affiliate_link \cup delete_owned_affiliate_link \cup get_auth_status
    \cup get_setup_status \cup create_stripe_connect_link \cup disconnect_stripe
    \cup list_api_keys \cup create_api_key \cup revoke_api_key \cup get_webhook
    \cup configure_webhook \cup test_webhook \cup rotate_webhook_secret
    \cup list_webhook_deliveries \cup remove_webhook \cup dispatch_payout_batch
    \cup get_payout_execution \cup report_payout_succeeded \cup report_payout_failed
    \cup report_payment \cup report_refund \cup report_dispute \cup browse_refkit_network
    \cup join_refkit_network_program \cup list_affiliate_links \cup list_program_affiliate_links
    \cup create_program_affiliate_link \cup delete_program_affiliate_link
    \cup get_payout_balance \cup request_payout \cup get_payout_details
CliCalls ==
    runInit \cup runStatus \cup apps_create \cup apps_update \cup apps_agreement_publish
    \cup apps_disconnect_stripe \cup programs_create \cup programs_update
    \cup programs_terms_publish \cup affiliates_create \cup commissions_list \cup webhooks_get
    \cup webhooks_configure \cup webhooks_test_rotate \cup webhooks_deliveries
    \cup webhooks_remove \cup payouts_create \cup payouts_ready \cup payouts_pay_affiliate
    \cup payouts_download \cup payouts_resolve_item \cup payouts_mark_paid \cup payouts_dispatch
    \cup payouts_execution \cup payouts_execution_succeeded \cup payouts_execution_failed
    \cup links_list \cup links_create \cup links_delete \cup links_update \cup network_list
    \cup network_join
ClientCalls == McpCalls \cup CliCalls

=============================================================================
