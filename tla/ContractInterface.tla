------------------------- MODULE ContractInterface -------------------------
(***************************************************************************)
(* The calls the two TypeScript clients make, with the types they give     *)
(* their arguments, against the functions the contract exports.  A call    *)
(* whose arguments are of other types, or another number of them, is an    *)
(* error of the host before the function runs.                             *)
(***************************************************************************)
EXTENDS TLC

(* The SDK's wrappers, section by section.                                 *)
SdkAdmin ==
  [ initialize_admin     |-> <<"address">>,
    get_admin            |-> <<>>,
    transfer_admin       |-> <<"address", "address">>,
    set_charity_contract |-> <<"address", "address">>,
    set_token_address    |-> <<"address", "address">>,
    set_percentages      |-> <<"address", "u32", "u32">> ]

SdkParticipants ==
  [ register_participant      |-> <<"address", "string", "string", "i128", "i128">>,
    get_participant           |-> <<"address">>,
    get_participant_info      |-> <<"address">>,
    update_role               |-> <<"address", "string">>,
    deregister_participant    |-> <<"address">>,
    is_participant_registered |-> <<"address">> ]

SdkSubmission ==
  [ submit_material        |-> <<"address", "u32", "u128", "i128", "i128">>,
    submit_materials_batch |-> <<"address", "vec">>,
    verify_material        |-> <<"u64", "address">>,
    transfer_waste         |-> <<"u128", "address", "address", "i128", "i128", "string">> ]

SdkWaste ==
  [ confirm_waste_details      |-> <<"u128", "address">>,
    reset_waste_confirmation   |-> <<"u128", "address">>,
    deactivate_waste           |-> <<"address", "u128">>,
    get_waste                  |-> <<"u128">>,
    get_material               |-> <<"u64">>,
    get_participant_wastes     |-> <<"address">>,
    get_waste_transfer_history |-> <<"u128">> ]

SdkIncentives ==
  [ create_incentive     |-> <<"address", "u32", "u64", "u64">>,
    update_incentive     |-> <<"u64", "address", "u64", "u64">>,
    deactivate_incentive |-> <<"u64", "address">>,
    get_incentive_by_id  |-> <<"u64">>,
    get_incentives       |-> <<"u32">>,
    get_active_incentives |-> <<>> ]

SdkRewards ==
  [ get_active_mfr_incentive |-> <<"address", "u32">>,
    donate_to_charity        |-> <<"address", "i128">>,
    distribute_rewards       |-> <<"u128", "u64", "address">> ]

SdkStats ==
  [ get_metrics |-> <<>>, get_stats |-> <<"address">>, get_supply_chain_stats |-> <<>> ]

SdkWrappers == SdkAdmin @@ SdkParticipants @@ SdkSubmission @@ SdkWaste
                 @@ SdkIncentives @@ SdkRewards @@ SdkStats

(* The application has a client of its own; its wrappers pass the same     *)
(* types.                                                                  *)
AppAdmin        == SdkAdmin
AppParticipants == SdkParticipants
AppWaste        == SdkSubmission @@ SdkWaste
AppIncentives   == SdkIncentives @@ SdkRewards
AppStats        == SdkStats

AppWrappers == AppAdmin @@ AppParticipants @@ AppWaste @@ AppIncentives @@ AppStats

(* What the deprecated wrappers of the application call.                   *)
AppAliases ==
  [ getWasteV2                |-> "get_waste",
    getParticipantWastesV2    |-> "get_participant_wastes",
    getWasteTransferHistoryV2 |-> "get_waste_transfer_history",
    recycleWaste              |-> "submit_material" ]

-----------------------------------------------------------------------------
(* The functions of the contract, in the order of lib.rs.                  *)
LibAdmins ==
  [ initialize_admin |-> <<"address">>, get_admin |-> <<>>,
    transfer_admin |-> <<"address", "vec">> ]
LibCharity ==
  [ set_charity_contract |-> <<"address", "address">>,
    donate_to_charity |-> <<"address", "i128">> ]
LibShares  == [ set_percentages |-> <<"address", "u32", "u32">> ]
LibToken   == [ set_token_address |-> <<"address", "address">> ]
LibRegistration ==
  [ is_participant_registered |-> <<"address">>,
    register_participant |-> <<"address", "u32", "symbol", "i128", "i128">> ]
LibIncentiveRead   == [ get_incentive_by_id |-> <<"u64">> ]
LibIncentiveUpdate == [ update_incentive |-> <<"u64", "u64", "u64">> ]
LibIncentiveLists ==
  [ get_incentives |-> <<"u32">>, get_active_incentives |-> <<>>,
    get_participant |-> <<"address">>, get_participant_info |-> <<"address">> ]
LibRoles ==
  [ update_role |-> <<"address", "u32">>, deregister_participant |-> <<"address">> ]
LibHistory  == [ get_waste_transfer_history |-> <<"u64">> ]
LibTransfer == [ transfer_waste |-> <<"u64", "address", "address", "string">> ]
LibSubmit   == [ submit_material |-> <<"u32", "u64", "address", "string">> ]
LibConfirm ==
  [ confirm_waste_details    |-> <<"u128", "address">>,
    reset_waste_confirmation |-> <<"u128", "address">>,
    deactivate_waste         |-> <<"u128", "address">> ]
LibMaterials ==
  [ submit_materials_batch |-> <<"vec", "address">>, get_material |-> <<"u64">>,
    get_waste |-> <<"u64">>, get_participant_wastes |-> <<"address">> ]
LibVerify  == [ verify_material |-> <<"u64", "address">> ]
LibStats   == [ get_stats |-> <<"address">> ]
LibSupply ==
  [ get_supply_chain_stats |-> <<>>, get_active_mfr_incentive |-> <<"address", "u32">>,
    create_incentive |-> <<"address", "u32", "u64", "u64">>,
    deactivate_incentive |-> <<"u64", "address">> ]
LibMetrics == [ get_metrics |-> <<>> ]
LibRewards == [ distribute_rewards |-> <<"u64", "u64", "address">> ]

Exports ==
  LibAdmins @@ LibCharity @@ LibShares @@ LibToken @@ LibRegistration
    @@ LibIncentiveRead @@ LibIncentiveUpdate @@ LibIncentiveLists @@ LibRoles
    @@ LibHistory @@ LibTransfer @@ LibSubmit @@ LibConfirm @@ LibMaterials
    @@ LibVerify @@ LibStats @@ LibSupply @@ LibMetrics @@ LibRewards

(* The calls of a client that reach the function they name.                *)
Fits(wrappers) == {m \in DOMAIN wrappers \cap DOMAIN Exports : wrappers[m] = Exports[m]}

SdkFitting == Fits(SdkWrappers)
AppFitting == Fits(AppWrappers)

=============================================================================
