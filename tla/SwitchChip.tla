----------------------------- MODULE SwitchChip ------------------------------
(***************************************************************************)
(* Processes make the calls of SwitchCalls on one register of the chip.    *)
(***************************************************************************)
EXTENDS SwitchCalls

VARIABLES reg,       \* the register this behaviour is about
          chip,      \* what the chip holds there
          at,        \* at[p]: where caller p is
          fn,        \* fn[p]: the function it is in
          arg,       \* arg[p]: the value it was given to set
          out,       \* out[p]: the value at its caller's pointer
          res,       \* res[p]: what it returns
          told,      \* history, told[p]: what the register holds by what p's calls returned
          overtaken  \* history, overtaken[p]: another caller wrote it after p's last request

switchvars == <<reg, chip, at, fn, arg, out, res, told, overtaken>>

-----------------------------------------------------------------------------
(* The driver: external.  The requests that write a register, read it (or show it on *)
(* the console of the kernel) and clear it.                                          *)

Reg(set, get, clear) == [set |-> set, get |-> get, clear |-> clear]

Registers ==
  {Reg({"SET_PORT_STP_STATUS"}, {"GET_PORT_STP_STATUS"}, {}),
   Reg({"ERPS_BPDU_LEVEL_SET"}, {}, {}), Reg({"BPDU_MAC_MODIFY"}, {}, {}),
   Reg({"PORT_BPDU_ENABLE"}, {}, {}), Reg({"MSTP_ENABLE"}, {}, {}),
   Reg({"MSTP_PORT_SET"}, {"MSTP_PORT_GET"}, {}), Reg({"MSTP_ADD_VLAN"}, {}, {"MSTP_REMOVE_VLAN"}),
   Reg({"ERPS_STG_CREATE", "ERPS_STG_STATE_SET"}, {}, {"BCM_STG_INIT"}),
   Reg({"ERPS_STG_ADD_VLAN"}, {}, {"ERPS_STG_REMOVE_VLAN"}),
   Reg({"ACL_CREATE_ALL_ENTRY", "MAC_ACL_ADD", "IP_STD_ACL_ADD", "IP6_STD_ACL_ADD",
        "POLICY_IP6_STD_ACL_ADD", "IP_EXT_ACL_ADD", "POLICY_MAC_ACL_ADD", "POLICY_IP_STD_ACL_ADD",
        "POLICY_IP_EXT_ACL_ADD", "POLICY_OTHER_ADD"}, {"ACL_DUMP", "ACL_ENTRY_DUMP"},
       {"MAC_ACL_DEL_ALL"}),
   Reg({"VLAN_DTAG_TPID"}, {"DTAG_DUMP_PORT"}, {}), Reg({"VLAN_DTAG_MODE"}, {"DTAG_DUMP_MODE"}, {}),
   Reg({"VLAN_DTAG_SET"}, {"DTAG_DUMP_ENTRY"}, {"VLAN_DTAG_DELETE"}),
   Reg({"VLAN_PVID_SET"}, {"VLAN_PVID_GET"}, {}),
   Reg({"VLAN_SET"}, {"VLAN_GET", "VLAN_GET_ALL"}, {"VLAN_DEL", "VLAN_DEL_ALL"}),
   Reg({"MAC_VOICE_VLAN"}, {}, {}), Reg({"MAC_VLAN_ADD"}, {}, {"MAC_VLAN_DELETE"}),
   Reg({"PROTOCOL_VLAN_ADD"}, {}, {"PROTOCOL_VLAN_DELETE"}),
   Reg({"PORT_BASED_VLAN_SET"}, {}, {"PORT_BASED_VLAN_DEL"}),
   Reg({}, {"PORT_Statis_GET"}, {"PORT_Statis_CLEAR", "CLEAR_CNT"}),
   Reg({"PORT_STAT_SET"}, {"PORT_STAT_GET", "PORT_SPEED_GET", "PORT_DUPLEX_GET", "PORT_DUMP"},
       {"PORT_PHY_RESET"}),
   Reg({"PORT_MTU_SET"}, {"PORT_MTU_GET"}, {}), Reg({"PORT_PROTECTED"}, {}, {}),
   Reg({"MAC_LIMIT"}, {}, {}), Reg({"BCM_MAC_BLACKHOLE_SET"}, {}, {}), Reg({"AGE_TIME"}, {}, {}),
   Reg({"MAC_STATIC_ADD", "FAST_MAC_STATIC_ADD"}, {"MAC_LIST_GET"},
       {"MAC_STATIC_DEL", "FAST_MAC_STATIC_DEL", "MAC_DEL_BY_PORT"}),
   Reg({"MULMAC_ADD_PORT", "MULMAC_ADD_PMAP"}, {"MULMAC_LIST_GET"},
       {"MULMAC_DEL_ALL", "MULMAC_DEL_ADDR"}),
   Reg({"IGMP_SNOOP_SET"}, {}, {}), Reg({"QOS_DROP_PROFILE"}, {}, {}),
   Reg({"COSQ_SCHED_SET"}, {"COSQ_SCHED_GET"}, {}), Reg({"COSQ_MAPPING_SET"}, {"COSQ_MAPPING_GET"}, {}),
   Reg({"COSQ_INIT"}, {}, {}), Reg({"PORT_COSQ"}, {}, {}), Reg({"DSCP_MAPPING_SET"}, {}, {}),
   Reg({"QOS_PORT_PRORITY"}, {}, {}),
   Reg({"TRUNK_SET_PORT", "TRUNK_SET"}, {"TRUNK_GET_PORT"}, {"TRUNK_DEL", "TRUNK_DEL_ALL"}),
   Reg({}, {"GET_SWITCH_LINK", "PORT_LINK_GET", "GET_LINK"}, {}), Reg({"LED_INIT"}, {}, {}),
   Reg({"STORM_SET"}, {"STORM_GET"}, {}), Reg({"STORM_BCAST"}, {}, {}), Reg({"STORM_MCAST"}, {}, {}),
   Reg({"STORM_UCAST"}, {}, {}), Reg({"RATE_INGRESS_SET"}, {}, {}), Reg({"RATE_EGRESS_SET"}, {}, {}),
   Reg({"L3_HOST_CREATE"}, {"L3_HOST_FIND", "L3_HOST_DUMP"}, {"L3_HOST_DELETE", "L3_HOST_DELETE_ALL"}),
   Reg({"L3_INTF_CREATE"}, {"L3_INTF_DUMP"}, {"L3_INTF_DELETE", "L3_INTF_DELETE_ALL"}),
   Reg({"L3_ROUTE_SET"}, {"L3_ROUTE_DUMP"}, {"L3_ROUTE_DEL", "L3_ROUTE_DELETE_ALL"}),
   Reg({"L3_ARP_SET"}, {"L3_ARP_GET"}, {}),
   Reg({"L3V6_HOST_CREATE"}, {"L3V6_HOST_FIND"}, {"L3V6_HOST_DELETE", "L3V6_HOST_INIT"}),
   Reg({"MIRROR_SET"}, {}, {}), Reg({"MIRROR_SET_VLAN"}, {}, {"MIRROR_SESSION_DEL"}),
   Reg({"IPMC_ENABLE"}, {}, {}), Reg({"IPMC_ADD"}, {"IPMC_DUMP"}, {"IPMC_DEL", "IPMC_DEL_ALL"}),
   Reg({"IPMC_EGRESS_ADD", "IPMC_ZEGRESS_ADD"}, {},
       {"IPMC_EGRESS_DEL", "IPMC_EGRESS_DEL_ALL", "IPMC_ZEGRESS_DEL"}),
   Reg({"IPMC_EGRESS_PORT", "IPMC_ZEGRESS_PORT"}, {}, {}),
   Reg({"I2C_WRITE"}, {"I2C_READ"}, {}), Reg({}, {"SFP_READ"}, {}),
   Reg({"PORT_AUTH_SET"}, {}, {}), Reg({"DHCP_SNOOP_ENABLE"}, {}, {}), Reg({"ARP_SNOOP_ENABLE"}, {}, {}),
   Reg({"IPADDR_POLICE_SET"}, {}, {}), Reg({"IPADDR_GUARD_SET"}, {}, {"IPADDR_GUARD_INIT"}),
   Reg({"DHCP_SNOOP_TRUST"}, {}, {}), Reg({"DHCPv6_SNOOP_TRUST"}, {}, {}),
   Reg({"PVLAN_PORT_SET"}, {}, {}), Reg({"BCM_PORT_EGRESS_SET"}, {"BCM_PORT_EGRESS_GET"}, {}),
   Reg({"BCM_PORT_INGRESS_FILTER_SET"}, {}, {}), Reg({"VLAN_TRANLATE_SET"}, {}, {}),
   Reg({"VLAN_CONTROL_SET"}, {"VLAN_CONTROL_GET"}, {}),
   Reg({"VLAN_CONTROL_VLAN_SET"}, {"VLAN_CONTROL_VLAN_GET"}, {}),
   Reg({"BCM_REGISTER_WRITE"}, {"BCM_REGISTER_READ"}, {}), Reg({}, {}, {})}

\* The last register stands for none: the functions that make no request.
Requests(r) == r.set \union r.get \union r.clear
FunctionsOn(r) ==
  IF Requests(r) = {} THEN Stubs
                      ELSE {c[1] : c \in {d \in Calls : d[2] \in Requests(r)}}
Request(f) == (CHOOSE c \in Calls : c[1] = f)[2]

-----------------------------------------------------------------------------
(* How the functions differ besides their request. *)

\* Most are given a descriptor of the device.  These open one, and close it on every
\* path; the deletion of a locked address opens a second one inside bcm_l2_addr_del.
OpensDevice ==
  {"get_port_stp_status", "bcm_l2_learn_limit_by_port", "bcm_l2_addr_del",
   "bcm_add_static_lock_mac_with_vlan", "bcm_del_static_lock_mac_with_vlan",
   "bcm_clear_all_counters", "bcm_get_swlink_status"}

\* What a call returns when its request was refused.  These print the error, or not
\* even that, and return what they return otherwise.
\* Mutant of Refused: one more does not look at the result.
RefusedSilently(f) ==
  IF f \in {"get_port_stp_status", "bcm_l2_learn_limit_by_port", "bcm_l2_addr_del",
            "bcm_del_static_lock_mac_with_vlan", "get_port_txrx_status",
            "bcm_add_static_lock_mac_with_vlan"}
  THEN 0 ELSE -1

Refused(f) ==
  IF f \in {"get_port_stp_status", "bcm_l2_learn_limit_by_port", "bcm_l2_addr_del",
            "bcm_del_static_lock_mac_with_vlan", "get_port_txrx_status"}
  THEN 0 ELSE -1

\* These end without a return statement: the value of a success is anything.  0
\* stands too for the answer that get_port_stp_status and get_port_txrx_status return.
Granted(f) == IF f \in {"set_vlan_qinq_tpid", "get_vlan_qinq_tpid"} THEN {0, -1} ELSE {0}

\* What a set may write: the value it was given, but for the question that sets, and for
\* the protected ring, where the first blocked port is sent in the place of the second
\* one too: what is set then is the value of another pair of ports.
Written(f, v) == CASE f = "get_vlan_qinq_tpid" -> {Cleared}
                   [] f = "bcm_set_erps_bpdu" -> Values
                   [] OTHER -> {v}

\* What a question may answer: one of the counters of a port is always shown as 0.
Answers(f, v) == IF f = "get_port_txrx_status" THEN {v, Cleared} ELSE {v}

-----------------------------------------------------------------------------
(* What the names of the functions promise. *)

Asks ==
  {"bcm_get_rstp_stp", "get_port_stp_status", "bcm_mstp_get_port_state", "bcm_acl_dump",
   "bcm_acl_entry_dump", "get_vlan_qinq_tpid", "bcm_port_pvid_get", "bcm_get_vlan_entry",
   "bcm_get_all_vlan", "bcm_dtag_mode_dump", "bcm_dtag_port_dump", "bcm_dtag_entry_dump",
   "get_port_txrx_status", "bcm_get_port_speed", "bcm_get_port_statistics",
   "bcm_get_port_statistics64", "bcm_get_port_duplex", "bcm_port_ability_get",
   "bcm_port_info_get", "bcm_port_mtu_get", "bcm_get_all_mac", "bcm_get_special_mac",
   "bcm_get_multi_mac", "bcm_cosq_sched_get", "bcm_cosq_mapping_get",
   "cli_get_port_trunk_status", "bcm_get_swlink_status", "bcm_get_port_link",
   "get_link_status", "bcm_get_link", "bcm_rate_get", "bcm_l3_host", "bcm_l3_intf_dump",
   "bcm_l3_host_find", "bcm_l3_route_dump", "bcm_switch_control_arp_get",
   "bcm_l3v6_host_find", "bcm_ipmc_dump", "bcm_i2c_read", "bcm_ddm_read",
   "bcm_port_egress_get", "vlan_control_get", "vlan_control_vlan_get", "bcm_register_read",
   "get_mirror_capture_port", "get_mirror_ingress", "get_mirror_egress", "bcm_auth_mode_get"}
   \union RateStubs

Removes ==
  {"bcm_mstp_msti_remove_vlan", "bcm_set_stg_init", "bcm_set_stg_remove_vlan",
   "bcm_mac_acl_del_all", "bcm_del_vlan_entry", "bcm_delete_all_vlan", "bcm_mac_vlan_delete",
   "bcm_port_doubletag_delete_all", "bcm_port_protocol_vlan_delete", "bcm_port_based_vlan_del",
   "bcm_port_statistics_clear", "bcm_clear_all_counters", "bcm_reset_external_phy",
   "bcm_l2_addr_del", "bcm_del_static_lock_mac_with_vlan", "bcm_l2_addr_delete_by_port",
   "bcm_l2_macaddr_del", "bcm_trunk_disable", "bcm_trunk_remove_all", "bcm_l3_intf_delete_all",
   "bcm_l3_intf_delete", "bcm_l3_host_delete", "bcm_l3_host_delete_all", "bcm_l3_route_delete",
   "bcm_l3_route_delete_all", "bcm_l3v6_host_delete", "bcm_l3v6_host_init",
   "del_bcm_mirror_vlan", "bcm_ipmc_remove", "bcm_ipmc_remove_all", "bcm_ipmc_egress_remove",
   "bcm_ipmc_egress_remove_all", "bcm_ipmc_dir_egress_remove", "bcm_mcast_destroy",
   "bcm_mcast_addr_del", "bcm_access_ip_init", "bcm_access_ip_clear"}

\* The functions whose result does not say what they did.
Misleading ==
  Stubs \union {"get_vlan_qinq_tpid", "set_vlan_qinq_tpid", "bcm_set_erps_bpdu",
                "get_port_stp_status", "bcm_l2_learn_limit_by_port",
                "bcm_l2_addr_del", "bcm_del_static_lock_mac_with_vlan", "get_port_txrx_status"}

-----------------------------------------------------------------------------
SwitchInit ==
  /\ reg \in Registers
  /\ chip = Cleared
  /\ at = [p \in Callers |-> "out"]
  /\ fn = [p \in Callers |-> "none"]
  /\ arg = [p \in Callers |-> Cleared]
  /\ out = [p \in Callers |-> Nothing]
  /\ res = [p \in Callers |-> 0]
  /\ told = [p \in Callers |-> Nothing]
  /\ overtaken = [p \in Callers |-> FALSE]

\* A caller calls a function that concerns the register.  Where there is no ring,
\* get_port_stp_status does not ask, and get_port_txrx_status does not for a port that
\* the switch does not have.
CallSwitch(p) ==
  /\ at[p] = "out"
  /\ \E f \in FunctionsOn(reg), v \in Values :
       /\ fn' = [fn EXCEPT ![p] = f]
       /\ arg' = [arg EXCEPT ![p] = v]
       /\ \/ /\ f \notin Stubs
             /\ at' = [at EXCEPT ![p] = IF f \in OpensDevice THEN "open" ELSE "request"]
             /\ UNCHANGED res
          \/ /\ f \in Stubs \union {"get_port_stp_status"}
             /\ at' = [at EXCEPT ![p] = "return"]
             /\ UNCHANGED res
          \/ /\ f = "get_port_txrx_status"
             /\ at' = [at EXCEPT ![p] = "return"]
             /\ res' = [res EXCEPT ![p] = -1]
  /\ UNCHANGED <<reg, chip, out, told, overtaken>>

\* open(DEVICE_FILE_NAME) succeeds or fails.
Open(p) ==
  /\ at[p] = "open"
  /\ \/ /\ at' = [at EXCEPT ![p] = IF fn[p] = "bcm_del_static_lock_mac_with_vlan"
                                   THEN "reopen" ELSE "request"]
        /\ UNCHANGED res
     \/ /\ at' = [at EXCEPT ![p] = "return"]
        /\ res' = [res EXCEPT ![p] = -1]
  /\ UNCHANGED <<reg, chip, fn, arg, out, told, overtaken>>

\* bcm_l2_addr_del opens the device in its turn; its failure is passed on.
OpenAgain(p) ==
  /\ at[p] = "reopen"
  /\ \/ at' = [at EXCEPT ![p] = "request"] /\ UNCHANGED res
     \/ at' = [at EXCEPT ![p] = "return"] /\ res' = [res EXCEPT ![p] = -1]
  /\ UNCHANGED <<reg, chip, fn, arg, out, told, overtaken>>

\* The driver carries the request out.
RequestDone(p) ==
  /\ at[p] = "request"
  /\ \E c \in {Request(fn[p])} :
       IF c \in reg.get
       THEN /\ \E v \in Answers(fn[p], chip) : out' = [out EXCEPT ![p] = v]
            /\ overtaken' = [overtaken EXCEPT ![p] = FALSE]
            /\ UNCHANGED chip
       ELSE /\ chip' \in IF c \in reg.clear THEN {Cleared} ELSE Written(fn[p], arg[p])
            /\ overtaken' = [q \in Callers |-> q # p]
            /\ UNCHANGED out
  /\ \E r \in Granted(fn[p]) : res' = [res EXCEPT ![p] = r]
  /\ at' = [at EXCEPT ![p] = "return"]
  /\ UNCHANGED <<reg, fn, arg, told>>

\* The driver refuses it.
RequestRefused(p) ==
  /\ at[p] = "request"
  /\ res' = [res EXCEPT ![p] = Refused(fn[p])]
  /\ at' = [at EXCEPT ![p] = "return"]
  /\ UNCHANGED <<reg, chip, fn, arg, out, told, overtaken>>

\* What a caller goes by.  After a success the register holds what the name of the
\* function says: what was read, nothing, or what was to be set; after an error it
\* holds what it held.  Of a misleading function no result says anything.
Told(p) ==
  IF fn[p] \in Misleading THEN Nothing
  ELSE IF res[p] # 0 THEN told[p]
  ELSE IF fn[p] \in Asks THEN out[p]
  ELSE IF fn[p] \in Removes THEN Cleared ELSE arg[p]

ReturnFromSwitch(p) ==
  /\ at[p] = "return"
  /\ at' = [at EXCEPT ![p] = "out"]
  /\ fn' = [fn EXCEPT ![p] = "none"]
  /\ arg' = [arg EXCEPT ![p] = Cleared]
  /\ out' = [out EXCEPT ![p] = Nothing]
  /\ res' = [res EXCEPT ![p] = 0]
  /\ told' = [told EXCEPT ![p] = Told(p)]
  /\ UNCHANGED <<reg, chip, overtaken>>

SwitchNext ==
  \E p \in Callers : \/ CallSwitch(p) \/ Open(p) \/ OpenAgain(p)
                     \/ RequestDone(p) \/ RequestRefused(p) \/ ReturnFromSwitch(p)

SwitchSpec == SwitchInit /\ [][SwitchNext]_switchvars

-----------------------------------------------------------------------------
\* A process that goes by what its calls returned knows what the chip holds, as long as
\* no other one writes there: through any sequence of calls, whichever fails at whatever
\* point, 0 means that the function did what it is named for and an error that nothing
\* was done.  The functions of which it is not true are named: most of them drop the
\* error of open or of the request (stp.c:78, mac.c:91, mac.c:273, port.c:298), one asks
\* by setting (vlan.c:50), one sends one of its arguments twice (stp.c:35), and two end
\* without a result (vlan.c:40).
ReportedIsHeld ==
  \A p \in Callers :
    at[p] = "out" /\ told[p] # Nothing /\ ~overtaken[p] => chip = told[p]

=============================================================================
