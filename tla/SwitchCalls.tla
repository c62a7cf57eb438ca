----------------------------- MODULE SwitchCalls -----------------------------
(***************************************************************************)
(* The calls of the library that act on the switch chip by one request to  *)
(* its driver (ioctl on DEVICE_FILE_NAME), which serialises them.  For each source *)
(* file, the functions and the request each one makes; then a machine in   *)
(* which processes make calls, open and request may fail, and a call       *)
(* returns what the code returns.                                          *)
(*                                                                         *)
(* A behaviour is about one register of the chip: one entry of a table, as *)
(* calls on different entries do not meet.                                 *)
(***************************************************************************)
EXTENDS Integers

CONSTANTS Callers,   \* processes that use the library
          Values     \* what is written to a register

ASSUME SwitchAssumption == 0 \notin Values /\ Values \subseteq Nat

\* A register that is not configured.
Cleared == 0
Nothing == -1

-----------------------------------------------------------------------------
(* Which function makes which request. *)

StpCalls ==
  {<<"bcm_set_rstp_stp", "SET_PORT_STP_STATUS">>,
   <<"bcm_set_erps_bpdu", "ERPS_BPDU_LEVEL_SET">>,
   <<"bcm_get_rstp_stp", "GET_PORT_STP_STATUS">>,
   <<"get_port_stp_status", "GET_PORT_STP_STATUS">>,
   <<"bcm_set_bpdu_mac", "BPDU_MAC_MODIFY">>,
   <<"bcm_enable_bpdu_rx", "PORT_BPDU_ENABLE">>,
   <<"bcm_mstp_enable", "MSTP_ENABLE">>}

MstpCalls ==
  {<<"bcm_mstp_set_port_state", "MSTP_PORT_SET">>,
   <<"bcm_mstp_get_port_state", "MSTP_PORT_GET">>,
   <<"bcm_mstp_msti_map_vlan", "MSTP_ADD_VLAN">>,
   <<"bcm_mstp_msti_remove_vlan", "MSTP_REMOVE_VLAN">>,
   <<"bcm_set_stg_init", "BCM_STG_INIT">>,
   <<"bcm_set_stg_create_id", "ERPS_STG_CREATE">>,
   <<"bcm_set_stg_stp", "ERPS_STG_STATE_SET">>,
   <<"bcm_set_stg_add_vlan", "ERPS_STG_ADD_VLAN">>,
   <<"bcm_set_stg_remove_vlan", "ERPS_STG_REMOVE_VLAN">>}

AclCalls ==
  {<<"bcm_acl_create_all", "ACL_CREATE_ALL_ENTRY">>,
   <<"bcm_mac_acl_set", "MAC_ACL_ADD">>,
   <<"bcm_mac_acl_del_all", "MAC_ACL_DEL_ALL">>,
   <<"bcm_acl_dump", "ACL_DUMP">>,
   <<"bcm_acl_entry_dump", "ACL_ENTRY_DUMP">>,
   <<"bcm_ip_std_acl_set", "IP_STD_ACL_ADD">>,
   <<"bcm_ip6_std_acl_set", "IP6_STD_ACL_ADD">>,
   <<"bcm_policy_ip6_std_acl_set", "POLICY_IP6_STD_ACL_ADD">>}

AclMoreCalls ==
  {<<"bcm_ip_ext_acl_set", "IP_EXT_ACL_ADD">>,
   <<"bcm_policy_mac_acl_set", "POLICY_MAC_ACL_ADD">>,
   <<"bcm_policy_ip_std_acl_set", "POLICY_IP_STD_ACL_ADD">>,
   <<"bcm_policy_ip_ext_acl_set", "POLICY_IP_EXT_ACL_ADD">>,
   <<"bcm_policy_other_set", "POLICY_OTHER_ADD">>}

\* The question for the TPID sets the port's VLAN to 0 and asks nothing.
VlanCalls ==
  {<<"set_vlan_qinq_tpid", "VLAN_DTAG_TPID">>,
   <<"get_vlan_qinq_tpid", "VLAN_PVID_SET">>,
   <<"set_vlan_qinq_port_mode", "VLAN_DTAG_MODE">>,
   <<"bcm_port_pvid_get", "VLAN_PVID_GET">>,
   <<"bcm_port_pvid_set", "VLAN_PVID_SET">>,
   <<"bcm_get_vlan_entry", "VLAN_GET">>,
   <<"bcm_set_vlan_entry", "VLAN_SET">>,
   <<"bcm_del_vlan_entry", "VLAN_DEL">>}

VlanTableCalls ==
  {<<"bcm_delete_all_vlan", "VLAN_DEL_ALL">>,
   <<"bcm_get_all_vlan", "VLAN_GET_ALL">>,
   <<"bcm_voice_vlan", "MAC_VOICE_VLAN">>,
   <<"bcm_mac_vlan_create", "MAC_VLAN_ADD">>,
   <<"bcm_mac_vlan_delete", "MAC_VLAN_DELETE">>}

DoubleTagCalls ==
  {<<"bcm_port_tpid_set", "VLAN_DTAG_TPID">>,
   <<"bcm_port_doubletag_set", "VLAN_DTAG_SET">>,
   <<"bcm_port_doubletag_delete_all", "VLAN_DTAG_DELETE">>,
   <<"bcm_port_qinq_mode_set", "VLAN_DTAG_MODE">>,
   <<"bcm_port_protocol_vlan_set", "PROTOCOL_VLAN_ADD">>,
   <<"bcm_port_protocol_vlan_delete", "PROTOCOL_VLAN_DELETE">>,
   <<"bcm_dtag_mode_dump", "DTAG_DUMP_MODE">>,
   <<"bcm_dtag_port_dump", "DTAG_DUMP_PORT">>,
   <<"bcm_dtag_entry_dump", "DTAG_DUMP_ENTRY">>}

PortBasedCalls ==
  {<<"bcm_port_based_vlan_set", "PORT_BASED_VLAN_SET">>,
   <<"bcm_port_based_vlan_del", "PORT_BASED_VLAN_DEL">>}

\* One counter, chosen by its kind; two kinds are given back as 0.
CounterCalls == {<<"get_port_txrx_status", "PORT_Statis_GET">>}

PortCalls ==
  {<<"bcm_get_port_speed", "PORT_SPEED_GET">>,
   <<"bcm_get_port_statistics", "PORT_Statis_GET">>,
   <<"bcm_port_statistics_clear", "PORT_Statis_CLEAR">>,
   <<"bcm_get_port_statistics64", "PORT_Statis_GET">>,
   <<"bcm_clear_all_counters", "CLEAR_CNT">>,
   <<"bcm_get_port_duplex", "PORT_DUPLEX_GET">>,
   <<"bcm_port_ability_get", "PORT_STAT_GET">>}

PortSetCalls ==
  {<<"bcm_port_ability_set", "PORT_STAT_SET">>,
   <<"bcm_reset_external_phy", "PORT_PHY_RESET">>,
   <<"bcm_port_info_get", "PORT_DUMP">>}

PortFrameCalls ==
  {<<"bcm_port_mtu_set", "PORT_MTU_SET">>,
   <<"bcm_port_mtu_get", "PORT_MTU_GET">>,
   <<"bcm_port_protect_set", "PORT_PROTECTED">>}

MacLimitCalls == {<<"bcm_l2_learn_limit_by_port", "MAC_LIMIT">>}

MacCalls ==
  {<<"bcm_get_all_mac", "MAC_LIST_GET">>,
   <<"bcm_get_special_mac", "MAC_LIST_GET">>,
   <<"bcm_get_multi_mac", "MULMAC_LIST_GET">>,
   <<"bcm_l2_addr_add", "MAC_STATIC_ADD">>,
   <<"bcm_l2_addr_blackhole", "BCM_MAC_BLACKHOLE_SET">>,
   <<"bcm_set_age_time", "AGE_TIME">>,
   <<"bcm_l2_addr_del", "MAC_STATIC_DEL">>,
   <<"bcm_add_static_lock_mac_with_vlan", "MAC_STATIC_ADD">>}

\* The deletion by VLAN has its request in a comment.
MacDeleteCalls ==
  {<<"bcm_del_static_lock_mac_with_vlan", "MAC_STATIC_DEL">>,
   <<"bcm_l2_addr_delete_by_port", "MAC_DEL_BY_PORT">>,
   <<"bcm_l2_macaddr_add", "FAST_MAC_STATIC_ADD">>,
   <<"bcm_l2_macaddr_del", "FAST_MAC_STATIC_DEL">>}

QosCalls ==
  {<<"bcm_drop_profile_set", "QOS_DROP_PROFILE">>,
   <<"bcm_cosq_sched_set", "COSQ_SCHED_SET">>,
   <<"bcm_cosq_sched_get", "COSQ_SCHED_GET">>,
   <<"bcm_cosq_mapping_set", "COSQ_MAPPING_SET">>,
   <<"bcm_cosq_mapping_get", "COSQ_MAPPING_GET">>,
   <<"bcm_cosq_init", "COSQ_INIT">>,
   <<"bcm_set_qos_port_priority", "PORT_COSQ">>,
   <<"bcm_dscp_mapping_set", "DSCP_MAPPING_SET">>,
   <<"bcm_port_prority_set", "QOS_PORT_PRORITY">>}

TrunkCalls ==
  {<<"cli_get_port_trunk_status", "TRUNK_GET_PORT">>,
   <<"bcm_set_trunk_port", "TRUNK_SET_PORT">>,
   <<"bcm_trunk_set", "TRUNK_SET">>,
   <<"bcm_trunk_disable", "TRUNK_DEL">>,
   <<"bcm_trunk_remove_all", "TRUNK_DEL_ALL">>}

LinkCalls ==
  {<<"bcm_get_swlink_status", "GET_SWITCH_LINK">>,
   <<"bcm_get_port_link", "PORT_LINK_GET">>,
   <<"get_link_status", "GET_SWITCH_LINK">>,
   <<"bcm_get_link", "GET_LINK">>,
   <<"bcm_init_led", "LED_INIT">>}

\* With no rate the flags are given as 0 too: the limit is off.
RateCalls ==
  {<<"bcm_rate_set", "STORM_SET">>,
   <<"bcm_rate_get", "STORM_GET">>,
   <<"bcm_set_broadcast_data", "STORM_BCAST">>,
   <<"bcm_set_multicast_data", "STORM_MCAST">>,
   <<"bcm_set_dlfunicast_data", "STORM_UCAST">>,
   <<"bcm_rate_bandwidth_ingress_set", "RATE_INGRESS_SET">>,
   <<"bcm_rate_bandwidth_egress_set", "RATE_EGRESS_SET">>}

HostCalls ==
  {<<"bcm_l3_host", "L3_HOST_DUMP">>,
   <<"bcm_l3_intf_create", "L3_INTF_CREATE">>,
   <<"bcm_l3_intf_delete_all", "L3_INTF_DELETE_ALL">>,
   <<"bcm_l3_intf_delete", "L3_INTF_DELETE">>,
   <<"bcm_l3_intf_dump", "L3_INTF_DUMP">>,
   <<"bcm_l3_host_create", "L3_HOST_CREATE">>,
   <<"bcm_l3_host_delete", "L3_HOST_DELETE">>,
   <<"bcm_l3_host_find", "L3_HOST_FIND">>,
   <<"bcm_l3_host_delete_all", "L3_HOST_DELETE_ALL">>}

RouteCalls ==
  {<<"bcm_l3_route_add", "L3_ROUTE_SET">>,
   <<"bcm_l3_route_delete", "L3_ROUTE_DEL">>,
   <<"bcm_l3_route_delete_all", "L3_ROUTE_DELETE_ALL">>,
   <<"bcm_l3_route_dump", "L3_ROUTE_DUMP">>,
   <<"bcm_switch_control_arp_get", "L3_ARP_GET">>,
   <<"bcm_switch_control_arp_set", "L3_ARP_SET">>}

Ipv6Calls ==
  {<<"bcm_l3v6_host_create", "L3V6_HOST_CREATE">>,
   <<"bcm_l3v6_host_delete", "L3V6_HOST_DELETE">>,
   <<"bcm_l3v6_host_find", "L3V6_HOST_FIND">>,
   <<"bcm_l3v6_host_init", "L3V6_HOST_INIT">>}

MirrorCalls ==
  {<<"set_mirror_capture_enable", "MIRROR_SET">>,
   <<"bcm_mirror_vlan_set", "MIRROR_SET_VLAN">>,
   <<"set_bcm_mirror_vlan", "MIRROR_SET_VLAN">>,
   <<"del_bcm_mirror_vlan", "MIRROR_SESSION_DEL">>}

MulticastCalls ==
  {<<"bcm_ipmc_enable", "IPMC_ENABLE">>,
   <<"bcm_ipmc_add", "IPMC_ADD">>,
   <<"bcm_ipmc_remove", "IPMC_DEL">>,
   <<"bcm_ipmc_remove_all", "IPMC_DEL_ALL">>,
   <<"bcm_ipmc_egress_add", "IPMC_EGRESS_ADD">>,
   <<"bcm_ipmc_egress_remove", "IPMC_EGRESS_DEL">>,
   <<"bcm_ipmc_egress_remove_all", "IPMC_EGRESS_DEL_ALL">>,
   <<"bcm_ipmc_egress_port_set", "IPMC_EGRESS_PORT">>,
   <<"bcm_ipmc_dir_egress_port_set", "IPMC_ZEGRESS_PORT">>}

MulticastMoreCalls ==
  {<<"bcm_ipmc_dir_egress_add", "IPMC_ZEGRESS_ADD">>,
   <<"bcm_ipmc_dir_egress_remove", "IPMC_ZEGRESS_DEL">>,
   <<"bcm_ipmc_dump", "IPMC_DUMP">>}

GroupCalls ==
  {<<"bcm_mcast_join", "MULMAC_ADD_PORT">>,
   <<"bcm_mcast_bitmap_set", "MULMAC_ADD_PMAP">>,
   <<"bcm_mcast_destroy", "MULMAC_DEL_ALL">>,
   <<"bcm_mcast_addr_del", "MULMAC_DEL_ADDR">>,
   <<"bcm_igmp_snoop_set", "IGMP_SNOOP_SET">>}

I2cCalls ==
  {<<"bcm_i2c_read", "I2C_READ">>,
   <<"bcm_i2c_write", "I2C_WRITE">>,
   <<"bcm_ddm_read", "SFP_READ">>}

\* Clearing the guard is initialising it.
AuthCalls ==
  {<<"bcm_auth_mode_set", "PORT_AUTH_SET">>,
   <<"bcm_dhcp_snooping_set", "DHCP_SNOOP_ENABLE">>,
   <<"bcm_arp_snooping_set", "ARP_SNOOP_ENABLE">>,
   <<"bcm_ports_ip_drop_set", "IPADDR_POLICE_SET">>,
   <<"bcm_access_ip_init", "IPADDR_GUARD_INIT">>,
   <<"bcm_access_ip_set", "IPADDR_GUARD_SET">>,
   <<"bcm_access_ip_clear", "IPADDR_GUARD_INIT">>}

TrustCalls ==
  {<<"bcm_dhcpsnoop_trustport_set", "DHCP_SNOOP_TRUST">>,
   <<"bcm_dhcpv6_trustport_set", "DHCPv6_SNOOP_TRUST">>}

ControlCalls ==
  {<<"pvlan_port_type_set", "PVLAN_PORT_SET">>,
   <<"bcm_port_egress_set", "BCM_PORT_EGRESS_SET">>,
   <<"bcm_port_egress_get", "BCM_PORT_EGRESS_GET">>,
   <<"bcm_port_ingress_filter_set", "BCM_PORT_INGRESS_FILTER_SET">>,
   <<"vlan_translate_set", "VLAN_TRANLATE_SET">>,
   <<"vlan_control_set", "VLAN_CONTROL_SET">>,
   <<"vlan_control_get", "VLAN_CONTROL_GET">>,
   <<"vlan_control_vlan_set", "VLAN_CONTROL_VLAN_SET">>}

RegisterCalls ==
  {<<"vlan_control_vlan_get", "VLAN_CONTROL_VLAN_GET">>,
   <<"bcm_register_read", "BCM_REGISTER_READ">>,
   <<"bcm_register_write", "BCM_REGISTER_WRITE">>}

Calls == UNION {StpCalls, MstpCalls, AclCalls, AclMoreCalls, VlanCalls, VlanTableCalls,
                DoubleTagCalls, PortBasedCalls, CounterCalls, PortCalls, PortSetCalls,
                PortFrameCalls, MacLimitCalls, MacCalls, MacDeleteCalls, QosCalls, TrunkCalls,
                LinkCalls, RateCalls, HostCalls, RouteCalls, Ipv6Calls, MirrorCalls,
                MulticastCalls, MulticastMoreCalls, GroupCalls, I2cCalls, AuthCalls, TrustCalls,
                ControlCalls, RegisterCalls}

-----------------------------------------------------------------------------
(* Functions that make no request at all, and return 0. *)

\* These read and write over a serial bus of an older chip, by spi_rreg and spi_wreg,
\* whose bodies are empty.
SpiStubs ==
  {"set_multicast_lookup_fail", "set_igmp_snoop_enable", "set_port_auth_dynamic_mode_in_arl",
   "set_SW_check_auth_type", "set_port_learn_disable"}

TrunkStubs == {"set_trunk_enable", "set_trunking_type", "set_protected_port"}

CounterStubs == {"clear_counters"}

ArpRateStubs ==
  {"set_arp_rate_by_portid", "set_arp_rate_by_phymaps", "disable_arp_rate_by_portid"}

MirrorStubs ==
  {"set_mirror_capture_port", "get_mirror_capture_port", "set_mirror_ingress",
   "get_mirror_ingress", "set_mirror_egress", "get_mirror_egress", "set_mirror_ingress_div",
   "set_mirror_egress_div", "set_mirror_div"}

AuthStubs == {"bcm_auth_mode_get", "bcm_set_max_mac_num"}

RateStubs == {"bcm_rate_bandwidth_ingress_get", "bcm_rate_bandwidth_egress_get"}

Dhcp6Stubs ==
  {"copy_dhcp6_client_to_imp", "drop_untrust_dhcp6_server_packet", "copy_dhcp6_server_to_imp"}

MacStubs == {"bcm_l2_addr_delete_by_vlan", "cli_get_l2_mac_list"}

PortStubs ==
  {"set_port_disable", "set_port_fiber_mode", "set_fiber_manual", "set_extral_phy_sfp_manual",
   "bcm_rx_show"}

GmrpStubs ==
  {"set_gmrp_enable", "reset_gmrp_table", "add_hex_multimac_with_vlan",
   "del_hex_multimac_with_vlan"}

RouteStubs == {"bcm_l3_route_get"}

Stubs == UNION {SpiStubs, TrunkStubs, CounterStubs, ArpRateStubs, MirrorStubs, AuthStubs, RateStubs,
                Dhcp6Stubs, MacStubs, PortStubs, GmrpStubs, RouteStubs}

=============================================================================
