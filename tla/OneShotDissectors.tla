-------------------------- MODULE OneShotDissectors --------------------------
(***************************************************************************)
(* The dissectors that decide on the first packet they are given: nothing  *)
(* of what they read is a counter or a stage of the flow.  Most of them    *)
(* compare lengths and bytes of the payload with what their protocol sends *)
(* first, set the protocol when they agree and exclude themselves when     *)
(* they do not.                                                            *)
(***************************************************************************)
EXTENDS DissectorBase

(* The payload decides.                                                    *)

ndpi_search_zmq(f, p) == DetectOrExclude(f, Recognised(p))
ndpi_search_zabbix(f, p) == DetectOrExclude(f, Recognised(p))
ndpi_search_gearman(f, p) == DetectOrExclude(f, Recognised(p))
ndpi_search_openwire(f, p) == DetectOrExclude(f, Recognised(p))
ndpi_search_ceph(f, p) == DetectOrExclude(f, Recognised(p))
ndpi_search_dingtalk(f, p) == DetectOrExclude(f, Recognised(p))
ndpi_search_avast(f, p) == DetectOrExclude(f, Recognised(p))
ndpi_search_guildwars2_tcp(f, p) == DetectOrExclude(f, Recognised(p))
ndpi_search_jrmi(f, p) == DetectOrExclude(f, Recognised(p))
ndpi_search_dnp3_tcp(f, p) == DetectOrExclude(f, Recognised(p))
ndpi_search_http2(f, p) == DetectOrExclude(f, Recognised(p))
ndpi_search_dicom(f, p) == DetectOrExclude(f, Recognised(p))
ndpi_search_openflow(f, p) == DetectOrExclude(f, Recognised(p))
ndpi_search_pptp(f, p) == DetectOrExclude(f, Recognised(p))
ndpi_search_kismet(f, p) == DetectOrExclude(f, Recognised(p))
ndpi_search_edonkey(f, p) == DetectOrExclude(f, Recognised(p))
ndpi_search_hislip(f, p) == DetectOrExclude(f, Recognised(p))
ndpi_search_paltalk(f, p) == DetectOrExclude(f, Recognised(p))
ndpi_search_mysql_tcp(f, p) == DetectOrExclude(f, Recognised(p))
ndpi_search_nexon(f, p) == DetectOrExclude(f, Recognised(p))
ndpi_search_fix(f, p) == DetectOrExclude(f, Recognised(p))
ndpi_search_msdo(f, p) == DetectOrExclude(f, Recognised(p))
ndpi_search_citrix(f, p) == DetectOrExclude(f, Recognised(p))
\* Wrong on purpose: the length is not tested.
ndpi_search_haproxy_NoLength(f, p) == DetectOrExclude(f, p.sig \in {"request", "short"})
ndpi_search_haproxy(f, p) == DetectOrExclude(f, Recognised(p))
ndpi_search_monero(f, p) ==
    IF Recognised(p) THEN AddToCache(Detect(f), "mining") ELSE Exclude(f)
ndpi_search_opc_ua(f, p) == DetectOrExclude(f, Recognised(p))
ndpi_search_elasticsearch(f, p) == DetectOrExclude(f, Recognised(p))
ndpi_search_iec60870_tcp(f, p) == DetectOrExclude(f, Recognised(p))
ndpi_search_nats_tcp(f, p) == DetectOrExclude(f, Recognised(p))
ndpi_search_mssql_tds(f, p) == DetectOrExclude(f, Recognised(p))
ndpi_search_lustre(f, p) == DetectOrExclude(f, Recognised(p))
ndpi_search_teso(f, p) == DetectOrExclude(f, Recognised(p))
ndpi_search_munin(f, p) == DetectOrExclude(f, Recognised(p))
ndpi_search_nano(f, p) ==
    IF Recognised(p) THEN AddToCache(Detect(f), "mining") ELSE Exclude(f)
ndpi_search_kafka(f, p) == DetectOrExclude(f, Recognised(p))
ndpi_search_tencent_games(f, p) == DetectOrExclude(f, Recognised(p))
ndpi_search_drda(f, p) == DetectOrExclude(f, Recognised(p))
\* Wrong on purpose: the cache is fed before the payload is tested.
ndpi_search_mining_Early(f, p) == DetectOrExclude(AddToCache(f, "mining"), Recognised(p))
ndpi_search_mining(f, p) ==
    IF Recognised(p) THEN AddToCache(Detect(WriteProtos(f)), "mining") ELSE Exclude(f)
ndpi_search_diameter(f, p) == DetectOrExclude(f, Recognised(p))
ndpi_search_xiaomi(f, p) == DetectOrExclude(f, Recognised(p))
ndpi_search_beckhoff_ads(f, p) == DetectOrExclude(f, Recognised(p))
ndpi_search_bjnp(f, p) == DetectOrExclude(f, Recognised(p))
ndpi_search_among_us(f, p) == DetectOrExclude(f, Recognised(p))
ndpi_search_ethersio(f, p) == DetectOrExclude(f, Recognised(p))
ndpi_search_megaco(f, p) == DetectOrExclude(f, Recognised(p))
ndpi_search_easyweather(f, p) == DetectOrExclude(f, Recognised(p))
ndpi_search_egd(f, p) == DetectOrExclude(f, Recognised(p))
ndpi_search_mpegts(f, p) == DetectOrExclude(f, Recognised(p))
ndpi_search_steam(f, p) == DetectOrExclude(f, Recognised(p))
ndpi_search_cnp_ip(f, p) == DetectOrExclude(f, Recognised(p))
ndpi_search_nintendo(f, p) == DetectOrExclude(f, Recognised(p))
ndpi_search_iqiyi(f, p) == DetectOrExclude(f, Recognised(p))
ndpi_search_samsung_sdp(f, p) == DetectOrExclude(f, Recognised(p))
ndpi_search_valve_sdr(f, p) == DetectOrExclude(f, Recognised(p))
ndpi_search_uftp(f, p) == DetectOrExclude(f, Recognised(p))
ndpi_search_ripe_atlas(f, p) == DetectOrExclude(f, Recognised(p))
ndpi_search_zug(f, p) == DetectOrExclude(f, Recognised(p))
ndpi_search_ethersbus(f, p) == DetectOrExclude(f, Recognised(p))
ndpi_search_rtps(f, p) == DetectOrExclude(f, Recognised(p))
ndpi_search_syncthing(f, p) == DetectOrExclude(f, Recognised(p))
ndpi_search_yojimbo(f, p) == DetectOrExclude(f, Recognised(p))
ndpi_search_lagofast(f, p) == DetectOrExclude(f, Recognised(p))
ndpi_search_gaijin(f, p) == DetectOrExclude(f, Recognised(p))
ndpi_search_riotgames(f, p) == DetectOrExclude(f, Recognised(p))
ndpi_search_armagetron_udp(f, p) == DetectOrExclude(f, Recognised(p))
ndpi_search_tristation(f, p) == DetectOrExclude(f, Recognised(p))
ndpi_search_noe(f, p) == DetectOrExclude(f, Recognised(p))
ndpi_search_i3d(f, p) == DetectOrExclude(f, Recognised(p))
ndpi_search_tuya_lp(f, p) == DetectOrExclude(f, Recognised(p))
ndpi_search_sd_rtn(f, p) == DetectOrExclude(f, Recognised(p))
ndpi_search_bacnet(f, p) == DetectOrExclude(f, Recognised(p))
ndpi_search_rmcp(f, p) == DetectOrExclude(f, Recognised(p))
ndpi_search_oicq(f, p) == DetectOrExclude(f, Recognised(p))
ndpi_search_mgcp(f, p) == DetectOrExclude(f, Recognised(p))
ndpi_search_collectd(f, p) == DetectOrExclude(f, Recognised(p))
ndpi_search_ssdp(f, p) ==
    IF Recognised(p) THEN Detect(WriteProtos(f)) ELSE Exclude(f)
ndpi_search_corba(f, p) == DetectOrExclude(f, Recognised(p))
ndpi_search_iec62056(f, p) == DetectOrExclude(f, Recognised(p))
ndpi_search_c1222(f, p) == DetectOrExclude(f, Recognised(p))
ndpi_search_amazon_video(f, p) == DetectOrExclude(f, Recognised(p))
ndpi_search_ieee_c37118(f, p) == DetectOrExclude(f, Recognised(p))
ndpi_search_crossfire_tcp_udp(f, p) == DetectOrExclude(f, Recognised(p))
ndpi_search_nomachine(f, p) == DetectOrExclude(f, Recognised(p))
ndpi_search_can(f, p) == DetectOrExclude(f, Recognised(p))
ndpi_search_ldap(f, p) == DetectOrExclude(f, Recognised(p))
ndpi_search_rtsp_tcp_udp(f, p) == DetectOrExclude(f, Recognised(p))
ndpi_search_bfcp(f, p) ==
    IF Recognised(p) THEN WriteProtos(Detect(f)) ELSE Exclude(f)
ndpi_search_gnutella(f, p) == DetectOrExclude(f, Recognised(p))
ndpi_search_tplink_shp(f, p) == DetectOrExclude(f, Recognised(p))
ndpi_search_trdp(f, p) == DetectOrExclude(f, Recognised(p))
ndpi_search_nfs(f, p) == DetectOrExclude(f, Recognised(p))
ndpi_search_kcp(f, p) == DetectOrExclude(f, Recognised(p))
ndpi_search_hart_ip(f, p) == DetectOrExclude(f, Recognised(p))
ndpi_search_syslog(f, p) == DetectOrExclude(f, Recognised(p))
ndpi_search_fins(f, p) == DetectOrExclude(f, Recognised(p))
ndpi_search_json(f, p) == DetectOrExclude(f, Recognised(p))
ndpi_search_ldp(f, p) == DetectOrExclude(f, Recognised(p))
ndpi_search_knxnet_ip(f, p) == DetectOrExclude(f, Recognised(p))
ndpi_search_roughtime(f, p) == DetectOrExclude(f, Recognised(p))
ndpi_search_tivoconnect(f, p) ==
    IF Recognised(p) THEN WriteProtos(Detect(f)) ELSE Exclude(f)
ndpi_search_someip(f, p) == DetectOrExclude(f, Recognised(p))
ndpi_search_slp(f, p) ==
    IF Recognised(p) THEN WriteProtos(Detect(f)) ELSE Exclude(f)
-----------------------------------------------------------------------------
(* A port or an address and the payload decide.                            *)

ndpi_search_kakaotalk_voice(f, p) == DetectOrExclude(f, f.port /\ Recognised(p))
ndpi_search_vmware(f, p) == DetectOrExclude(f, f.port /\ Recognised(p))
ndpi_search_tailscale(f, p) == DetectOrExclude(f, f.port /\ Recognised(p))
ndpi_search_merakicloud(f, p) == DetectOrExclude(f, f.port /\ Recognised(p))
ndpi_search_cpha(f, p) == DetectOrExclude(f, f.port /\ Recognised(p))
ndpi_search_wsd(f, p) == DetectOrExclude(f, f.port /\ Recognised(p))
ndpi_search_dhcpv6_udp(f, p) == DetectOrExclude(f, f.port /\ Recognised(p))
ndpi_search_pfcp(f, p) == DetectOrExclude(f, f.port /\ Recognised(p))
ndpi_search_hots(f, p) == DetectOrExclude(f, f.port /\ Recognised(p))
ndpi_search_vxlan(f, p) == DetectOrExclude(f, f.port /\ Recognised(p))
ndpi_search_ptpv2_udp(f, p) == DetectOrExclude(f, f.port /\ Recognised(p))
ndpi_search_bfd(f, p) == DetectOrExclude(f, f.port /\ Recognised(p))
ndpi_search_glbp(f, p) == DetectOrExclude(f, f.port /\ Recognised(p))
ndpi_search_ubntac2(f, p) ==
    IF f.port /\ Recognised(p) THEN WriteProtos(Detect(f)) ELSE Exclude(f)
ndpi_search_dropbox(f, p) == DetectOrExclude(f, f.port /\ Recognised(p))
ndpi_search_matter(f, p) == DetectOrExclude(f, f.port /\ Recognised(p))
ndpi_search_hsrp(f, p) == DetectOrExclude(f, f.port /\ Recognised(p))
ndpi_search_gtp(f, p) == DetectOrExclude(f, f.port /\ Recognised(p))
ndpi_search_coap(f, p) == DetectOrExclude(f, f.port /\ Recognised(p))
ndpi_search_dhcp_udp(f, p) ==
    IF f.port /\ Recognised(p) THEN WriteProtos(Detect(f)) ELSE Exclude(f)
ndpi_search_atg(f, p) == DetectOrExclude(f, f.port /\ Recognised(p))
ndpi_search_bgp(f, p) == DetectOrExclude(f, f.port /\ Recognised(p))
ndpi_search_bitcoin(f, p) == DetectOrExclude(f, f.port /\ Recognised(p))
ndpi_search_whois_das(f, p) == DetectOrExclude(f, f.port /\ Recognised(p))
ndpi_search_ethernet_ip(f, p) == DetectOrExclude(f, f.port /\ Recognised(p))
ndpi_search_oracle(f, p) == DetectOrExclude(f, f.port /\ Recognised(p))
ndpi_search_modbus_tcp(f, p) == DetectOrExclude(f, f.port /\ Recognised(p))
ndpi_search_git(f, p) == DetectOrExclude(f, f.port /\ Recognised(p))
ndpi_search_skinny(f, p) == DetectOrExclude(f, f.port /\ Recognised(p))
ndpi_search_xdmcp(f, p) == DetectOrExclude(f, f.port /\ Recognised(p))
ndpi_search_netbios(f, p) == DetectOrExclude(f, f.port /\ Recognised(p))
-----------------------------------------------------------------------------
(* The port or the transport selects the test.                             *)

ndpi_search_teredo(f, p) == DetectOrExclude(f, f.port /\ p.sig # "short")

ndpi_search_dlep(f, p) == DetectOrExclude(f, Recognised(p) /\ (f.l4 = "UDP" \/ f.port))

\* "reply" is the registration over UDP, tested on its port only.
ndpi_search_h323(f, p) ==
    DetectOrExclude(f, Recognised(p) \/ (f.l4 = "UDP" /\ f.port /\ p.sig = "reply"))

ndpi_search_lisp(f, p) ==
    DetectOrExclude(f, f.port /\ (f.l4 = "UDP" \/ Recognised(p)))

\* "reply" is the JSON form over TCP, which needs no port.
ndpi_search_ethereum(f, p) ==
    IF (f.port /\ Recognised(p)) \/ (f.l4 = "TCP" /\ p.sig = "reply")
    THEN AddToCache(Detect(f), "mining")
    ELSE Exclude(f)

\* "data" is a header with invalid fields: reported as malformed on the ports
\* of ISAKMP (ndpi_int_check_ports).
ndpi_search_ipsec(f, p) == DetectOrExclude(f, Recognised(p) \/ (f.port /\ p.sig = "data"))

\* "data" is version 2, which carries nothing to wait for.
ndpi_search_ntp_udp(f, p) ==
    CASE f.port /\ p.sig = "data" -> WriteProtos(Detect(f))
      [] f.port /\ Recognised(p) -> WriteProtos(DetectExtra(f))
      [] OTHER -> Exclude(f)

\* "request" is a version 1 or 2 message that is no response: 8 packets more
\* are checked for one; "reply" is the response and "data" is version 3.
ndpi_search_snmp(f, p) ==
    CASE f.port /\ Recognised(p) -> WriteProtos(DetectExtra(f))
      [] f.port /\ p.sig \in {"reply", "data"} -> WriteProtos(Detect(f))
      [] OTHER -> Exclude(f)

ndpi_search_cloudflare_warp(f, p) == DetectOrExclude(f, f.byip /\ f.port)

\* TCP trusts the guess by address, with its own confidence.  UDP waits while
\* the packet has no run of 0xFF ("data") and is then handed to STUN.
ndpi_search_telegram(f, p) ==
    CASE f.l4 = "TCP" /\ f.byip -> DetectedBy(f, "MATCH_BY_IP")
      [] f.l4 = "UDP" /\ f.port /\ p.sig = "data" -> Wait(f)
      [] f.l4 = "UDP" /\ f.port /\ Recognised(p) -> DetectExtra(f)
      [] OTHER -> Exclude(f)
-----------------------------------------------------------------------------
(* The side that speaks selects the test.                                  *)

ndpi_search_stomp(f, p) ==
    DetectOrExclude(f, \/ current_pkt_from_client_to_server(f, p) /\ p.sig = "request"
                       \/ current_pkt_from_server_to_client(f, p) /\ p.sig = "reply")

\* "reply" is one of the two forms either side may send.
ndpi_search_netease(f, p) ==
    DetectOrExclude(f, \/ current_pkt_from_client_to_server(f, p) /\ p.sig = "request"
                       \/ p.sig = "reply")

ndpi_search_source_engine(f, p) ==
    DetectOrExclude(f, \/ current_pkt_from_client_to_server(f, p) /\ p.sig = "request"
                       \/ current_pkt_from_server_to_client(f, p) /\ p.sig = "reply")
-----------------------------------------------------------------------------
(* The protocol below selects the test.                                    *)

ndpi_search_profinet_io(f, p) == DetectOrExclude(f, f.stack = "DCERPC" /\ Recognised(p))

ndpi_search_ipp(f, p) == DetectOrExclude(f, f.stack = "HTTP" /\ Recognised(p))

\* Over HTTP a packet without the content type ("request") is let pass.
JsonOrHl7(f, p) ==
    IF Recognised(p) THEN Detect(f)
    ELSE IF f.stack = "HTTP" THEN Wait(f)
    ELSE Exclude(f)

ndpi_search_json_rpc(f, p) == JsonOrHl7(f, p)
ndpi_search_hl7(f, p) == JsonOrHl7(f, p)

\* These three are called for an unknown protocol only; they test it again.
ndpi_search_ajp(f, p) ==
    IF Recognised(p) /\ f.stack = "UNKNOWN" THEN Detect(f)
    ELSE IF Recognised(p) THEN Wait(f)
    ELSE Exclude(f)

ndpi_search_iax(f, p) ==
    IF f.stack = "UNKNOWN" THEN DetectOrExclude(f, f.port /\ Recognised(p)) ELSE Wait(f)

ndpi_search_capwap(f, p) ==
    IF f.stack = "UNKNOWN" THEN DetectOrExclude(f, f.port /\ Recognised(p)) ELSE Wait(f)

\* Two forms of Thrift: strict ("request") on TCP and compact ("reply") on UDP.
ndpi_search_thrift_tcp_udp(f, p) ==
    IF f.stack = "HTTP" THEN DetectOrExclude(f, Recognised(p))
    ELSE IF \/ f.l4 = "TCP" /\ p.sig = "request"
            \/ f.l4 = "UDP" /\ p.sig = "reply"
    THEN WriteProtos(Detect(f))
    ELSE Exclude(f)
-----------------------------------------------------------------------------
(* The test has no return after it: these dissectors detect and then also  *)
(* exclude themselves.                                                     *)

DetectThenExclude(f, match) == Exclude(IF match THEN Detect(f) ELSE f)

ndpi_search_dofus(f, p) == DetectThenExclude(f, f.port /\ Recognised(p))
ndpi_search_ultrasurf(f, p) == DetectThenExclude(f, Recognised(p))
ndpi_search_cip(f, p) == DetectThenExclude(f, f.port /\ Recognised(p))
ndpi_search_flute(f, p) == DetectThenExclude(f, Recognised(p))
ndpi_search_resp(f, p) == DetectThenExclude(f, Recognised(p))

\* By port and length alone.
ndpi_search_sonos(f, p) == DetectThenExclude(f, f.port /\ p.sig # "short")

\* The first of its two forms returns, the second ("reply") does not.
ndpi_search_pathofexile(f, p) ==
    IF p.sig = "request" THEN Detect(f) ELSE DetectThenExclude(f, p.sig = "reply")

ndpi_search_spotify(f, p) ==
    IF f.l4 = "UDP" THEN DetectOrExclude(f, f.port /\ Recognised(p))
                    ELSE DetectThenExclude(f, Recognised(p))
==============================================================================
