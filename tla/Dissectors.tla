------------------------------ MODULE Dissectors ------------------------------
(***************************************************************************)
(* One dissector and the packets of one flow.  The dissector d is given    *)
(* every packet with payload of a flow f of its transport until it has     *)
(* decided, the way ndpi_check_flow_func calls it; g is the same traffic   *)
(* seen by a capture that numbers the two directions the other way.        *)
(***************************************************************************)
EXTENDS OneShotDissectors, CountedDissectors, StagedDissectors,
        TextDissectors, MediaDissectors

CONSTANT MaxWaited   \* bound: the packets of a flow whose dissector waits without a limit

VARIABLES d,   \* the dissector
          f,   \* the flow
          g    \* the same flow, directions exchanged

dissectVars == <<d, f, g>>
-----------------------------------------------------------------------------
(* What each dissector is registered for, and what it reads of the flow    *)
(* beside its own fields.                                                  *)

TcpOnly ==
    {"zmq", "zabbix", "gearman", "openwire", "ceph", "dingtalk", "avast",
     "guildwars2_tcp", "jrmi", "dnp3_tcp", "http2", "dicom", "openflow",
     "pptp", "kismet", "edonkey", "hislip", "paltalk", "mysql_tcp", "nexon",
     "fix", "msdo", "citrix", "haproxy", "monero", "opc_ua", "elasticsearch",
     "iec60870_tcp", "nats_tcp", "mssql_tds", "lustre", "teso", "munin",
     "nano", "kafka", "tencent_games", "drda", "mining", "diameter", "xiaomi",
     "beckhoff_ads", "atg", "bgp", "bitcoin", "whois_das", "ethernet_ip",
     "oracle", "modbus_tcp", "git", "skinny", "stomp", "ipp", "json_rpc",
     "hl7", "ajp", "dofus", "ultrasurf", "resp", "pathofexile", "rsync",
     "amqp", "alicloud", "checkmk", "afp", "iso9506_1_mms", "mongodb", "mqtt",
     "cassandra", "smpp_tcp", "hpvirtgrp", "threema", "rsh", "raft",
     "jabber_tcp", "smb_tcp", "s7comm", "mpegdash_http", "websocket",
     "vnc_tcp", "usenet_tcp", "postgres_tcp", "radmin", "rtmp", "socks",
     "hcl_notes", "nest_log_sink", "z3950", "whatsapp", "soap", "icecast_tcp",
     "telnet_tcp", "ftp_data", "ftp_control", "ssh_tcp", "fastcgi", "irc_tcp",
     "mail_pop_tcp", "mail_imap_tcp", "mail_smtp_tcp"}

UdpOnly ==
    {"bjnp", "among_us", "ethersio", "megaco", "easyweather", "egd", "mpegts",
     "steam", "cnp_ip", "nintendo", "iqiyi", "samsung_sdp", "valve_sdr",
     "uftp", "ripe_atlas", "zug", "ethersbus", "rtps", "syncthing", "yojimbo",
     "lagofast", "gaijin", "riotgames", "armagetron_udp", "tristation", "noe",
     "i3d", "tuya_lp", "sd_rtn", "bacnet", "rmcp", "oicq", "mgcp", "collectd",
     "ssdp", "kakaotalk_voice", "vmware", "tailscale", "merakicloud", "cpha",
     "wsd", "dhcpv6_udp", "pfcp", "hots", "vxlan", "ptpv2_udp", "bfd", "glbp",
     "ubntac2", "dropbox", "matter", "hsrp", "gtp", "coap", "dhcp_udp",
     "teredo", "ipsec", "ntp_udp", "snmp", "cloudflare_warp", "netease",
     "source_engine", "profinet_io", "iax", "capwap", "cip", "flute", "sonos",
     "qq", "ciscovpn", "cod_mobile", "radius", "avast_securedns", "toca_boca",
     "discord", "gearup_booster", "activision", "sflow", "crynet", "natpmp",
     "netflow", "mikrotik", "mumble", "lolwildrift", "epicgames", "eaq",
     "xbox", "tftp", "imo", "line", "rx", "wireguard", "zoom", "raknet",
     "softether"}

Either ==
    {"corba", "iec62056", "c1222", "amazon_video", "ieee_c37118",
     "crossfire_tcp_udp", "nomachine", "can", "ldap", "rtsp_tcp_udp", "bfcp",
     "gnutella", "tplink_shp", "trdp", "nfs", "kcp", "hart_ip", "syslog",
     "fins", "json", "ldp", "knxnet_ip", "roughtime", "tivoconnect", "someip",
     "slp", "xdmcp", "netbios", "dlep", "h323", "lisp", "ethereum",
     "telegram", "thrift_tcp_udp", "spotify", "dnscrypt", "melsec", "sip",
     "viber", "genshin_impact", "mudfish", "teamspeak", "protobuf", "msgpack",
     "dcerpc", "blizzard", "ookla", "memcached", "teamview", "tinc",
     "hamachi", "rdp", "zattoo", "dns", "kerberos", "rtp", "openvpn",
     "bittorrent"}

OtherTransport ==
    {"in_non_tcp_udp"}

\* They ask for a port or an address.
AsksPort ==
    {"kakaotalk_voice", "vmware", "tailscale", "merakicloud", "cpha", "wsd",
     "dhcpv6_udp", "pfcp", "hots", "vxlan", "ptpv2_udp", "bfd", "glbp",
     "ubntac2", "dropbox", "matter", "hsrp", "gtp", "coap", "dhcp_udp", "atg",
     "bgp", "bitcoin", "whois_das", "ethernet_ip", "oracle", "modbus_tcp",
     "git", "skinny", "xdmcp", "netbios", "teredo", "dlep", "h323", "lisp",
     "ethereum", "ipsec", "ntp_udp", "snmp", "cloudflare_warp", "telegram",
     "iax", "capwap", "dofus", "cip", "sonos", "spotify", "ciscovpn",
     "cod_mobile", "radius", "threema", "gearup_booster", "rsh", "mudfish",
     "crynet", "natpmp", "smb_tcp", "mikrotik", "s7comm", "blizzard", "ookla",
     "nest_log_sink", "eaq", "xbox", "teamview", "rdp", "zattoo", "ftp_data",
     "ftp_control", "dns", "kerberos", "in_non_tcp_udp", "zoom", "rtp",
     "bittorrent"}

\* They ask whether the beginning of the flow was captured.
AsksBeginning ==
    {"rtmp", "hcl_notes", "ftp_data"}

\* They ask for the protocol of the address, or an LRU cache for the flow.
AsksAddress ==
    {"cloudflare_warp", "telegram", "blizzard", "line", "raknet",
     "openvpn", "bittorrent"}

\* They depend on an option or on another dissector.
AsksOption ==
    {"dns", "rtp", "raknet", "openvpn", "bittorrent"}

\* They read num_processed_pkts.
AsksProcessed ==
    {"qq", "ciscovpn", "imo", "rdp", "wireguard"}

\* They are also called for what HTTP carries.
OverHttp ==
    {"ipp", "json_rpc", "hl7", "thrift_tcp_udp", "mpegdash_http", "websocket"}

Dissector == TcpOnly \union UdpOnly \union Either \union OtherTransport

\* The transport of ndpi_register_dissector's selection bitmask.
TransportsOf(x) ==
    (IF x \in TcpOnly \union Either THEN {"TCP"} ELSE {}) \union
    (IF x \in UdpOnly \union Either THEN {"UDP"} ELSE {}) \union
    (IF x \in OtherTransport THEN {"OTHER"} ELSE {})

\* What may be detected already: HTTP for its sub-dissectors, DCE/RPC for
\* PROFINET, nothing for the others.
MastersOf(x) ==
    {"UNKNOWN"} \union (IF x \in OverHttp THEN {"HTTP"} ELSE {})
                \union (IF x = "profinet_io" THEN {"DCERPC"} ELSE {})

\* A condition a dissector never reads is left FALSE.
FlowsOf(x) ==
    {flow \in NewFlows : /\ flow.l4 \in TransportsOf(x)
                         /\ flow.stack \in MastersOf(x)
                         /\ flow.port => x \in AsksPort
                         /\ flow.begin => x \in AsksBeginning
                         /\ flow.byip => x \in AsksAddress
                         /\ flow.opt => x \in AsksOption}

Mirrored(flow) == [flow EXCEPT !.client = Other(@)]

Swapped(p) == [p EXCEPT !.dir = Other(@)]

DissectInit ==
    /\ d \in Dissector
    /\ f \in FlowsOf(d)
    /\ g = Mirrored(f)

\* These wait without a limit of their own for a form that may never come.
Waiters ==
    {"dcerpc", "fastcgi", "hamachi", "hl7", "imo", "jabber_tcp", "json_rpc",
     "kerberos", "line", "lolwildrift", "mail_imap_tcp", "mail_pop_tcp",
     "mikrotik", "mumble", "natpmp", "nest_log_sink", "netflow", "openvpn",
     "raknet", "rdp", "rtmp", "rtp", "rx", "s7comm", "smb_tcp", "ssh_tcp",
     "teamview", "telegram", "tftp", "wireguard", "zattoo"}

\* Bound: how many packets a flow has.
PacketsOf(x) == IF x \in Waiters THEN MaxWaited ELSE MaxPackets

\* A call of the dissector with a packet that ndpi_connection_tracking counted.
Called(flow, p, Search(_, _)) ==
    IF Undecided(flow) THEN Search(Counted(flow, p), p) ELSE flow

\* check_ndpi_detection_func() calls a dissector while the flow is undecided.
ndpi_check_flow_func(name) == d = name /\ Undecided(f) /\ f.n < PacketsOf(d)

CallWith(name, packets, Search(_, _)) ==
    /\ ndpi_check_flow_func(name)
    /\ \E p \in packets : /\ f' = Called(f, p, Search)
                          /\ g' = Called(g, Swapped(p), Search)
    /\ UNCHANGED d

Call(name, Search(_, _)) == CallWith(name, Packet, Search)

CallText(name, Search(_, _)) == CallWith(name, TextPacket, Search)

\* A packet without payload: no dissector is called, num_processed_pkts grows.
Bare ==
    /\ d \in AsksProcessed
    /\ Undecided(f) /\ f.processed < PacketsOf(d)
    /\ f' = CountedBare(f) /\ g' = CountedBare(g)
    /\ UNCHANGED d

DissectNext ==
    \/ Call("zmq", ndpi_search_zmq)
    \/ Call("zabbix", ndpi_search_zabbix)
    \/ Call("gearman", ndpi_search_gearman)
    \/ Call("openwire", ndpi_search_openwire)
    \/ Call("ceph", ndpi_search_ceph)
    \/ Call("dingtalk", ndpi_search_dingtalk)
    \/ Call("avast", ndpi_search_avast)
    \/ Call("guildwars2_tcp", ndpi_search_guildwars2_tcp)
    \/ Call("jrmi", ndpi_search_jrmi)
    \/ Call("dnp3_tcp", ndpi_search_dnp3_tcp)
    \/ Call("http2", ndpi_search_http2)
    \/ Call("dicom", ndpi_search_dicom)
    \/ Call("openflow", ndpi_search_openflow)
    \/ Call("pptp", ndpi_search_pptp)
    \/ Call("kismet", ndpi_search_kismet)
    \/ Call("edonkey", ndpi_search_edonkey)
    \/ Call("hislip", ndpi_search_hislip)
    \/ Call("paltalk", ndpi_search_paltalk)
    \/ Call("mysql_tcp", ndpi_search_mysql_tcp)
    \/ Call("nexon", ndpi_search_nexon)
    \/ Call("fix", ndpi_search_fix)
    \/ Call("msdo", ndpi_search_msdo)
    \/ Call("citrix", ndpi_search_citrix)
    \/ Call("haproxy", ndpi_search_haproxy)
    \/ Call("monero", ndpi_search_monero)
    \/ Call("opc_ua", ndpi_search_opc_ua)
    \/ Call("elasticsearch", ndpi_search_elasticsearch)
    \/ Call("iec60870_tcp", ndpi_search_iec60870_tcp)
    \/ Call("nats_tcp", ndpi_search_nats_tcp)
    \/ Call("mssql_tds", ndpi_search_mssql_tds)
    \/ Call("lustre", ndpi_search_lustre)
    \/ Call("teso", ndpi_search_teso)
    \/ Call("munin", ndpi_search_munin)
    \/ Call("nano", ndpi_search_nano)
    \/ Call("kafka", ndpi_search_kafka)
    \/ Call("tencent_games", ndpi_search_tencent_games)
    \/ Call("drda", ndpi_search_drda)
    \/ Call("mining", ndpi_search_mining)
    \/ Call("diameter", ndpi_search_diameter)
    \/ Call("xiaomi", ndpi_search_xiaomi)
    \/ Call("beckhoff_ads", ndpi_search_beckhoff_ads)
    \/ Call("bjnp", ndpi_search_bjnp)
    \/ Call("among_us", ndpi_search_among_us)
    \/ Call("ethersio", ndpi_search_ethersio)
    \/ Call("megaco", ndpi_search_megaco)
    \/ Call("easyweather", ndpi_search_easyweather)
    \/ Call("egd", ndpi_search_egd)
    \/ Call("mpegts", ndpi_search_mpegts)
    \/ Call("steam", ndpi_search_steam)
    \/ Call("cnp_ip", ndpi_search_cnp_ip)
    \/ Call("nintendo", ndpi_search_nintendo)
    \/ Call("iqiyi", ndpi_search_iqiyi)
    \/ Call("samsung_sdp", ndpi_search_samsung_sdp)
    \/ Call("valve_sdr", ndpi_search_valve_sdr)
    \/ Call("uftp", ndpi_search_uftp)
    \/ Call("ripe_atlas", ndpi_search_ripe_atlas)
    \/ Call("zug", ndpi_search_zug)
    \/ Call("ethersbus", ndpi_search_ethersbus)
    \/ Call("rtps", ndpi_search_rtps)
    \/ Call("syncthing", ndpi_search_syncthing)
    \/ Call("yojimbo", ndpi_search_yojimbo)
    \/ Call("lagofast", ndpi_search_lagofast)
    \/ Call("gaijin", ndpi_search_gaijin)
    \/ Call("riotgames", ndpi_search_riotgames)
    \/ Call("armagetron_udp", ndpi_search_armagetron_udp)
    \/ Call("tristation", ndpi_search_tristation)
    \/ Call("noe", ndpi_search_noe)
    \/ Call("i3d", ndpi_search_i3d)
    \/ Call("tuya_lp", ndpi_search_tuya_lp)
    \/ Call("sd_rtn", ndpi_search_sd_rtn)
    \/ Call("bacnet", ndpi_search_bacnet)
    \/ Call("rmcp", ndpi_search_rmcp)
    \/ Call("oicq", ndpi_search_oicq)
    \/ Call("mgcp", ndpi_search_mgcp)
    \/ Call("collectd", ndpi_search_collectd)
    \/ Call("ssdp", ndpi_search_ssdp)
    \/ Call("corba", ndpi_search_corba)
    \/ Call("iec62056", ndpi_search_iec62056)
    \/ Call("c1222", ndpi_search_c1222)
    \/ Call("amazon_video", ndpi_search_amazon_video)
    \/ Call("ieee_c37118", ndpi_search_ieee_c37118)
    \/ Call("crossfire_tcp_udp", ndpi_search_crossfire_tcp_udp)
    \/ Call("nomachine", ndpi_search_nomachine)
    \/ Call("can", ndpi_search_can)
    \/ Call("ldap", ndpi_search_ldap)
    \/ Call("rtsp_tcp_udp", ndpi_search_rtsp_tcp_udp)
    \/ Call("bfcp", ndpi_search_bfcp)
    \/ Call("gnutella", ndpi_search_gnutella)
    \/ Call("tplink_shp", ndpi_search_tplink_shp)
    \/ Call("trdp", ndpi_search_trdp)
    \/ Call("nfs", ndpi_search_nfs)
    \/ Call("kcp", ndpi_search_kcp)
    \/ Call("hart_ip", ndpi_search_hart_ip)
    \/ Call("syslog", ndpi_search_syslog)
    \/ Call("fins", ndpi_search_fins)
    \/ Call("json", ndpi_search_json)
    \/ Call("ldp", ndpi_search_ldp)
    \/ Call("knxnet_ip", ndpi_search_knxnet_ip)
    \/ Call("roughtime", ndpi_search_roughtime)
    \/ Call("tivoconnect", ndpi_search_tivoconnect)
    \/ Call("someip", ndpi_search_someip)
    \/ Call("slp", ndpi_search_slp)
    \/ Call("kakaotalk_voice", ndpi_search_kakaotalk_voice)
    \/ Call("vmware", ndpi_search_vmware)
    \/ Call("tailscale", ndpi_search_tailscale)
    \/ Call("merakicloud", ndpi_search_merakicloud)
    \/ Call("cpha", ndpi_search_cpha)
    \/ Call("wsd", ndpi_search_wsd)
    \/ Call("dhcpv6_udp", ndpi_search_dhcpv6_udp)
    \/ Call("pfcp", ndpi_search_pfcp)
    \/ Call("hots", ndpi_search_hots)
    \/ Call("vxlan", ndpi_search_vxlan)
    \/ Call("ptpv2_udp", ndpi_search_ptpv2_udp)
    \/ Call("bfd", ndpi_search_bfd)
    \/ Call("glbp", ndpi_search_glbp)
    \/ Call("ubntac2", ndpi_search_ubntac2)
    \/ Call("dropbox", ndpi_search_dropbox)
    \/ Call("matter", ndpi_search_matter)
    \/ Call("hsrp", ndpi_search_hsrp)
    \/ Call("gtp", ndpi_search_gtp)
    \/ Call("coap", ndpi_search_coap)
    \/ Call("dhcp_udp", ndpi_search_dhcp_udp)
    \/ Call("atg", ndpi_search_atg)
    \/ Call("bgp", ndpi_search_bgp)
    \/ Call("bitcoin", ndpi_search_bitcoin)
    \/ Call("whois_das", ndpi_search_whois_das)
    \/ Call("ethernet_ip", ndpi_search_ethernet_ip)
    \/ Call("oracle", ndpi_search_oracle)
    \/ Call("modbus_tcp", ndpi_search_modbus_tcp)
    \/ Call("git", ndpi_search_git)
    \/ Call("skinny", ndpi_search_skinny)
    \/ Call("xdmcp", ndpi_search_xdmcp)
    \/ Call("netbios", ndpi_search_netbios)
    \/ Call("teredo", ndpi_search_teredo)
    \/ Call("dlep", ndpi_search_dlep)
    \/ Call("h323", ndpi_search_h323)
    \/ Call("lisp", ndpi_search_lisp)
    \/ Call("ethereum", ndpi_search_ethereum)
    \/ Call("ipsec", ndpi_search_ipsec)
    \/ Call("ntp_udp", ndpi_search_ntp_udp)
    \/ Call("snmp", ndpi_search_snmp)
    \/ Call("cloudflare_warp", ndpi_search_cloudflare_warp)
    \/ Call("telegram", ndpi_search_telegram)
    \/ Call("stomp", ndpi_search_stomp)
    \/ Call("netease", ndpi_search_netease)
    \/ Call("source_engine", ndpi_search_source_engine)
    \/ Call("profinet_io", ndpi_search_profinet_io)
    \/ Call("ipp", ndpi_search_ipp)
    \/ Call("json_rpc", ndpi_search_json_rpc)
    \/ Call("hl7", ndpi_search_hl7)
    \/ Call("ajp", ndpi_search_ajp)
    \/ Call("iax", ndpi_search_iax)
    \/ Call("capwap", ndpi_search_capwap)
    \/ Call("thrift_tcp_udp", ndpi_search_thrift_tcp_udp)
    \/ Call("dofus", ndpi_search_dofus)
    \/ Call("ultrasurf", ndpi_search_ultrasurf)
    \/ Call("cip", ndpi_search_cip)
    \/ Call("flute", ndpi_search_flute)
    \/ Call("resp", ndpi_search_resp)
    \/ Call("sonos", ndpi_search_sonos)
    \/ Call("pathofexile", ndpi_search_pathofexile)
    \/ Call("spotify", ndpi_search_spotify)
    \/ Call("rsync", ndpi_search_rsync)
    \/ Call("amqp", ndpi_search_amqp)
    \/ Call("qq", ndpi_search_qq)
    \/ Call("ciscovpn", ndpi_search_ciscovpn)
    \/ Call("alicloud", ndpi_search_alicloud)
    \/ Call("dnscrypt", ndpi_search_dnscrypt)
    \/ Call("cod_mobile", ndpi_search_cod_mobile)
    \/ Call("radius", ndpi_search_radius)
    \/ Call("checkmk", ndpi_search_checkmk)
    \/ Call("afp", ndpi_search_afp)
    \/ Call("iso9506_1_mms", ndpi_search_iso9506_1_mms)
    \/ Call("melsec", ndpi_search_melsec)
    \/ Call("mongodb", ndpi_search_mongodb)
    \/ Call("mqtt", ndpi_search_mqtt)
    \/ Call("cassandra", ndpi_search_cassandra)
    \/ Call("sip", ndpi_search_sip)
    \/ Call("smpp_tcp", ndpi_search_smpp_tcp)
    \/ Call("viber", ndpi_search_viber)
    \/ Call("avast_securedns", ndpi_search_avast_securedns)
    \/ Call("hpvirtgrp", ndpi_search_hpvirtgrp)
    \/ Call("genshin_impact", ndpi_search_genshin_impact)
    \/ Call("toca_boca", ndpi_search_toca_boca)
    \/ Call("discord", ndpi_search_discord)
    \/ Call("threema", ndpi_search_threema)
    \/ Call("gearup_booster", ndpi_search_gearup_booster)
    \/ Call("activision", ndpi_search_activision)
    \/ Call("rsh", ndpi_search_rsh)
    \/ Call("sflow", ndpi_search_sflow)
    \/ Call("mudfish", ndpi_search_mudfish)
    \/ Call("raft", ndpi_search_raft)
    \/ Call("crynet", ndpi_search_crynet)
    \/ Call("jabber_tcp", ndpi_search_jabber_tcp)
    \/ Call("teamspeak", ndpi_search_teamspeak)
    \/ Call("protobuf", ndpi_search_protobuf)
    \/ Call("msgpack", ndpi_search_msgpack)
    \/ Call("natpmp", ndpi_search_natpmp)
    \/ Call("netflow", ndpi_search_netflow)
    \/ Call("dcerpc", ndpi_search_dcerpc)
    \/ Call("smb_tcp", ndpi_search_smb_tcp)
    \/ Call("mikrotik", ndpi_search_mikrotik)
    \/ Call("s7comm", ndpi_search_s7comm)
    \/ Call("blizzard", ndpi_search_blizzard)
    \/ Call("mpegdash_http", ndpi_search_mpegdash_http)
    \/ Call("websocket", ndpi_search_websocket)
    \/ Call("vnc_tcp", ndpi_search_vnc_tcp)
    \/ Call("usenet_tcp", ndpi_search_usenet_tcp)
    \/ Call("postgres_tcp", ndpi_search_postgres_tcp)
    \/ Call("radmin", ndpi_search_radmin)
    \/ Call("mumble", ndpi_search_mumble)
    \/ Call("lolwildrift", ndpi_search_lolwildrift)
    \/ Call("epicgames", ndpi_search_epicgames)
    \/ Call("ookla", ndpi_search_ookla)
    \/ Call("rtmp", ndpi_search_rtmp)
    \/ Call("socks", ndpi_search_socks)
    \/ Call("hcl_notes", ndpi_search_hcl_notes)
    \/ Call("nest_log_sink", ndpi_search_nest_log_sink)
    \/ Call("memcached", ndpi_search_memcached)
    \/ Call("eaq", ndpi_search_eaq)
    \/ Call("xbox", ndpi_search_xbox)
    \/ Call("teamview", ndpi_search_teamview)
    \/ Call("z3950", ndpi_search_z3950)
    \/ Call("tftp", ndpi_search_tftp)
    \/ Call("tinc", ndpi_search_tinc)
    \/ Call("whatsapp", ndpi_search_whatsapp)
    \/ Call("imo", ndpi_search_imo)
    \/ Call("soap", ndpi_search_soap)
    \/ Call("icecast_tcp", ndpi_search_icecast_tcp)
    \/ Call("line", ndpi_search_line)
    \/ Call("rx", ndpi_search_rx)
    \/ Call("hamachi", ndpi_search_hamachi)
    \/ Call("rdp", ndpi_search_rdp)
    \/ Call("wireguard", ndpi_search_wireguard)
    \/ Call("zattoo", ndpi_search_zattoo)
    \/ Call("telnet_tcp", ndpi_search_telnet_tcp)
    \/ Call("ftp_data", ndpi_search_ftp_data)
    \/ CallText("ftp_control", ndpi_search_ftp_control)
    \/ Call("ssh_tcp", ndpi_search_ssh_tcp)
    \/ Call("fastcgi", ndpi_search_fastcgi)
    \/ Call("irc_tcp", ndpi_search_irc_tcp)
    \/ CallText("mail_pop_tcp", ndpi_search_mail_pop_tcp)
    \/ CallText("mail_imap_tcp", ndpi_search_mail_imap_tcp)
    \/ CallText("mail_smtp_tcp", ndpi_search_mail_smtp_tcp)
    \/ Call("dns", ndpi_search_dns)
    \/ Call("kerberos", ndpi_search_kerberos)
    \/ Call("in_non_tcp_udp", ndpi_search_in_non_tcp_udp)
    \/ Call("zoom", ndpi_search_zoom)
    \/ Call("rtp", ndpi_search_rtp)
    \/ Call("raknet", ndpi_search_raknet)
    \/ Call("softether", ndpi_search_softether)
    \/ Call("openvpn", ndpi_search_openvpn)
    \/ Call("bittorrent", ndpi_search_bittorrent)
    \/ Bare

DissectSpec == DissectInit /\ [][DissectNext]_dissectVars
-----------------------------------------------------------------------------
(* Properties.                                                             *)

FlowType ==
    [l4 : {"TCP", "UDP", "OTHER"}, port : BOOLEAN, begin : BOOLEAN, byip : BOOLEAN,
     opt : BOOLEAN, stack : Master, client : Direction, n : 0..MaxPackets,
     nd : [Direction -> 0..MaxPackets], processed : 0..MaxPackets,
     st : 0..255, aux : 0..255, side : [Direction -> 0..255], auth : SUBSET AuthItem,
     found : Confidence \union {"no"}, excluded : BOOLEAN, extra : BOOLEAN,
     fed : SUBSET Cache, seen : BOOLEAN, cut : BOOLEAN, wrote : BOOLEAN]

\* These store a stage, or a sum with the direction, that loses its high bits.
Truncates == {"epicgames", "usenet_tcp", "mail_pop_tcp"}

\* Every field the dissectors assign stays within its type, and no stage is too large
\* for the bit field the flow keeps it in.
DissectTypeOK ==
    /\ d \in Dissector /\ f \in FlowType /\ g \in FlowType
    /\ f.cut => d \in Truncates

PacketsToDecide == 13

\* Every other dissector gives up by itself: it has decided when it has seen
\* PacketsToDecide packets, however the two sides take turns and whatever they
\* send.
DecidesInTime == f.n >= PacketsToDecide /\ d \notin Waiters => ~Undecided(f)

\* Ports, lengths and counters decide alone in these.
NoBytes ==
    {"cloudflare_warp", "ftp_data", "in_non_tcp_udp", "lisp", "mikrotik",
     "sonos", "teredo"}

\* These return from the branch that detects into the exclusion below it.
FallThrough ==
    {"cip", "dofus", "flute", "in_non_tcp_udp", "mail_imap_tcp", "melsec",
     "msgpack", "pathofexile", "resp", "sonos", "spotify", "tinc",
     "ultrasurf", "websocket"}

\* A protocol is reported with the confidence NDPI_CONFIDENCE_DPI only when some
\* payload of the flow had one of the forms of the dissector, and a call never both
\* reports the protocol and excludes the dissector, so the verdict a flow carries is
\* the one its bitmask of excluded dissectors shows.
VerdictFromBytes ==
    /\ f.found = "DPI" /\ d \notin NoBytes => f.seen
    /\ f.found # "no" /\ f.excluded => d \in FallThrough

\* What outlives a call that does not recognise the flow: nothing in the union
\* flow->protos that the next dissector shares (SSH keeps the banner of one side
\* there while it waits for the other), nothing in the LRU caches that
\* other flows consult, no extra dissection.
EffectsNeedVerdict ==
    f.found = "no" => /\ f.wrote => d = "ssh_tcp"
                      /\ f.fed = {}
                      /\ ~f.extra

\* These take direction 0 for the client's.
TrustsNumbering == {"epicgames", "gearup_booster", "activision"}

\* The verdict does not depend on which side the capture numbered 0: stages that
\* hold 1 + direction or 2 - direction, and the counters of one side, are used
\* the same way for both.
MirrorAgrees ==
    (f.found = g.found /\ f.excluded = g.excluded) \/ d \in TrustsNumbering
==============================================================================
