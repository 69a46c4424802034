SPECIFICATION Spec
CONSTANTS
    t1 = t1
    t2 = t2
    NoThread = NoThread
    Threads = {t1, t2}
    Used = {
        "getRev", "tx2bg96", "configure_pdp_context", "BG96Ready", "getSIMStatus",
        "getCSServiceStatus", "connect", "connect_pdp", "disconnect", "resolveUrl",
        "getRSSI", "getIPAddress", "getMACAddress", "recv", "open", "getError", "close",
        "rxAvail", "send", "startGNSS", "stopGNSS", "isGNSSOn", "updateGNSSLoc",
        "send_file", "configure_cacert_path", "configure_client_cert_path",
        "configure_privkey_path", "sslopen", "ssl_client_status", "sslsend",
        "sslsend_timeout", "sslrecv", "sslclose", "fs_size", "fs_nfiles",
        "fs_file_size", "fs_delete_file", "fs_upload_file", "fs_download_file",
        "fs_open", "fs_read", "fs_write", "fs_seek", "fs_get_offset", "fs_truncate",
        "fs_close", "mqtt_open", "mqtt_close", "send_generic_cmd", "mqtt_connect",
        "mqtt_disconnect", "mqtt_subscribe", "mqtt_unsubscribe", "mqtt_publish",
        "getLatesSyncTime", "mqtt_checkAvail"}
    MAX_CALLS = 2
    MAX_LATE = 1
SYMMETRY Symmetry
CHECK_DEADLOCK FALSE
INVARIANTS
    TypeOK
    TimeoutRestored
    KeptByTwoOnly
    MixupHasCause
