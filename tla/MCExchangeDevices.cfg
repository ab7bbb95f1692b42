SPECIFICATION Spec
CONSTANTS
    phone = phone
    tablet = tablet
    t1 = t1
    t2 = t2
    t3 = t3
    Devices = {phone, tablet}
    Tabs = {t1, t2, t3}
    NoDevice = NoDevice
INVARIANT IInv
INVARIANT RecordsAgree
SYMMETRY DevicesAndTabs
