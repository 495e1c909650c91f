SPECIFICATION LogosSpec
CONSTANTS
    Companies = {c1, c2, c3}
    Domains = {d1}
    NoDomain = NoDomain
    NoCompany = NoCompany
    SharedLimit = 2
PROPERTY SharedIsRefused
